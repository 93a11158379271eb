--------------------------- MODULE AutoreloadProofs ---------------------------
(* Proofs about Autoreload, for any sources, any number of changes and             *)
(* deployments, and chunks in any order.                                           *)
EXTENDS Autoreload, FiniteSetTheorems, SequenceTheorems, TLAPS

AllChunks == UNION {ChunksOf(r) : r \in 1 .. Len(made)}

\* What the canister stored came from the network and belongs to the reload it
\* collects; what it runs is complete, and once the reload it collects runs, none of
\* its chunks is left to arrive.
Fresh ==
    /\ k.stored \subseteq AllChunks \ network
    /\ \A q \in k.stored : q[1] = k.ts
    /\ k.running \subseteq AllChunks
    /\ \A q \in k.running :
          /\ q[1] <= k.ts /\ k.running = ChunksOf(q[1])
          /\ q[1] = k.ts => \A p \in network : p[1] # k.ts

Known == k.ts <= newest /\ k.ts <= Len(made)

IInv == TypeOK /\ Known /\ (~stale => Fresh)

-----------------------------------------------------------------------------
(* Chunks *)

\* The chunks of a version have natural numbers.
LEMMA NumbersType ==
    ASSUME NEW v \in Versions
    PROVE  Numbers(v) \subseteq Nat
BY CodeAssumption DEF Numbers

\* What is on its way or known belongs to a reload that was compiled.
LEMMA ChunkType ==
    ASSUME TypeOK, NEW p \in AllChunks
    PROVE  /\ p[1] \in 1 .. Len(made) /\ p[1] \in Nat
           /\ made[p[1]] \in Versions
           /\ p[2] \in Numbers(made[p[1]]) /\ p[2] \in Nat
           /\ p = <<p[1], p[2]>> /\ p \in ChunksOf(p[1])
<1>1. PICK r \in 1 .. Len(made) : p \in ChunksOf(r)
    BY DEF AllChunks
<1>2. made[r] \in Versions /\ r \in Nat
    BY <1>1 DEF TypeOK
<1>3. p[1] = r /\ p[2] \in Numbers(made[r]) /\ p = <<p[1], p[2]>>
    BY <1>1 DEF ChunksOf
<1> QED BY <1>1, <1>2, <1>3, NumbersType

\* A compilation leaves the chunks of earlier reloads what they were.
LEMMA SendKeepsChunks ==
    ASSUME TypeOK, NEW e \in Edits, SendReload(e)
    PROVE  /\ Len(made') = Len(made) + 1 /\ made' \in Seq(Versions)
           /\ \A r \in 1 .. Len(made) : made'[r] = made[r] /\ ChunksOf(r)' = ChunksOf(r)
           /\ AllChunks \subseteq AllChunks'
           /\ network' \subseteq AllChunks'
           /\ \A p \in network' : p \in network \/ p[1] = Len(made) + 1
<1> DEFINE v == watch[e].version
<1>1. v \in Versions /\ made \in Seq(Versions) /\ made' = Append(made, v)
    BY DEF TypeOK, SendReload
<1>2. /\ made' \in Seq(Versions) /\ Len(made') = Len(made) + 1 /\ Len(made) \in Nat
      /\ \A r \in 1 .. Len(made) : made'[r] = made[r]
      /\ made'[Len(made) + 1] = v
    BY <1>1, AppendProperties
<1>3. \A r \in 1 .. Len(made) : ChunksOf(r)' = ChunksOf(r)
    BY <1>2 DEF ChunksOf
<1>4. \A n : n = Len(made) + 1 => ChunksOf(n)' = {n} \X Numbers(v)
    BY <1>2 DEF ChunksOf, Numbers
<1>5. AllChunks \subseteq AllChunks'
    BY <1>2, <1>3 DEF AllChunks
<1>6. \A n : n = Len(made) + 1 => ChunksOf(n)' \subseteq AllChunks'
    BY <1>2 DEF AllChunks
<1>7. network \subseteq AllChunks
    BY DEF TypeOK, AllChunks
<1>8. network' = network \union ({Len(made) + 1} \X Numbers(v))
    BY DEF SendReload
<1>9. ({Len(made) + 1} \X Numbers(v)) \subseteq AllChunks'
    BY <1>4, <1>6
<1>10. \A p \in {Len(made) + 1} \X Numbers(v) : p[1] = Len(made) + 1
    OBVIOUS
<1> HIDE DEF v
<1> QED BY <1>2, <1>3, <1>5, <1>7, <1>8, <1>9, <1>10

\* What is stored after a chunk of a reload not older than what was seen is of that
\* reload alone.
LEMMA StoredOfOneReload ==
    ASSUME IInv, Fresh, NEW p \in network, ~(p[1] < newest)
    PROVE  /\ Stored(p) \subseteq ChunksOf(p[1])
           /\ Stored(p) \subseteq AllChunks \ (network \ {p})
           /\ p[1] \in Nat /\ k.ts <= p[1]
<1>1. network \subseteq AllChunks
    BY DEF IInv, TypeOK, AllChunks
<1>2. p \in AllChunks /\ p[1] \in Nat /\ p \in ChunksOf(p[1])
    BY <1>1, ChunkType DEF IInv
<1>3. k.ts \in Nat /\ newest \in Nat /\ k.ts <= newest
    BY DEF IInv, Known, TypeOK, Canister
<1>4. k.ts <= p[1]
    BY <1>2, <1>3
<1>5. \A q \in Stored(p) : q = p \/ (q \in k.stored /\ ~(p[1] > k.ts))
    BY DEF Stored
<1>6. \A q \in k.stored : q \in AllChunks /\ q \in ChunksOf(k.ts) /\ q \notin network
    BY ChunkType DEF Fresh, IInv
<1>7. p[1] > k.ts \/ p[1] = k.ts
    BY <1>2, <1>3, <1>4
<1> QED BY <1>2, <1>4, <1>5, <1>6, <1>7

\* Some chunks of a reload that are as long as all of it are all of it.
LEMMA CompleteIsAll ==
    ASSUME TypeOK, NEW p \in network, Stored(p) \subseteq ChunksOf(p[1]), Complete(p)
    PROVE  Stored(p) = ChunksOf(p[1])
<1> DEFINE v == made[p[1]]
           S == Stored(p)
<1>1. v \in Versions
    BY ChunkType DEF AllChunks, TypeOK
<1>2. IsFiniteSet(Code[v])
    BY <1>1, CodeAssumption
<1>3. S \subseteq {p[1]} \X Numbers(v)
    BY DEF ChunksOf
<1>4. Together(S) \subseteq Code[v]
    <2>1. \A q \in S : Chunk(made[q[1]], q[2]) \subseteq Code[v]
        BY <1>3 DEF Chunk
    <2> QED BY <2>1 DEF Together
<1>5. Cardinality(Together(S)) = Cardinality(Code[v])
    BY DEF Complete
<1>6. Together(S) = Code[v]
    BY <1>2, <1>4, <1>5, FS_Subset
<1>7. ASSUME NEW n \in Numbers(v)
      PROVE  <<p[1], n>> \in S
    <2>1. PICK b \in Code[v] : n = b[1]
        BY <1>7 DEF Numbers
    <2>2. PICK q \in S : b \in Chunk(made[q[1]], q[2])
        BY <1>6, <2>1 DEF Together
    <2>3. q[2] = n /\ q = <<p[1], n>>
        BY <1>3, <2>1, <2>2 DEF Chunk
    <2> QED BY <2>2, <2>3
<1> QED BY <1>3, <1>7 DEF ChunksOf

-----------------------------------------------------------------------------
(* The invariant *)

LEMMA DeployedType == Deployed \in Canister
<1>1. {} \in SUBSET (Nat \X Nat) /\ 0 \in Nat
    OBVIOUS
<1> QED BY <1>1, Zenon DEF Deployed, Canister

LEMMA InitIInv == Init => IInv
<1> SUFFICES ASSUME Init PROVE IInv
    OBVIOUS
<1>1. made \in Seq(Versions) /\ Len(made) = 0
    BY DEF Init
<1>2. watch \in [Edits -> [phase : {"none", "event", "compiling"}, version : Versions]]
    BY BoundsAssumption DEF Init, Idle, Versions
<1>3. k \in Canister /\ source \in Versions /\ deploys \in 0 .. MaxDeploys
    BY BoundsAssumption, DeployedType DEF Init, Versions
<1>4. TypeOK
    BY <1>1, <1>2, <1>3 DEF Init, TypeOK
<1>5. Known /\ Fresh
    BY <1>1 DEF Init, Known, Fresh, Deployed
<1> QED BY <1>4, <1>5 DEF IInv

LEMMA SendKeepsIInv ==
    ASSUME IInv, NEW e \in Edits, SendReload(e)
    PROVE  IInv'
<1>0. TypeOK
    BY DEF IInv
<1>s. /\ Len(made') = Len(made) + 1 /\ made' \in Seq(Versions)
      /\ \A r \in 1 .. Len(made) : made'[r] = made[r] /\ ChunksOf(r)' = ChunksOf(r)
      /\ AllChunks \subseteq AllChunks'
      /\ network' \subseteq AllChunks'
      /\ \A p \in network' : p \in network \/ p[1] = Len(made) + 1
    BY <1>0, SendKeepsChunks
<1>k. UNCHANGED <<source, k, deploys, lost, newest, stale>>
    BY DEF SendReload
<1>n. Len(made) \in Nat /\ k.ts \in Nat /\ k.ts <= Len(made)
    BY DEF IInv, TypeOK, Canister, Known
<1>1. TypeOK'
    <2>1. watch' \in [Edits -> [phase : {"none", "event", "compiling"}, version : Versions]]
        BY <1>0, BoundsAssumption DEF TypeOK, SendReload, Idle, Versions
    <2>2. network' \subseteq UNION {ChunksOf(r)' : r \in 1 .. Len(made')}
        BY <1>s DEF AllChunks
    <2> QED BY <1>0, <1>s, <1>k, <2>1, <2>2 DEF TypeOK
<1>2. Known'
    BY <1>s, <1>k, <1>n DEF IInv, Known
<1>3. ~stale' => Fresh'
    <2> SUFFICES ASSUME ~stale PROVE Fresh'
        BY <1>k
    <2>1. Fresh
        BY DEF IInv
    <2>2. \A q \in AllChunks : q[1] \in 1 .. Len(made)
        BY <1>0, ChunkType
    <2>3. k'.stored \subseteq AllChunks' \ network'
        BY <1>s, <1>k, <1>n, <2>1, <2>2 DEF Fresh
    <2>4. \A q \in k'.running : q[1] \in 1 .. Len(made) /\ k'.running = ChunksOf(q[1])'
        BY <1>s, <1>k, <2>1, <2>2 DEF Fresh
    <2>5. \A q \in k'.running : q[1] = k'.ts => \A p \in network' : p[1] # k'.ts
        BY <1>s, <1>k, <1>n, <2>1 DEF Fresh
    <2> QED BY <1>s, <1>k, <2>1, <2>3, <2>4, <2>5 DEF Fresh
<1> QED BY <1>1, <1>2, <1>3 DEF IInv

LEMMA ReloadKeepsIInv ==
    ASSUME IInv, NEW p \in network, ReloadJs(p)
    PROVE  IInv'
<1>0. TypeOK /\ Known
    BY DEF IInv
<1>u. /\ UNCHANGED <<source, watch, made, deploys, lost>>
      /\ network' = network \ {p}
      /\ stale' = (stale \/ p[1] < newest) /\ newest' = Later(p[1], newest)
      /\ k' = [ts |-> Later(p[1], k.ts), stored |-> Stored(p),
               running |-> IF Complete(p) THEN Stored(p) ELSE k.running]
    BY DEF ReloadJs
<1>c. \A r : ChunksOf(r)' = ChunksOf(r)
    BY <1>u DEF ChunksOf
<1>a. AllChunks' = AllChunks /\ network \subseteq AllChunks
    BY <1>0, <1>u, <1>c DEF AllChunks, TypeOK
<1>p. /\ p[1] \in 1 .. Len(made) /\ p[1] \in Nat /\ p \in Nat \X Nat /\ Len(made) \in Nat
      /\ k.ts \in Nat /\ newest \in Nat
    BY <1>0, <1>a, ChunkType DEF TypeOK, Canister
<1>1. TypeOK'
    <2>1. Stored(p) \subseteq Nat \X Nat
        BY <1>0, <1>p DEF Stored, TypeOK, Canister
    <2>2. k' \in Canister
        BY <1>0, <1>u, <1>p, <2>1 DEF TypeOK, Canister, Later
    <2>3. network' \subseteq UNION {ChunksOf(r)' : r \in 1 .. Len(made')}
        BY <1>u, <1>a DEF AllChunks
    <2>4. newest' \in Nat /\ stale' \in BOOLEAN
        BY <1>0, <1>u, <1>p DEF Later, TypeOK
    <2> QED BY <1>0, <1>u, <2>2, <2>3, <2>4 DEF TypeOK
<1>2. Known'
    BY <1>0, <1>u, <1>p DEF Known, Later
<1>3. ~stale' => Fresh'
    <2> SUFFICES ASSUME ~stale, ~(p[1] < newest) PROVE Fresh'
        BY <1>u
    <2>1. Fresh
        BY DEF IInv
    <2>2. /\ Stored(p) \subseteq ChunksOf(p[1])
          /\ Stored(p) \subseteq AllChunks \ (network \ {p}) /\ k.ts <= p[1]
        BY <2>1, StoredOfOneReload
    <2>3. k'.ts = p[1] /\ k'.stored = Stored(p)
        BY <1>u, <1>p, <2>2 DEF Later
    <2>4. \A q \in ChunksOf(p[1]) : q[1] = p[1]
        BY DEF ChunksOf
    <2>5. k'.stored \subseteq AllChunks' \ network' /\ \A q \in k'.stored : q[1] = k'.ts
        BY <1>u, <1>a, <2>2, <2>3, <2>4
    <2>6. CASE Complete(p)
        <3>1. k'.running = ChunksOf(p[1]) /\ Stored(p) = ChunksOf(p[1])
            BY <1>0, <1>u, <2>2, <2>6, CompleteIsAll
        <3>2. \A q \in network' : q[1] # p[1]
            BY <1>0, <1>u, <1>a, <2>2, <3>1, ChunkType
        <3>3. \A q \in k'.running : q[1] <= k'.ts /\ k'.running = ChunksOf(q[1])'
            BY <1>c, <1>p, <2>3, <2>4, <3>1
        <3>4. k'.running \subseteq AllChunks'
            BY <1>a, <2>2, <3>1
        <3> QED BY <2>3, <2>5, <3>2, <3>3, <3>4 DEF Fresh
    <2>7. CASE ~Complete(p)
        <3>1. k'.running = k.running
            BY <1>u, <2>7
        <3>2. ASSUME NEW q \in k.running
              PROVE  q[1] < p[1] /\ q[1] \in Nat /\ k.running = ChunksOf(q[1])'
            <4>1. q[1] \in Nat /\ q[1] <= k.ts /\ k.running = ChunksOf(q[1])
                BY <1>0, <2>1, ChunkType DEF Fresh
            <4>2. q[1] # p[1]
                BY <1>p, <2>1, <2>2, <4>1 DEF Fresh
            <4> QED BY <1>c, <1>p, <2>2, <4>1, <4>2
        <3>3. k'.running \subseteq AllChunks'
            BY <1>a, <2>1, <3>1 DEF Fresh
        <3>4. \A q \in k'.running : /\ q[1] <= k'.ts /\ k'.running = ChunksOf(q[1])'
                                    /\ q[1] # k'.ts
            BY <1>p, <2>3, <3>1, <3>2
        <3> QED BY <2>3, <2>5, <3>3, <3>4 DEF Fresh
    <2> QED BY <2>6, <2>7
<1> QED BY <1>1, <1>2, <1>3 DEF IInv

LEMMA NextKeepsIInv == IInv /\ [Next]_vars => IInv'
<1> SUFFICES ASSUME IInv, [Next]_vars PROVE IInv'
    OBVIOUS
<1>0. TypeOK /\ Known
    BY DEF IInv
<1>1. ASSUME UNCHANGED <<made, k, stale, newest>>, network' \subseteq network, TypeOK'
      PROVE  IInv'
    <2>1. \A r : ChunksOf(r)' = ChunksOf(r)
        BY <1>1 DEF ChunksOf
    <2>2. AllChunks' = AllChunks
        BY <1>1, <2>1 DEF AllChunks
    <2> QED BY <1>1, <2>1, <2>2 DEF IInv, Known, Fresh
<1>2. CASE UNCHANGED vars
    <2>1. TypeOK'
        BY <1>0, <1>2 DEF TypeOK, vars, ChunksOf
    <2> QED BY <1>1, <1>2, <2>1 DEF vars
<1>3. CASE Edit
    <2>1. TypeOK'
        BY <1>0, <1>3, BoundsAssumption DEF TypeOK, Edit, Versions, Edits, ChunksOf
    <2> QED BY <1>1, <1>3, <2>1 DEF Edit
<1>4. ASSUME NEW e \in Edits, ReadSources(e)
      PROVE  IInv'
    <2>1. TypeOK'
        BY <1>0, <1>4 DEF TypeOK, ReadSources, ChunksOf
    <2> QED BY <1>1, <1>4, <2>1 DEF ReadSources
<1>5. CASE Deploy
    <2>1. Len(made) \in Nat
        BY <1>0 DEF TypeOK
    <2>2. TypeOK'
        <3>0. newest' \in Nat
            BY <1>5, <2>1 DEF Deploy
        <3>1. k' \in Canister /\ stale' \in BOOLEAN
            BY <1>5, DeployedType, Zenon DEF Deploy
        <3>2. watch' \in [Edits -> [phase : {"none", "event", "compiling"},
                                   version : Versions]]
            BY <1>5, BoundsAssumption DEF Deploy, Idle, Versions
        <3>3. deploys' \in 0 .. MaxDeploys
            BY <1>0, <1>5, BoundsAssumption DEF Deploy, TypeOK
        <3> QED BY <1>0, <1>5, <3>0, <3>1, <3>2, <3>3 DEF TypeOK, Deploy, ChunksOf
    <2>3. Known'
        BY <1>5, <2>1 DEF Known, Deploy, Deployed
    <2>4. Fresh'
        BY <1>5 DEF Fresh, Deploy, Deployed
    <2> QED BY <2>2, <2>3, <2>4 DEF IInv
<1>6. ASSUME NEW p \in network, ReloadJsFails(p)
      PROVE  IInv'
    <2>1. p[1] \in Nat
        BY <1>0, ChunkType DEF TypeOK, AllChunks
    <2>2. TypeOK'
        BY <1>0, <1>6, <2>1 DEF TypeOK, ReloadJsFails, ChunksOf
    <2> QED BY <1>1, <1>6, <2>2 DEF ReloadJsFails
<1> QED BY <1>2, <1>3, <1>4, <1>5, <1>6, SendKeepsIInv, ReloadKeepsIInv DEF Next

LEMMA IInvHolds == Spec => []IInv
BY InitIInv, NextKeepsIInv, PTL DEF Spec

-----------------------------------------------------------------------------
(* Theorems *)

\* Every variable keeps its type, and only chunks of what was compiled are on their way.
THEOREM AutoreloadTypeCorrect == Spec => []TypeOK
<1>1. IInv => TypeOK
    BY DEF IInv
<1> QED BY <1>1, IInvHolds, PTL

\* The canister runs whole reloads, never a mixture, unless it took a chunk older than
\* one it had: for chunks of any length, in any order, with any lost.
THEOREM CanisterRunsOneReload == Spec => []RunsOneReload
<1>1. IInv => RunsOneReload
    BY DEF IInv, Fresh, RunsOneReload
<1> QED BY <1>1, IInvHolds, PTL

\* An evaluation replaces an earlier reload or the deployed code, never the same reload
\* or a later one.
THEOREM EvaluationsInOrder == Spec => ReloadsInOrder
<1>1. ASSUME IInv, [Next]_vars
      PROVE  [\A p \in network : ReloadJs(p) /\ Complete(p) /\ ~stale' =>
                 \A q \in k.running : q[1] < p[1]]_vars
    <2> SUFFICES ASSUME NEW p \in network, ReloadJs(p), ~stale', NEW q \in k.running
                 PROVE  q[1] < p[1]
        OBVIOUS
    <2>1. ~stale /\ ~(p[1] < newest)
        BY DEF ReloadJs
    <2>2. IInv /\ Fresh /\ TypeOK
        BY <1>1, <2>1 DEF IInv
    <2>3. p[1] \in Nat /\ k.ts <= p[1] /\ k.ts \in Nat
        BY <2>1, <2>2, StoredOfOneReload DEF TypeOK, Canister
    <2>4. q[1] \in Nat /\ q[1] <= k.ts /\ (q[1] = k.ts => p[1] # k.ts)
        BY <2>2, ChunkType DEF Fresh
    <2> QED BY <2>3, <2>4
<1> QED BY <1>1, IInvHolds, PTL DEF Spec, ReloadsInOrder
=============================================================================
