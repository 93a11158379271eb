-------------------------- MODULE UploadFileProofs --------------------------
(* Proofs about UploadFile, for files and chunks of any size: what a file holds    *)
(* when attempts overlap at will and, for attempts that follow one another, what a *)
(* recorded hash says of it.                                                       *)
EXTENDS UploadFile, FiniteSetTheorems, SequenceTheorems, TLAPS

\* The bytes of the file that attempt a wrote.
Written(content, a) == {i \in 1 .. Size[a] : content[i] = a}

\* While the chunks of attempt a are being received, what was counted is what is in
\* the file, and what is still to come is not.
Receiving(a) ==
    /\ disk \in [1 .. Size[a] -> {0, a}]
    /\ info.received = Cardinality(Written(disk, a))
    /\ \A k \in Chunks(a) : <<a, k>> \in sent => BytesOf(a, k) \intersect Written(disk, a) = {}

\* Attempts whose chunks may have been received.
Begun == {a \in Attempts : client[a] # "idle"}

Consistent ==
    /\ sent \subseteq {c \in Attempts \X Nat : c[2] \in Chunks(c[1]) /\ c[1] \in Begun}
    /\ info = Absent \/ info.timestamp \in {0} \union Begun
    /\ info # Absent /\ info.timestamp > 0 => Receiving(info.timestamp)

\* A file that a task has open by its path is there.
OpenFilesExist == \A task \in tasks : HasOpen(task) => disk # Absent

IInv == TypeOK /\ Consistent /\ OpenFilesExist

-----------------------------------------------------------------------------
(* Chunks and files *)

LEMMA SizeType ==
    ASSUME NEW a \in Attempts
    PROVE  /\ Size[a] \in Nat /\ a \in Nat /\ a > 0
           /\ IsFiniteSet(1 .. Size[a]) /\ Cardinality(1 .. Size[a]) = Size[a]
<1>1. Size[a] \in Nat /\ a \in Nat /\ a > 0
    BY UploadAssumption DEF Attempts
<1>2. 1 \in Int /\ Size[a] \in Int
    BY <1>1
<1>3. IsFiniteSet(1 .. Size[a])
      /\ Cardinality(1 .. Size[a]) = IF 1 > Size[a] THEN 0 ELSE Size[a] - 1 + 1
    BY <1>2, FS_Interval
<1> QED BY <1>1, <1>3

\* Two chunks have no byte in common.
LEMMA ChunksDisjoint ==
    ASSUME NEW a \in Attempts, NEW j \in Nat, NEW k \in Nat, j # k
    PROVE  BytesOf(a, j) \intersect BytesOf(a, k) = {}
<1> DEFINE C == ChunkSize
<1>0. C \in Nat /\ C > 0 /\ Size[a] \in Nat
    BY UploadAssumption, SizeType
<1>1. ASSUME NEW m \in Nat, NEW n \in Nat, m < n
      PROVE  BytesOf(a, m) \intersect BytesOf(a, n) = {}
    <2>1. PICK d \in Nat : n = m + 1 + d
        <3>1. n - (m + 1) \in Nat /\ n = m + 1 + (n - (m + 1))
            BY <1>1
        <3> QED BY <3>1
    <2>2. n * C = (m + 1) * C + d * C /\ d * C \in Nat /\ (m + 1) * C \in Nat
        BY <1>0, <2>1, Z3
    <2>3. (m + 1) * C <= n * C /\ n * C \in Nat
        BY <2>2
    <2> QED BY <1>0, <2>2, <2>3 DEF BytesOf
<1>2. j < k \/ k < j
    OBVIOUS
<1> QED BY <1>1, <1>2

LEMMA BytesFinite ==
    ASSUME NEW a \in Attempts, NEW k
    PROVE  BytesOf(a, k) \subseteq 1 .. Size[a] /\ IsFiniteSet(BytesOf(a, k))
           /\ Cardinality(BytesOf(a, k)) \in Nat
<1>1. BytesOf(a, k) \subseteq 1 .. Size[a]
    BY DEF BytesOf
<1>2. IsFiniteSet(BytesOf(a, k))
    BY <1>1, SizeType, FS_Subset
<1> QED BY <1>1, <1>2, FS_CardinalityType

\* A file is not the absence of one.
LEMMA FileIsPresent ==
    ASSUME NEW a \in Attempts, NEW content \in [1 .. Size[a] -> {0, a}]
    PROVE  content # Absent /\ Len(content) = Size[a] /\ DOMAIN content = 1 .. Size[a]
<1>1. content \in [1 .. Size[a] -> Nat] /\ Size[a] \in Nat
    BY SizeType
<1>2. content \in Seq(Nat)
    BY <1>1, SeqDef
<1>3. content # Absent
    BY <1>2, UploadAssumption
<1> QED BY <1>1, <1>2, <1>3

\* write_chunk adds the bytes of its chunk, and only those.
LEMMA ChunkWritten ==
    ASSUME NEW a \in Attempts, NEW k \in Nat, NEW content,
           content = Absent \/ content \in [1 .. Size[a] -> {0, a}]
    PROVE  LET old == IF content = Absent THEN {} ELSE Written(content, a)
           IN  /\ WithChunk(content, a, k) \in [1 .. Size[a] -> {0, a}]
               /\ Written(WithChunk(content, a, k), a) = old \union BytesOf(a, k)
               /\ IsFiniteSet(old) /\ Cardinality(old) \in Nat
<1> DEFINE old == IF content = Absent THEN {} ELSE Written(content, a)
           new == WithChunk(content, a, k)
<1>1. a # 0 /\ BytesOf(a, k) \subseteq 1 .. Size[a]
    BY SizeType, BytesFinite
<1>2. new \in [1 .. Size[a] -> {0, a}]
    BY DEF WithChunk
<1>3. \A i \in 1 .. Size[a] :
          new[i] = IF i \in BytesOf(a, k) THEN a ELSE IF content = Absent THEN 0 ELSE content[i]
    BY DEF WithChunk
<1>4. Written(new, a) = old \union BytesOf(a, k)
    BY <1>1, <1>3 DEF Written
<1>5. old \subseteq 1 .. Size[a]
    BY DEF Written
<1>6. IsFiniteSet(old)
    BY <1>5, SizeType, FS_Subset
<1> QED BY <1>2, <1>4, <1>6, FS_CardinalityType

\* A file of which attempt a wrote as many bytes as its source has is that source.
LEMMA CountedIsComplete ==
    ASSUME NEW a \in Attempts, NEW content \in [1 .. Size[a] -> {0, a}],
           Cardinality(Written(content, a)) = Size[a]
    PROVE  content = Source(a)
<1>1. Written(content, a) \subseteq 1 .. Size[a]
    BY DEF Written
<1>2. Written(content, a) = 1 .. Size[a]
    BY <1>1, SizeType, FS_Subset
<1>3. \A i \in 1 .. Size[a] : content[i] = a
    BY <1>2 DEF Written
<1> QED BY <1>3 DEF Source

-----------------------------------------------------------------------------
(* Steps *)

LEMMA InitIInv == Init => IInv
<1>1. Init => TypeOK
    BY DEF Init, TypeOK
<1> QED BY <1>1 DEF Init, IInv, Consistent, OpenFilesExist

\* A turn of the loop goes on with the file the task had.
LEMMA TurnedTask ==
    ASSUME NEW u \in Task, NEW content, Turn(u, content), NEW task \in tasks', task \notin tasks
    PROVE  task.file = u.file /\ task.at # "start"
<1> DEFINE piece == Piece(content, u.position)
<1>1. CASE piece = <<>>
    <2>1. task = [u EXCEPT !.at = "final", !.result = Partial]
        BY <1>1 DEF Turn
    <2> QED BY <2>1 DEF Task
<1>2. CASE piece # <<>>
    <2>1. task = [u EXCEPT !.at = "loop", !.position = @ + Len(piece)]
        BY <1>2 DEF Turn
    <2> HIDE DEF piece
    <2> QED BY <2>1 DEF Task
<1> QED BY <1>1, <1>2

\* What upload_file_chunk does with a chunk it accepts.
LEMMA AcceptReceives ==
    ASSUME IInv, NEW a \in Attempts, NEW k \in Nat, <<a, k>> \in sent,
           sent' = sent \ {<<a, k>>}, NEW fresh \in BOOLEAN, Accept(a, k, fresh),
           ~fresh => info # Absent /\ info.timestamp = a
    PROVE  /\ Receiving(a)'
           /\ info' # Absent => info'.timestamp = a
           /\ info'.received = Cardinality(Written(disk', a))
<1> DEFINE content == IF fresh THEN Absent ELSE disk
           old == IF content = Absent THEN {} ELSE Written(content, a)
           count == IF fresh THEN 0 ELSE info.received
<1>0. a > 0 /\ a \in Nat
    BY SizeType
<1>1. ~fresh => Receiving(a)
    BY <1>0 DEF IInv, Consistent
<1>2. content = Absent \/ content \in [1 .. Size[a] -> {0, a}]
    BY <1>1 DEF Receiving
<1>3. /\ WithChunk(content, a, k) \in [1 .. Size[a] -> {0, a}]
      /\ Written(WithChunk(content, a, k), a) = old \union BytesOf(a, k)
      /\ IsFiniteSet(old) /\ Cardinality(old) \in Nat
    BY <1>2, ChunkWritten
<1>4. disk' = WithChunk(content, a, k) /\ info'.timestamp = a
      /\ info'.received = count + Cardinality(BytesOf(a, k))
    BY DEF Accept, BytesReceived
<1>5. count = Cardinality(old)
    <2>1. CASE fresh
        BY <2>1, FS_EmptySet
    <2>2. CASE ~fresh
        BY <1>1, <2>2, FileIsPresent DEF Receiving
    <2> QED BY <2>1, <2>2
<1>6. k \in Chunks(a) /\ old \intersect BytesOf(a, k) = {}
    <2>1. k \in Chunks(a)
        BY DEF IInv, Consistent
    <2>2. CASE fresh
        BY <2>1, <2>2
    <2>3. CASE ~fresh
        BY <1>1, <2>1, <2>3 DEF Receiving
    <2> QED BY <2>2, <2>3, <2>1
<1> HIDE DEF content, old, count
<1>7. info'.received = Cardinality(old \union BytesOf(a, k))
    <2>1. IsFiniteSet(BytesOf(a, k)) /\ Cardinality(BytesOf(a, k)) \in Nat
        BY BytesFinite
    <2>2. Cardinality(old \union BytesOf(a, k))
            = Cardinality(old) + Cardinality(BytesOf(a, k)) - Cardinality(old \intersect BytesOf(a, k))
        BY <1>3, <2>1, FS_Union
    <2>3. Cardinality(old \intersect BytesOf(a, k)) = 0
        BY <1>6, FS_EmptySet
    <2> QED BY <1>3, <1>4, <1>5, <2>1, <2>2, <2>3
<1>8. ASSUME NEW j \in Chunks(a), <<a, j>> \in sent'
      PROVE  BytesOf(a, j) \intersect Written(disk', a) = {}
    <2>1. j # k /\ <<a, j>> \in sent /\ j \in Nat
        BY <1>8 DEF Chunks
    <2>2. BytesOf(a, j) \intersect BytesOf(a, k) = {}
        BY <2>1, ChunksDisjoint
    <2>3. BytesOf(a, j) \intersect old = {}
        BY <1>1, <1>8, <2>1 DEF Receiving, old, content
    <2> QED BY <1>3, <1>4, <2>2, <2>3
<1> QED BY <1>3, <1>4, <1>7, <1>8 DEF Receiving

LEMMA ReceiveChunkPreserves ==
    ASSUME IInv, NEW c \in sent, ReceiveChunk(c[1], c[2])
    PROVE  Consistent'
<1> DEFINE a == c[1]
           k == c[2]
<1>1. a \in Attempts /\ k \in Nat /\ c = <<a, k>> /\ a \in Begun /\ a > 0 /\ a \in Nat
    BY SizeType DEF IInv, Consistent
<1>2. sent' = sent \ {<<a, k>>} /\ client' = client /\ <<a, k>> \in sent
    BY <1>1 DEF ReceiveChunk
<1>3.
      /\ Begun' = Begun
      /\ (sent \subseteq {x \in Attempts \X Nat : x[2] \in Chunks(x[1]) /\ x[1] \in Begun})'
    BY <1>2 DEF IInv, Consistent, Begun
<1>4. ASSUME UNCHANGED <<disk, info>> PROVE Consistent'
    BY <1>2, <1>3, <1>4 DEF IInv, Consistent, Receiving
<1>5. ASSUME NEW fresh \in BOOLEAN, Accept(a, k, fresh),
             ~fresh => info # Absent /\ info.timestamp = a
      PROVE  Consistent'
    BY <1>1, <1>2, <1>3, <1>5, AcceptReceives DEF IInv, Consistent
<1>6. a = Timestamp => info # Absent /\ info.timestamp = a
    BY <1>1 DEF Timestamp
<1> QED BY <1>4, <1>5, <1>6 DEF ReceiveChunk

\* Steps that neither receive a chunk nor send any: the file, its entry and the calls
\* on their way are as before, or nothing is being received any more.
LEMMA OthersPreserve ==
    ASSUME IInv, Begun \subseteq Begun', sent' \subseteq sent,
           \/ info' = Absent
           \/ info'.timestamp = 0
           \/ /\ UNCHANGED disk
              /\ info # Absent
              /\ info'.timestamp = info.timestamp /\ info'.received = info.received
    PROVE  Consistent'
<1>1. (sent \subseteq {x \in Attempts \X Nat : x[2] \in Chunks(x[1]) /\ x[1] \in Begun})'
    BY DEF IInv, Consistent
<1>2. info' = Absent \/ info'.timestamp \in {0} \union Begun'
    BY DEF IInv, Consistent
<1>3. ASSUME info' # Absent, info'.timestamp > 0 PROVE Receiving(info.timestamp)'
    BY <1>3 DEF IInv, Consistent, Receiving
<1> QED BY <1>1, <1>2, <1>3 DEF IInv, Consistent

LEMMA StartUploadPreserves ==
    ASSUME IInv, NEW a \in Attempts, StartUpload(a)
    PROVE  Consistent'
<1>1.
      /\ Begun' = Begun \union {a} /\ a \notin Begun
      /\ UNCHANGED <<disk, info>>
    BY DEF StartUpload, IInv, TypeOK, Begun
<1>2. sent' = sent \union ({a} \X Chunks(a))
    BY DEF StartUpload
<1>3. (sent \subseteq {x \in Attempts \X Nat : x[2] \in Chunks(x[1]) /\ x[1] \in Begun})'
    BY <1>1, <1>2 DEF IInv, Consistent, Chunks
<1>4. ASSUME info # Absent, info.timestamp > 0 PROVE Receiving(info.timestamp)'
    <2> DEFINE b == info.timestamp
    <2>1. b \in Begun /\ b # a /\ Receiving(b)
        BY <1>1, <1>4 DEF IInv, Consistent
    <2>2. \A k \in Chunks(b) : <<b, k>> \in sent' => <<b, k>> \in sent
        BY <1>2, <2>1
    <2> QED BY <1>1, <2>1, <2>2 DEF Receiving
<1> QED BY <1>1, <1>3, <1>4 DEF IInv, Consistent

LEMMA TaskPreserves ==
    ASSUME IInv, NEW task, Hashing(task) \/ TaskDies(task)
    PROVE  Consistent'
<1>1. UNCHANGED <<disk, client, sent>>
    BY DEF Hashing, StartHash, GoOnHashing, FinishHash, TaskDies, Dies
<1>2. Begun' = Begun
    BY <1>1 DEF Begun, IInv, Consistent
<1>3. \/ info' = Absent
      \/ info' = info
      \/ info # Absent /\ \E piece : info' = [info EXCEPT !.partial = HashChunkWith(piece, @)]
    BY DEF Hashing, StartHash, GoOnHashing, FinishHash, TaskDies, Dies, Turn, CanTurn
<1>4. \/ info' = Absent
      \/ info # Absent /\ info'.timestamp = info.timestamp /\ info'.received = info.received
    BY <1>3 DEF IInv, TypeOK
<1> QED BY <1>1, <1>2, <1>4, OthersPreserve

LEMMA ConsistentPreserved == IInv /\ [Next]_vars => Consistent'
<1> SUFFICES ASSUME IInv, [Next]_vars PROVE Consistent'
    OBVIOUS
<1>1. CASE \E a \in Attempts : StartUpload(a)
    BY <1>1, StartUploadPreserves
<1>2. ASSUME NEW a \in Attempts, BeforeExit(a) PROVE Consistent'
    <2>1. UNCHANGED <<disk, info, sent>> /\ client[a] = "uploading"
          /\ \E x \in {"clearing", "done"} : client' = [client EXCEPT ![a] = x]
        BY <1>2 DEF BeforeExit, NothingToWaitFor
    <2>2. Begun' = Begun
        BY <2>1 DEF Begun, IInv, TypeOK
    <2> QED BY <2>1, <2>2 DEF IInv, Consistent, Receiving
<1>3. ASSUME NEW a \in Attempts, ClearFile(a) PROVE Consistent'
    <2>1. Begun' = Begun
          /\ sent' = sent
        BY <1>3 DEF ClearFile, Begun, IInv, TypeOK
    <2>2. CASE info' = NewInfo(0)
        <3>1. info'.timestamp = 0
            BY <2>2 DEF NewInfo
        <3> QED BY <2>1, <3>1, OthersPreserve
    <2>3. CASE UNCHANGED <<disk, info>>
        BY <2>1, <2>3 DEF IInv, Consistent, Receiving
    <2> QED BY <1>3, <2>2, <2>3 DEF ClearFile
<1>4. ASSUME NEW c \in sent, LoseChunk(c) PROVE Consistent'
    <2>1. UNCHANGED <<disk, info, client>> /\ sent' \subseteq sent
        BY <1>4 DEF LoseChunk
    <2>2. Begun' = Begun
        BY <2>1 DEF Begun
    <2> QED BY <2>1, <2>2 DEF IInv, Consistent, Receiving
<1>5. CASE \E c \in sent : ReceiveChunk(c[1], c[2])
    BY <1>5, ReceiveChunkPreserves
<1>6. CASE \E task \in tasks : Hashing(task) \/ TaskDies(task)
    BY <1>6, TaskPreserves
<1>7. CASE Upgrade
    <2>1. info' = Absent /\ UNCHANGED <<client, sent>>
        BY <1>7 DEF Upgrade
    <2>2. Begun' = Begun
        BY <2>1 DEF Begun
    <2> QED BY <2>1, <2>2, OthersPreserve DEF IInv, Consistent
<1>8. CASE UNCHANGED vars
    BY <1>8 DEF vars, IInv, Consistent, Receiving, Begun
<1> QED BY <1>1, <1>2, <1>3, <1>4, <1>5, <1>6, <1>7, <1>8 DEF Next

-----------------------------------------------------------------------------
(* Types *)

\* k chunks of a file that holds at least k are no longer than it.
LEMMA DivisionBound ==
    ASSUME NEW n \in Nat, NEW d \in Nat \ {0}, NEW k \in Nat, k <= n \div d
    PROVE  k * d <= n
<1>1. (n \div d) \in Nat /\ (n \div d) * d <= n
    BY Z3
<1>2. k * d <= (n \div d) * d
    BY <1>1, Z3
<1> QED BY <1>1, <1>2, Z3

LEMMA PieceType ==
    ASSUME NEW content \in Content, NEW position \in Nat
    PROVE  Piece(content, position) \in Content
<1> DEFINE last == IF position + HashLimit < Len(content) THEN position + HashLimit ELSE Len(content)
<1>1. HashLimit \in Nat /\ Len(content) \in Nat
    BY UploadAssumption DEF Content
<1>2. last \in Int /\ position + 1 \in Int /\ last <= Len(content)
    BY <1>1
<1>3. \A i \in 1 .. Len(content) : content[i] \in 0 .. MaxAttempts
    BY ElementOfSeq DEF Content
<1>4. \A i \in position + 1 .. last : i \in 1 .. Len(content)
    BY <1>1, <1>2
<1>5. \A i \in position + 1 .. last : content[i] \in 0 .. MaxAttempts
    BY <1>3, <1>4
<1> HIDE DEF last
<1>6. SubSeq(content, position + 1, last) \in Seq(0 .. MaxAttempts)
    BY <1>2, <1>5, SubSeqProperties
<1> QED BY <1>6 DEF Piece, Content, last

LEMMA ContentType ==
    ASSUME NEW n \in Nat, NEW content \in [1 .. n -> 0 .. MaxAttempts]
    PROVE  content \in Content
    BY SeqDef DEF Content

LEMMA HashChunkType ==
    ASSUME NEW piece \in Content, NEW previous \in Seq(Content)
    PROVE  HashChunkWith(piece, previous) \in Seq(Content)
<1>1. HashLimit \in Nat /\ MaxAttempts \in Nat /\ Len(piece) \in Nat
    BY UploadAssumption, LenProperties DEF Content
<1>2. ASSUME NEW i \in 1 .. HashLimit, i <= Len(piece) PROVE piece[i] \in 0 .. MaxAttempts
    BY <1>1, <1>2, ElementOfSeq DEF Content
<1>3. Buffer(piece) \in [1 .. HashLimit -> 0 .. MaxAttempts]
    BY <1>1, <1>2 DEF Buffer
<1>4. Buffer(piece) \in Content
    BY <1>1, <1>3, ContentType
<1> QED BY <1>4, AppendProperties DEF HashChunkWith

LEMMA PartialType == ASSUME TypeOK PROVE Partial \in Seq(Content)
    BY DEF Partial, TypeOK

LEMMA AcceptTypes ==
    ASSUME IInv, NEW a \in Attempts, NEW k \in Nat, <<a, k>> \in sent, NEW fresh \in BOOLEAN,
           Accept(a, k, fresh), ~fresh => info # Absent /\ info.timestamp = a
    PROVE  (disk' \in Content) /\ tasks' \subseteq Task /\ failed' \subseteq Attempts
           /\ info' \in [timestamp : 0 .. MaxAttempts, received : Nat, partial : Seq(Content)]
<1> DEFINE content == IF fresh THEN Absent ELSE disk
           received == (IF fresh THEN 0 ELSE info.received) + Cardinality(BytesOf(a, k))
<1>1. a \in 0 .. MaxAttempts /\ a > 0 /\ Size[a] \in Nat /\ Cardinality(BytesOf(a, k)) \in Nat
    BY SizeType, BytesFinite, UploadAssumption DEF Attempts
<1>2. ~fresh => disk \in [1 .. Size[a] -> {0, a}]
    BY <1>1 DEF IInv, Consistent, Receiving
<1>3. WithChunk(content, a, k) \in [1 .. Size[a] -> 0 .. MaxAttempts]
    BY <1>1, <1>2, UploadAssumption DEF WithChunk
<1>4. disk' \in Content
    BY <1>1, <1>3, ContentType DEF Accept
<1>5. ~fresh => info \in [timestamp : 0 .. MaxAttempts, received : Nat, partial : Seq(Content)]
    BY DEF IInv, TypeOK
<1>6. received \in Nat
    BY <1>1, <1>5
<1>7. info' \in [timestamp : 0 .. MaxAttempts, received : Nat, partial : Seq(Content)]
    BY <1>1, <1>5, <1>6 DEF Accept, BytesReceived
<1>8. NewTask(<<a, k>>) \in Task
    BY DEF NewTask, Task, IInv, TypeOK
<1>9. Unlinked \subseteq Task
    BY DEF Unlinked, Task, IInv, TypeOK
<1> QED BY <1>4, <1>7, <1>8, <1>9 DEF Accept, IInv, TypeOK

LEMMA TurnTypes ==
    ASSUME TypeOK, NEW task \in tasks, NEW content \in Content,
           CanTurn(task, content), Turn(task, content)
    PROVE  /\ tasks' \subseteq Task
           /\ info' \in {Absent} \union
                [timestamp : 0 .. MaxAttempts, received : Nat, partial : Seq(Content)]
<1> DEFINE piece == Piece(content, task.position)
<1>1. task \in Task /\ task.position \in Nat
    BY DEF TypeOK, Task
<1>2. piece \in Content /\ Len(piece) \in Nat
    <2>1. piece \in Content
        BY <1>1, PieceType
    <2> HIDE DEF piece
    <2> QED BY <2>1, LenProperties DEF Content
<1>3. Partial \in Seq(Content)
    BY PartialType
<1>4. CASE piece = <<>>
    <2>1. [task EXCEPT !.at = "final", !.result = Partial] \in Task
        BY <1>1, <1>3 DEF Task
    <2> QED BY <1>4, <2>1 DEF Turn, TypeOK
<1>5. CASE piece # <<>>
    <2>1. info \in [timestamp : 0 .. MaxAttempts, received : Nat, partial : Seq(Content)]
        BY <1>5 DEF CanTurn, TypeOK
    <2>2. HashChunkWith(piece, info.partial) \in Seq(Content)
        BY <1>2, <2>1, HashChunkType
    <2>3. [task EXCEPT !.at = "loop", !.position = @ + Len(piece)] \in Task
        <3> HIDE DEF piece
        <3>1. task.position + Len(piece) \in Nat
            BY <1>1, <1>2
        <3> QED BY <1>1, <3>1 DEF Task
    <2>4. info' = [info EXCEPT !.partial = HashChunkWith(piece, @)]
          /\ tasks' = (tasks \ {task})
                \union {[task EXCEPT !.at = "loop", !.position = @ + Len(piece)]}
        BY <1>5 DEF Turn
    <2> HIDE DEF piece
    <2>5. info' \in [timestamp : 0 .. MaxAttempts, received : Nat, partial : Seq(Content)]
        BY <2>1, <2>2, <2>4
    <2> QED BY <2>3, <2>4, <2>5 DEF TypeOK
<1> QED BY <1>4, <1>5

LEMMA TaskTypes ==
    ASSUME IInv, NEW task \in tasks, Hashing(task) \/ TaskDies(task)
    PROVE  TypeOK'
<1>0. TypeOK
    BY DEF IInv
<1>1. task \in Task /\ task.call[1] \in Attempts /\ task.result \in Seq(Content)
    BY <1>0 DEF TypeOK, Task, Calls
<1>2. ASSUME Dies(task) PROVE TypeOK'
    BY <1>0, <1>1, <1>2 DEF Dies, TypeOK
<1>3. CASE StartHash(task)
    <2>1. CASE disk # Absent /\ CanTurn(task, disk)
        <3>1. disk \in Content /\ Turn(task, disk) /\ hash' = Absent
              /\ UNCHANGED <<disk, sent, client, failed, unread, late>>
            BY <1>0, <1>3, <2>1 DEF StartHash, TypeOK
        <3>2. TypeOK /\ task \in tasks
            BY <1>0
        <3>3. /\ tasks' \subseteq Task
              /\ info' \in {Absent} \union
                   [timestamp : 0 .. MaxAttempts, received : Nat, partial : Seq(Content)]
            BY <2>1, <3>1, <3>2, TurnTypes
        <3> QED BY <1>0, <3>1, <3>3 DEF TypeOK
    <2> QED BY <1>2, <1>3, <2>1 DEF StartHash
<1>4. CASE GoOnHashing(task)
    <2> DEFINE content == IF task.file = Absent THEN disk ELSE task.file
    <2>1. CASE CanTurn(task, content)
        <3>1. Turn(task, content) /\ UNCHANGED <<disk, hash, sent, client, failed, unread, late>>
            BY <1>4, <2>1 DEF GoOnHashing
        <3>2. content \in Content
            BY <1>0, <1>1, <1>4 DEF GoOnHashing, IInv, OpenFilesExist, HasOpen, TypeOK, Task
        <3> HIDE DEF content
        <3>3. /\ tasks' \subseteq Task
              /\ info' \in {Absent} \union
                   [timestamp : 0 .. MaxAttempts, received : Nat, partial : Seq(Content)]
            BY <1>0, <2>1, <3>1, <3>2, TurnTypes
        <3> QED BY <1>0, <3>1, <3>3 DEF TypeOK
    <2> QED BY <1>2, <1>4, <2>1 DEF GoOnHashing
<1>5. CASE FinishHash(task)
    BY <1>0, <1>1, <1>5 DEF FinishHash, TypeOK
<1> QED BY <1>2, <1>3, <1>4, <1>5 DEF Hashing, TaskDies

LEMMA TypePreserved == IInv /\ [Next]_vars => TypeOK'
<1> SUFFICES ASSUME IInv, TypeOK, [Next]_vars PROVE TypeOK'
    BY DEF IInv
<1>1. ASSUME NEW a \in Attempts, StartUpload(a) PROVE TypeOK'
    <2>1. {a} \X Chunks(a) \subseteq Calls
        <3> SUFFICES ASSUME NEW k \in Chunks(a) PROVE <<a, k>> \in Calls
            OBVIOUS
        <3>1. k \in Nat /\ Size[a] \in Nat /\ ChunkSize \in Nat \ {0} /\ k <= Size[a] \div ChunkSize
            BY SizeType, UploadAssumption DEF Chunks
        <3>2. k * ChunkSize <= Size[a]
            BY <3>1, DivisionBound
        <3> QED BY <3>1, <3>2 DEF Calls
    <2> QED BY <1>1, <2>1 DEF StartUpload, TypeOK
<1>2. ASSUME NEW a \in Attempts, BeforeExit(a) PROVE TypeOK'
    BY <1>2 DEF BeforeExit, NothingToWaitFor, TypeOK
<1>3. ASSUME NEW a \in Attempts, ClearFile(a) PROVE TypeOK'
    <2>1. NewInfo(0) \in [timestamp : 0 .. MaxAttempts, received : Nat, partial : Seq(Content)]
        BY UploadAssumption DEF NewInfo
    <2>2. Unlinked \subseteq Task
        BY DEF Unlinked, Task, TypeOK
    <2> QED BY <1>3, <2>1, <2>2 DEF ClearFile, TypeOK
<1>4. ASSUME NEW c \in sent, LoseChunk(c) PROVE TypeOK'
    BY <1>4 DEF LoseChunk, TypeOK, Calls
<1>5. ASSUME NEW c \in sent, ReceiveChunk(c[1], c[2]) PROVE TypeOK'
    <2>1. c[1] \in Attempts /\ c[2] \in Nat /\ <<c[1], c[2]>> \in sent /\ c[1] > 0
        BY <1>5, SizeType DEF ReceiveChunk, TypeOK, Calls
    <2>2. sent' \subseteq sent /\ UNCHANGED <<hash, client, unread>> /\ late' \subseteq Attempts
        BY <1>5, <2>1 DEF ReceiveChunk, TypeOK
    <2>3. ASSUME UNCHANGED <<disk, info, tasks>>, failed' \subseteq failed \union {c[1]} PROVE TypeOK'
        BY <2>1, <2>2, <2>3 DEF TypeOK
    <2>4. ASSUME NEW fresh \in BOOLEAN, Accept(c[1], c[2], fresh), ~fresh => c[1] = Timestamp
          PROVE  TypeOK'
        <3>1. ~fresh => info # Absent /\ info.timestamp = c[1]
            BY <2>1, <2>4 DEF Timestamp
        <3>2. disk' \in Content /\ tasks' \subseteq Task /\ failed' \subseteq Attempts
              /\ info' \in [timestamp : 0 .. MaxAttempts, received : Nat, partial : Seq(Content)]
            BY <2>1, <2>4, <3>1, AcceptTypes
        <3> QED BY <2>2, <3>2 DEF TypeOK
    <2> QED BY <1>5, <2>3, <2>4 DEF ReceiveChunk
<1>6. CASE \E task \in tasks : Hashing(task) \/ TaskDies(task)
    BY <1>6, TaskTypes
<1>7. CASE Upgrade
    BY <1>7 DEF Upgrade, TypeOK
<1>8. CASE UNCHANGED vars
    BY <1>8 DEF vars, TypeOK
<1> QED BY <1>1, <1>2, <1>3, <1>4, <1>5, <1>6, <1>7, <1>8 DEF Next

\* A file is removed only after every task that has it open was given its own hold.
LEMMA OpenFilesPreserved == IInv /\ [Next]_vars => OpenFilesExist'
<1> SUFFICES ASSUME IInv, [Next]_vars, NEW task \in tasks', HasOpen(task)
             PROVE  disk' # Absent
    BY DEF OpenFilesExist, HasOpen
<1>1. tasks \subseteq Task /\ \A u \in tasks : HasOpen(u) => disk # Absent
    BY DEF IInv, TypeOK, OpenFilesExist
<1>2. ASSUME NEW u \in Unlinked PROVE ~HasOpen(u)
    <2>1. PICK old \in tasks : u = IF HasOpen(old) THEN [old EXCEPT !.file = disk] ELSE old
        BY <1>2 DEF Unlinked
    <2>2. CASE HasOpen(old)
        BY <1>1, <2>1, <2>2 DEF HasOpen, Task
    <2> QED BY <2>1, <2>2
<1>3. ASSUME NEW c \in sent, NEW fresh \in BOOLEAN, ReceiveChunk(c[1], c[2]),
             Accept(c[1], c[2], fresh), ~fresh => c[1] = Timestamp
      PROVE  disk' # Absent
    <2>1. c[1] \in Attempts /\ c[2] \in Nat /\ <<c[1], c[2]>> \in sent /\ c[1] > 0
        BY <1>3, SizeType DEF ReceiveChunk, IInv, TypeOK, Calls
    <2>2. ~fresh => info # Absent /\ info.timestamp = c[1]
        BY <1>3, <2>1 DEF Timestamp
    <2>3. sent' = sent \ {<<c[1], c[2]>>}
        BY <1>3 DEF ReceiveChunk
    <2>4. Receiving(c[1])'
        BY <1>3, <2>1, <2>2, <2>3, AcceptReceives
    <2> QED BY <2>1, <2>4, FileIsPresent DEF Receiving
<1>4. CASE \E c \in sent : ReceiveChunk(c[1], c[2])
    <2>1. PICK c \in sent : ReceiveChunk(c[1], c[2])
        BY <1>4
    <2>2. CASE UNCHANGED <<disk, tasks>>
        BY <1>1, <2>2
    <2>3. CASE \E fresh \in BOOLEAN : Accept(c[1], c[2], fresh) /\ (~fresh => c[1] = Timestamp)
        BY <1>3, <2>1, <2>3
    <2> QED BY <2>1, <2>2, <2>3 DEF ReceiveChunk
<1>5. ASSUME NEW a \in Attempts, ClearFile(a) PROVE disk' # Absent
    BY <1>1, <1>2, <1>5 DEF ClearFile
<1>6. ASSUME NEW u \in tasks, Hashing(u) \/ TaskDies(u) PROVE disk' # Absent
    <2>1. disk' = disk
        BY <1>6 DEF Hashing, StartHash, GoOnHashing, FinishHash, TaskDies, Dies
    <2>2. CASE task \in tasks
        BY <1>1, <2>1, <2>2
    <2>3. CASE task \notin tasks
        <3>1. CASE StartHash(u)
            BY <2>1, <2>3, <3>1 DEF StartHash, Dies
        <3>2. CASE GoOnHashing(u)
            <4>1. u \in Task /\ u.at = "loop"
                BY <1>1, <3>2 DEF GoOnHashing
            <4>2. task.file = u.file
                BY <2>3, <3>2, <4>1, TurnedTask DEF GoOnHashing, Dies
            <4> QED BY <1>1, <2>1, <4>1, <4>2 DEF HasOpen
        <3>3. CASE FinishHash(u) \/ TaskDies(u)
            BY <2>3, <3>3 DEF FinishHash, TaskDies, Dies
        <3> QED BY <1>6, <3>1, <3>2, <3>3 DEF Hashing
    <2> QED BY <2>2, <2>3
<1>7. CASE UNCHANGED <<disk, tasks>>
    BY <1>1, <1>7
<1> QED BY <1>4, <1>5, <1>6, <1>7
        DEF Next, StartUpload, BeforeExit, LoseChunk, Upgrade, vars

LEMMA NextIInv == IInv /\ [Next]_vars => IInv'
    BY ConsistentPreserved, TypePreserved, OpenFilesPreserved DEF IInv

\* An attempt of which a chunk came late stays one.
LEMMA LateGrows == [Next]_vars => late \subseteq late'
<1> SUFFICES ASSUME [Next]_vars PROVE late \subseteq late'
    OBVIOUS
<1>1. CASE \E c \in sent : ReceiveChunk(c[1], c[2])
    BY <1>1 DEF ReceiveChunk
<1>2. CASE ~\E c \in sent : ReceiveChunk(c[1], c[2])
    BY <1>2 DEF Next, vars, StartUpload, BeforeExit, ClearFile, LoseChunk, Upgrade,
                TaskDies, Hashing, StartHash, GoOnHashing, FinishHash, Dies
<1> QED BY <1>1, <1>2

LEMMA SpecIInv == Spec => []IInv
    BY InitIInv, NextIInv, PTL DEF Spec

-----------------------------------------------------------------------------
\* No attempt, chunk or hashing task leaves the states the code provides for.
THEOREM UploadTypeCorrect == Spec => []TypeOK
<1>1. IInv => TypeOK
    BY DEF IInv
<1> QED BY <1>1, SpecIInv, PTL

\* FILE_INFO counts the bytes of the file, whatever attempts overlap and whatever is
\* lost, removed or hashed meanwhile.
THEOREM CountIsRight == Spec => []CountMatchesFile
<1>1. IInv => CountMatchesFile
    <2> SUFFICES ASSUME IInv, info # Absent, info.timestamp > 0
                 PROVE  /\ disk # Absent
                        /\ Len(disk) = Size[info.timestamp]
                        /\ info.received
                             = Cardinality({i \in DOMAIN disk : disk[i] = info.timestamp})
                        /\ \A i \in DOMAIN disk : disk[i] \in {0, info.timestamp}
        BY DEF CountMatchesFile
    <2>1. info.timestamp \in Attempts /\ Receiving(info.timestamp)
        BY DEF IInv, Consistent, Begun
    <2> QED BY <2>1, FileIsPresent DEF Receiving, Written
<1> QED BY <1>1, SpecIInv, PTL

\* upload_file_chunk begins to hash a file only when every byte of it is there and
\* comes from the attempt that sent the chunk.
THEOREM HashingStartsComplete == Spec => HashingStartsOnCompleteFile
<1>1. IInv /\ [Next]_vars =>
          [\A task \in tasks' :
              task.at = "start" /\ task \notin tasks => disk' = Source(task.call[1])]_vars
    <2> SUFFICES ASSUME IInv, Next, NEW task \in tasks', task.at = "start", task \notin tasks
                 PROVE  disk' = Source(task.call[1])
        OBVIOUS
    <2>1. ASSUME NEW u \in Unlinked PROVE u \in tasks \/ u.at # "start"
        <3>1. PICK old \in tasks : u = IF HasOpen(old) THEN [old EXCEPT !.file = disk] ELSE old
            BY <2>1 DEF Unlinked
        <3>2. CASE ~HasOpen(old)
            BY <3>1, <3>2
        <3>3. CASE HasOpen(old)
            BY <3>1, <3>3 DEF HasOpen
        <3> QED BY <3>2, <3>3
    <2>2. ASSUME NEW t \in tasks, Hashing(t) \/ TaskDies(t) PROVE FALSE
        <3>1. t \in Task
            BY DEF IInv, TypeOK
        <3>2. \A content : ~Turn(t, content)
            BY <3>1, TurnedTask
        <3> QED BY <2>2, <3>2
                DEF Hashing, StartHash, GoOnHashing, FinishHash, TaskDies, Dies
    <2>3. PICK c \in sent, fresh \in BOOLEAN :
              /\ ReceiveChunk(c[1], c[2])
              /\ Accept(c[1], c[2], fresh)
              /\ ~fresh => c[1] = Timestamp
              /\ task = NewTask(<<c[1], c[2]>>)
        BY <2>1, <2>2
        DEF Next, StartUpload, BeforeExit, ClearFile, LoseChunk, ReceiveChunk, Upgrade, Accept
    <2>4. c[1] \in Attempts /\ c[2] \in Nat /\ <<c[1], c[2]>> \in sent /\ c[1] > 0
          /\ sent' = sent \ {<<c[1], c[2]>>}
        BY <2>3, SizeType DEF ReceiveChunk, IInv, Consistent
    <2>5. ~fresh => info # Absent /\ info.timestamp = c[1]
        BY <2>3, <2>4 DEF Timestamp
    <2>6. Receiving(c[1])' /\ info'.received = Cardinality(Written(disk', c[1]))
        BY <2>3, <2>4, <2>5, AcceptReceives
    <2>7. info'.received = Size[c[1]]
        BY <2>1, <2>3 DEF Accept
    <2>8. disk' = Source(c[1])
        BY <2>4, <2>6, <2>7, CountedIsComplete DEF Receiving
    <2> QED BY <2>3, <2>8 DEF NewTask
<1> QED BY <1>1, SpecIInv, PTL DEF Spec, HashingStartsOnCompleteFile

-----------------------------------------------------------------------------
(* The hashes: attempts of any number and size that follow one another            *)

\* Every attempt has a version of the source of its own.
OwnVersions == \A a, b \in Attempts : Source(a) = Source(b) => a = b

-----------------------------------------------------------------------------
(* Hashing a source piece by piece *)

\* The number of messages that hash the source of attempt a.
Blocks(a) == (Size[a] + HashLimit - 1) \div HashLimit

\* The partial hash after j of them, and where the next begins.
Prefix(a, j) == [i \in 1 .. j |-> LocalHash(a)[i]]
Position(a, j) == IF j * HashLimit < Size[a] THEN j * HashLimit ELSE Size[a]

\* d * n grows with n.
LEMMA Multiples ==
    ASSUME NEW d \in Nat \ {0}, NEW m \in Nat, NEW n \in Nat, m <= n
    PROVE  m * d <= n * d /\ m * d \in Nat /\ n * d \in Nat
<1>1. PICK e \in Nat : n = m + e
    <2>1. n - m \in Nat /\ n = m + (n - m)
        OBVIOUS
    <2> QED BY <2>1
<1>2. n * d = m * d + e * d /\ e * d \in Nat /\ m * d \in Nat
    BY <1>1, Z3
<1> QED BY <1>2

\* Block j begins within the source exactly if it is not past the last one.
LEMMA BlockCount ==
    ASSUME NEW a \in Attempts
    PROVE  /\ Blocks(a) \in Nat
           /\ \A j \in Nat : j * HashLimit \in Nat /\ (j * HashLimit < Size[a] <=> j < Blocks(a))
<1> DEFINE H == HashLimit
           n == Size[a]
           N == Blocks(a)
<1>1. H \in Nat \ {0} /\ n \in Nat
    BY UploadAssumption
<1>2. N \in Nat /\ N * H <= n + H - 1 /\ n + H - 1 < N * H + H
    <2>1. ASSUME NEW x \in Nat, NEW d \in Nat \ {0}
          PROVE  (x \div d) \in Nat /\ (x \div d) * d <= x /\ x < (x \div d) * d + d
        BY Z3
    <2>2. n + H - 1 \in Nat
        BY <1>1
    <2> QED BY <1>1, <2>1, <2>2 DEF Blocks
<1> HIDE DEF H, n, N
<1>3. N * H \in Nat /\ n <= N * H
    <2>1. N * H \in Nat
        BY <1>1, <1>2, Multiples
    <2> QED BY <1>1, <1>2, <2>1
<1>4. ASSUME NEW j \in Nat
      PROVE  j * H \in Nat /\ (j * H < n <=> j < N)
    <2>1. j * H \in Nat
        BY <1>1, Multiples
    <2>2. CASE j < N
        <3>1. j + 1 <= N /\ j + 1 \in Nat
            BY <1>2, <2>2
        <3>2. (j + 1) * H <= N * H /\ (j + 1) * H = j * H + H
            <4>1. (j + 1) * H <= N * H
                BY <1>1, <1>2, <3>1, Multiples
            <4>2. (j + 1) * H = j * H + H
                BY <1>1, Z3
            <4> QED BY <4>1, <4>2
        <3> QED BY <1>1, <1>2, <1>3, <2>1, <2>2, <3>2
    <2>3. CASE j >= N
        <3>1. N * H <= j * H
            BY <1>1, <1>2, <2>3, Multiples
        <3> QED BY <1>1, <1>2, <1>3, <2>1, <2>3, <3>1
    <2> QED BY <1>2, <2>2, <2>3
<1> QED BY <1>2, <1>4 DEF H, n, N

LEMMA SourceType ==
    ASSUME NEW a \in Attempts
    PROVE  Source(a) \in [1 .. Size[a] -> {0, a}] /\ Source(a) \in Content /\ Source(a) # Absent
           /\ Len(Source(a)) = Size[a]
<1>1. Source(a) \in [1 .. Size[a] -> {0, a}]
    BY DEF Source
<1>2. Size[a] \in Nat /\ {0, a} \subseteq 0 .. MaxAttempts
    BY SizeType, UploadAssumption DEF Attempts
<1>3. Source(a) \in [1 .. Size[a] -> 0 .. MaxAttempts]
    BY <1>1, <1>2
<1> QED BY <1>1, <1>2, <1>3, ContentType, FileIsPresent

\* What a message reads of the source, and where it leaves off.
LEMMA PieceOfSource ==
    ASSUME NEW a \in Attempts, NEW j \in Nat, j <= Blocks(a)
    PROVE  LET piece == Piece(Source(a), Position(a, j)) IN
           /\ piece = <<>> => j = Blocks(a)
           /\ piece # <<>> =>
                /\ j < Blocks(a)
                /\ Position(a, j) + Len(piece) = Position(a, j + 1)
                /\ Buffer(piece) = LocalHash(a)[j + 1]
<1> DEFINE H == HashLimit
           n == Size[a]
           p == Position(a, j)
           last == IF p + H < n THEN p + H ELSE n
           piece == Piece(Source(a), p)
<1>1. H \in Nat \ {0} /\ n \in Nat /\ Len(Source(a)) = n /\ Source(a) \in Content
    BY UploadAssumption, SourceType
<1>2. /\ j * H \in Nat /\ (j * H < n <=> j < Blocks(a))
      /\ (j + 1) * H = j * H + H
    <2>1. (j + 1) * H = j * H + H
        BY <1>1, Z3
    <2> QED BY <2>1, BlockCount
<1>3. piece = SubSeq(Source(a), p + 1, last)
    BY <1>1 DEF Piece
<1>4. p \in Nat /\ p <= n /\ p = IF j * H < n THEN j * H ELSE n
    BY <1>1, <1>2 DEF Position
<1> HIDE DEF H, n, p, last, piece
<1>5. last \in Nat /\ p <= last /\ last <= n /\ (p = last <=> p = n)
    BY <1>1, <1>4 DEF last
<1>6. Len(piece) = last - p
    <2>1. p + 1 \in Int /\ last \in Int /\ \A i \in p + 1 .. last : i \in 1 .. n
        BY <1>1, <1>4, <1>5
    <2>2. \A i \in p + 1 .. last : Source(a)[i] \in {a}
        BY <2>1 DEF Source, n
    <2> DEFINE cut == SubSeq(Source(a), p + 1, last)
    <2>3. Len(cut) = IF p + 1 <= last THEN last - (p + 1) + 1 ELSE 0
        BY <2>1, <2>2, SubSeqProperties
    <2> HIDE DEF cut
    <2>4. Len(cut) = last - p
        BY <1>4, <1>5, <2>3
    <2> QED BY <1>3, <2>4 DEF cut
<1>7. CASE j < Blocks(a)
    <2>1. p = j * H /\ p < n
        BY <1>2, <1>4, <1>7
    <2>2. piece # <<>>
        BY <1>1, <1>5, <1>6, <2>1
    <2>3. p + Len(piece) = Position(a, j + 1)
        BY <1>1, <1>2, <1>4, <1>5, <1>6, <2>1 DEF Position, last, H, n
    <2>4. Buffer(piece) = LocalHash(a)[j + 1]
        <3>1. j + 1 \in 1 .. Blocks(a) /\ (j + 1) - 1 = j
            BY <1>7, BlockCount
        <3>2. LocalHash(a)[j + 1] = Buffer(Piece(Source(a), j * H))
            BY <3>1 DEF LocalHash, Blocks, H
        <3> QED BY <2>1, <3>2 DEF piece
    <2> QED BY <1>7, <2>2, <2>3, <2>4 DEF piece, p
<1>8. CASE j = Blocks(a)
    <2>1. p = n /\ last = p
        BY <1>1, <1>2, <1>4, <1>5, <1>8, BlockCount
    <2>2. piece = <<>>
        <3>1. Len(piece) = 0
            BY <1>4, <1>6, <2>1
        <3>2. piece \in Content
            BY <1>1, <1>4, PieceType DEF piece
        <3> QED BY <3>1, <3>2, EmptySeq DEF Content
    <2> QED BY <1>8, <2>2 DEF piece, p
<1> QED BY <1>7, <1>8, BlockCount

\* A hash is a sequence of contents, which is neither absent nor a file.
LEMMA LocalHashType ==
    ASSUME NEW a \in Attempts
    PROVE  /\ LocalHash(a) \in [1 .. Blocks(a) -> Content]
           /\ LocalHash(a) \in Seq(Content)
           /\ Len(LocalHash(a)) = Blocks(a)
<1>1. Blocks(a) \in Nat
    BY BlockCount
<1>2. ASSUME NEW j \in 1 .. Blocks(a) PROVE LocalHash(a)[j] \in Content
    <2>1. j - 1 \in Nat /\ (j - 1) + 1 = j /\ j - 1 < Blocks(a)
        BY <1>1, <1>2
    <2>2. (j - 1) * HashLimit \in Nat
        BY <2>1, BlockCount
    <2> DEFINE piece == Piece(Source(a), (j - 1) * HashLimit)
    <2>3. piece \in Content
        BY <2>2, SourceType, PieceType
    <2>4. LocalHash(a)[j] = Buffer(piece)
        BY <1>2 DEF LocalHash, Blocks
    <2> HIDE DEF piece
    <2>5. <<>> \in Seq(Content)
        BY EmptySeq
    <2>6. Append(<<>>, Buffer(piece)) \in Seq(Content)
        BY <2>3, <2>5, HashChunkType DEF HashChunkWith
    <2>7. Append(<<>>, Buffer(piece)) = <<Buffer(piece)>>
        OBVIOUS
    <2>8. <<Buffer(piece)>> \in Seq(Content) /\ Len(<<Buffer(piece)>>) = 1
        BY <2>6, <2>7
    <2>9. <<Buffer(piece)>>[1] \in Content
        BY <2>8, ElementOfSeq
    <2> QED BY <2>4, <2>9
<1>3. LocalHash(a) \in [1 .. Blocks(a) -> Content]
    BY <1>2 DEF LocalHash, Blocks
<1>4. LocalHash(a) \in Seq(Content)
    BY <1>1, <1>3, SeqDef
<1> QED BY <1>1, <1>3, <1>4, LenProperties

\* The hash of a source is reached block by block.
LEMMA Prefixes ==
    ASSUME NEW a \in Attempts
    PROVE  /\ Prefix(a, 0) = <<>>
           /\ Prefix(a, Blocks(a)) = LocalHash(a)
           /\ \A j \in Nat : j < Blocks(a) =>
                 Append(Prefix(a, j), LocalHash(a)[j + 1]) = Prefix(a, j + 1)
<1>1. Blocks(a) \in Nat /\ LocalHash(a) \in [1 .. Blocks(a) -> Content]
    BY BlockCount, LocalHashType
<1>2. ASSUME NEW j \in Nat, j <= Blocks(a)
      PROVE  /\ Prefix(a, j) \in Seq(Content)
             /\ Len(Prefix(a, j)) = j
             /\ \A i \in 1 .. j : Prefix(a, j)[i] = LocalHash(a)[i]
    <2>1. Prefix(a, j) \in [1 .. j -> Content]
        BY <1>1, <1>2 DEF Prefix
    <2>2. Prefix(a, j) \in Seq(Content)
        BY <2>1, SeqDef
    <2> QED BY <2>1, <2>2, LenProperties DEF Prefix
<1>3. Prefix(a, 0) = <<>>
    BY <1>1, <1>2, EmptySeq
<1>4. Prefix(a, Blocks(a)) = LocalHash(a)
    BY <1>1 DEF Prefix
<1>5. ASSUME NEW j \in Nat, j < Blocks(a)
      PROVE  Append(Prefix(a, j), LocalHash(a)[j + 1]) = Prefix(a, j + 1)
    <2> DEFINE q == Prefix(a, j)
               e == LocalHash(a)[j + 1]
               r == Prefix(a, j + 1)
    <2>1. j + 1 \in Nat /\ j + 1 <= Blocks(a) /\ e \in Content
        BY <1>1, <1>5
    <2>2. q \in Seq(Content) /\ Len(q) = j /\ \A i \in 1 .. j : q[i] = LocalHash(a)[i]
        <3>1. j <= Blocks(a)
            BY <1>1, <1>5
        <3> QED BY <1>2, <3>1
    <2>3. r \in Seq(Content) /\ Len(r) = j + 1 /\ \A i \in 1 .. j + 1 : r[i] = LocalHash(a)[i]
        BY <1>2, <2>1
    <2>4. /\ Append(q, e) \in Seq(Content)
          /\ Len(Append(q, e)) = j + 1
          /\ \A i \in 1 .. j : Append(q, e)[i] = q[i]
          /\ Append(q, e)[j + 1] = e
        <3> HIDE DEF q, e
        <3> QED BY <2>1, <2>2, AppendProperties
    <2>5. \A i \in 1 .. j + 1 : i \in 1 .. j \/ i = j + 1
        OBVIOUS
    <2> HIDE DEF q, r
    <2>6. \A i \in 1 .. j + 1 : Append(q, e)[i] = r[i]
        BY <2>2, <2>3, <2>4, <2>5
    <2> HIDE DEF e
    <2> QED BY <2>1, <2>3, <2>4, <2>6, SeqEqual DEF q, r, e
<1> QED BY <1>3, <1>4, <1>5

\* The first byte hashed is the source's.
LEMMA FirstByte ==
    ASSUME NEW a \in Attempts, Size[a] > 0
    PROVE  1 \in 1 .. Blocks(a) /\ LocalHash(a)[1][1] = a
<1> DEFINE H == HashLimit
           n == Size[a]
           last == IF 0 + H < n THEN 0 + H ELSE n
           piece == SubSeq(Source(a), 0 + 1, last)
<1>1. H \in Nat \ {0} /\ n \in Nat /\ n > 0 /\ Len(Source(a)) = n /\ 0 * H = 0
    BY UploadAssumption, SourceType
<1>2. 0 < Blocks(a) /\ Blocks(a) \in Nat
    BY <1>1, BlockCount
<1>3. Piece(Source(a), 0) = piece
    BY <1>1 DEF Piece
<1>4. LocalHash(a)[1] = Buffer(Piece(Source(a), (1 - 1) * H))
    BY <1>2 DEF LocalHash, Blocks
<1>5. (1 - 1) * H = 0
    BY <1>1
<1>6. last \in Nat /\ 1 <= last /\ last <= n /\ 0 + 1 = 1 /\ last - 1 + 1 = last /\ 1 + 1 - 1 = 1
    BY <1>1
<1> HIDE DEF H, n, last
<1>7. \A i \in 1 .. last : Source(a)[i] \in {a}
    BY <1>1, <1>6 DEF Source, n
<1>8. Len(SubSeq(Source(a), 1, last)) = last
      /\ SubSeq(Source(a), 1, last)[1] = Source(a)[1]
    <2>1. 1 \in Int /\ last \in Int
        BY <1>6
    <2>2. Len(SubSeq(Source(a), 1, last)) = IF 1 <= last THEN last - 1 + 1 ELSE 0
        BY <1>7, <2>1, SubSeqProperties
    <2>3. \A i \in 1 .. last - 1 + 1 :
             SubSeq(Source(a), 1, last)[i] = Source(a)[1 + i - 1]
        BY <1>7, <2>1, SubSeqProperties
    <2>4. 1 \in 1 .. last - 1 + 1
        BY <1>6
    <2>5. SubSeq(Source(a), 1, last)[1] = Source(a)[1 + 1 - 1]
        BY <2>3, <2>4
    <2> QED BY <1>6, <2>2, <2>5
<1>9. Buffer(piece)[1] = a
    <2>1. 1 \in 1 .. HashLimit /\ 1 <= Len(piece)
        BY <1>1, <1>6, <1>8 DEF H
    <2>2. piece[1] = a
        BY <1>6, <1>7, <1>8
    <2> HIDE DEF piece
    <2> QED BY <2>1, <2>2 DEF Buffer
<1>10. Piece(Source(a), (1 - 1) * H) = piece
    <2>1. piece = SubSeq(Source(a), 0 + 1, last)
        OBVIOUS
    <2> QED BY <1>3, <1>5, <2>1
<1> HIDE DEF piece
<1>11. LocalHash(a)[1][1] = a
    BY <1>4, <1>9, <1>10
<1>12. 1 \in 1 .. Blocks(a)
    BY <1>2
<1> QED BY <1>11, <1>12

\* Equal hashes are hashes of equal sources.
LEMMA HashesDiffer ==
    ASSUME NEW a \in Attempts, NEW b \in Attempts, LocalHash(a) = LocalHash(b)
    PROVE  Source(a) = Source(b)
<1>1. Size[a] \in Nat /\ Size[b] \in Nat /\ Blocks(a) = Blocks(b)
    BY SizeType, LocalHashType
<1>2. CASE Size[a] > 0 /\ Size[b] > 0
    BY <1>2, FirstByte
<1>3. ASSUME NEW x \in Attempts PROVE Size[x] > 0 <=> Blocks(x) > 0
    <2>1. 0 * HashLimit = 0
        BY UploadAssumption
    <2>2. 0 * HashLimit < Size[x] <=> 0 < Blocks(x)
        BY BlockCount
    <2> QED BY <2>1, <2>2, BlockCount, SizeType
<1>4. CASE Size[a] = 0 /\ Size[b] = 0
    BY <1>4 DEF Source
<1> QED BY <1>1, <1>2, <1>3, <1>4, BlockCount

-----------------------------------------------------------------------------
(* The invariant *)

\* A later attempt begins when the earlier ones are done.
InOrder == \A a, b \in Attempts : b < a /\ client[a] # "idle" => client[b] = "done"

CallsOfUploading ==
    /\ \A c \in sent : client[c[1]] = "uploading"
    /\ \A task \in tasks : client[task.call[1]] = "uploading"

\* How far a task has come with the hash of attempt a's source.
Progress(task, a) ==
    \/ task.at = "start" /\ info.partial = <<>> /\ task.position = 0
    \/ /\ task.at = "loop"
       /\ \E j \in 0 .. Blocks(a) :
             info.partial = Prefix(a, j) /\ task.position = Position(a, j)
    \/ task.at = "final" /\ task.result = LocalHash(a)

\* The file is complete, and not empty.
Whole(a) == Size[a] > 0 /\ disk = Source(a)

\* Only one task hashes, and the file it hashes is complete.  Chunks that are still on
\* their way would be late.
HashedAlone ==
    \A task \in tasks :
        /\ tasks = {task}
        /\ \A c \in sent : Size[c[1]] > 0
        /\ disk = Source(task.call[1]) /\ task.file = Absent
        /\ info # Absent /\ info.timestamp = task.call[1]
        /\ Progress(task, task.call[1])

\* Before a file is complete nothing of it is hashed.
NothingHashed ==
    \A c \in sent :
        info # Absent /\ info.timestamp = c[1] /\ ~Whole(c[1]) => info.partial = <<>>

IsLast(a) == \A b \in Attempts : b > a => client[b] = "idle"

\* The hash of an attempt is that of the file until another attempt begins, or until the
\* command, which could not read it, clears the file.
HashOK ==
    /\ \A a \in Attempts : client[a] = "clearing" => hash = Absent \/ a \in unread
    /\ hash # Absent =>
          \E a \in Begun :
              /\ hash = LocalHash(a)
              /\ IsLast(a) =>
                    /\ disk = Source(a) \/ (disk = Absent /\ a \in unread)
                    /\ \A c \in sent : Whole(c[1])

\* What holds while no chunk has come late.
HInv == IInv /\ InOrder /\ CallsOfUploading /\ HashedAlone /\ NothingHashed /\ HashOK

LEMMA InitHInv == Init => HInv
<1> SUFFICES ASSUME Init PROVE HInv
    OBVIOUS
<1>1. IInv
    BY InitIInv
<1>2. InOrder
    BY DEF Init, InOrder
<1>3. CallsOfUploading /\ HashedAlone /\ NothingHashed
    BY DEF Init, CallsOfUploading, HashedAlone, NothingHashed
<1>4. HashOK
    BY DEF Init, HashOK
<1> QED BY <1>1, <1>2, <1>3, <1>4 DEF HInv

-----------------------------------------------------------------------------
(* What the invariant says of the attempt being uploaded *)

\* Only the last attempt that has begun can be uploading or clearing.
LEMMA OnlyOneBusy ==
    ASSUME HInv, NEW a \in Attempts, client[a] \in {"uploading", "clearing"},
           NEW b \in Attempts, client[b] # "idle", a # b
    PROVE  b < a /\ client[b] = "done"
<1>1. a \in Nat /\ b \in Nat
    BY SizeType
<1>2. ~(a < b)
    BY DEF HInv, InOrder
<1>3. b < a
    BY <1>1, <1>2
<1> QED BY <1>3 DEF HInv, InOrder

\* What a call is, and what its attempt does.
LEMMA CallOfUploading ==
    ASSUME HInv, NEW c \in sent
    PROVE  /\ c[1] \in Attempts /\ c[2] \in Chunks(c[1]) /\ c[2] \in Nat /\ c = <<c[1], c[2]>>
           /\ client[c[1]] = "uploading" /\ c[1] > 0
<1>1. c \in Attempts \X Nat /\ c[2] \in Chunks(c[1])
    BY DEF HInv, IInv, Consistent
<1> QED BY <1>1, SizeType DEF HInv, CallsOfUploading

LEMMA TaskOfUploading ==
    ASSUME HInv, NEW task \in tasks
    PROVE  /\ task \in Task /\ task.call[1] \in Attempts
           /\ client[task.call[1]] = "uploading"
           /\ tasks = {task}
           /\ disk = Source(task.call[1]) /\ task.file = Absent
           /\ info # Absent /\ info.timestamp = task.call[1]
           /\ Progress(task, task.call[1])
           /\ \A c \in sent : c[1] = task.call[1] /\ Whole(c[1])
<1>1. task \in Task
    BY DEF HInv, IInv, TypeOK
<1>2. task.call[1] \in Attempts
    BY <1>1 DEF Task, Calls
<1>3. client[task.call[1]] = "uploading" /\ disk = Source(task.call[1])
    BY DEF HInv, CallsOfUploading, HashedAlone
<1>4. ASSUME NEW c \in sent PROVE c[1] = task.call[1] /\ Whole(c[1])
    <2>1. c[1] \in Attempts /\ client[c[1]] = "uploading" /\ Size[c[1]] > 0
        BY CallOfUploading DEF HInv, HashedAlone
    <2>2. c[1] = task.call[1]
        BY <1>2, <1>3, <2>1, OnlyOneBusy
    <2> QED BY <1>3, <2>1, <2>2 DEF Whole
<1> QED BY <1>1, <1>2, <1>4 DEF HInv, CallsOfUploading, HashedAlone

\* An entry of FILE_INFO is not the absence of one.
LEMMA EntryIsPresent ==
    ASSUME NEW entry \in [timestamp : 0 .. MaxAttempts, received : Nat, partial : Seq(Content)]
    PROVE  entry # Absent
<1>1. 0 .. MaxAttempts \subseteq Nat
    BY UploadAssumption
<1>2. Content \subseteq Seq(Nat)
    BY <1>1, SeqMonotonic DEF Content
<1>3. Seq(Content) \subseteq Seq(Seq(Nat))
    BY <1>2, SeqMonotonic
<1>4. entry \in [timestamp : Nat, received : Nat, partial : Seq(Seq(Nat))]
    BY <1>1, <1>3
<1> QED BY <1>4, UploadAssumption

LEMMA HashIsPresent ==
    ASSUME NEW a \in Attempts
    PROVE  LocalHash(a) # Absent
<1>1. 0 .. MaxAttempts \subseteq Nat
    BY UploadAssumption
<1>2. Content \subseteq Seq(Nat)
    BY <1>1, SeqMonotonic DEF Content
<1>3. LocalHash(a) \in Seq(Seq(Nat))
    BY <1>2, LocalHashType, SeqMonotonic
<1> QED BY <1>3, UploadAssumption

-----------------------------------------------------------------------------
(* Steps of the command *)

LEMMA StartUploadHInv ==
    ASSUME ~Concurrent, HInv, IInv', NEW a \in Attempts, StartUpload(a)
    PROVE  HInv'
<1>1. /\ client[a] = "idle" /\ client' = [client EXCEPT ![a] = "uploading"]
      /\ \A b \in 1 .. a - 1 : client[b] = "done"
      /\ sent' = sent \union ({a} \X Chunks(a))
      /\ UNCHANGED <<disk, info, hash, tasks, failed, unread>>
    BY DEF StartUpload
<1>2. client \in [Attempts -> {"idle", "uploading", "clearing", "done"}]
    BY DEF HInv, IInv, TypeOK
<1>3. ASSUME NEW b \in Attempts, b # a, client[b] # "idle"
      PROVE  b < a /\ client[b] = "done"
    <2>1. a \in Nat /\ b \in Nat /\ b > 0
        BY SizeType
    <2>2. ~(a < b)
        BY <1>1, <1>3 DEF HInv, InOrder
    <2>3. b < a /\ b \in 1 .. a - 1
        BY <1>3, <2>1, <2>2
    <2> QED BY <1>1, <2>3
<1>4. sent = {} /\ tasks = {}
    <2>1. ASSUME NEW c \in sent PROVE FALSE
        <3>1. c[1] \in Attempts /\ client[c[1]] = "uploading"
            BY CallOfUploading
        <3> QED BY <1>1, <1>3, <3>1
    <2>2. ASSUME NEW task \in tasks PROVE FALSE
        <3>1. task.call[1] \in Attempts /\ client[task.call[1]] = "uploading"
            BY TaskOfUploading
        <3> QED BY <1>1, <1>3, <3>1
    <2> QED BY <2>1, <2>2
<1>5. InOrder'
    <2> SUFFICES ASSUME NEW x \in Attempts, NEW y \in Attempts, y < x, client'[x] # "idle"
                 PROVE  client'[y] = "done"
        BY DEF InOrder
    <2>1. x \in Nat /\ y \in Nat /\ y > 0 /\ a \in Nat
        BY SizeType
    <2>2. CASE x = a
        <3>1. y \in 1 .. a - 1 /\ y # a
            BY <2>1, <2>2
        <3> QED BY <1>1, <1>2, <3>1
    <2>3. CASE x # a
        <3>1. client[x] # "idle"
            BY <1>1, <1>2, <2>3
        <3>2. client[y] = "done"
            BY <3>1 DEF HInv, InOrder
        <3> QED BY <1>1, <1>2, <3>2
    <2> QED BY <2>2, <2>3
<1>6. CallsOfUploading' /\ HashedAlone'
    <2>1. \A c \in sent' : c[1] = a
        BY <1>1, <1>4
    <2>2. tasks' = {} /\ client'[a] = "uploading"
        BY <1>1, <1>2, <1>4
    <2> QED BY <2>1, <2>2 DEF CallsOfUploading, HashedAlone
<1>7. NothingHashed'
    <2>1. a \notin Begun /\ a # 0
        BY <1>1, SizeType DEF Begun
    <2>2. info # Absent => info.timestamp # a
        BY <2>1 DEF HInv, IInv, Consistent
    <2>3. \A c \in sent' : c[1] = a
        BY <1>1, <1>4
    <2> QED BY <1>1, <2>2, <2>3 DEF NothingHashed
<1>8. HashOK'
    <2>1. \A x \in Attempts : client'[x] = "clearing" => client[x] = "clearing"
        BY <1>1, <1>2
    <2>2. ASSUME NEW b \in Begun PROVE b \in Begun' /\ ~IsLast(b)'
        <3>1. b \in Attempts /\ client[b] # "idle" /\ b # a
            BY <1>1 DEF Begun
        <3>2. b < a /\ client'[b] = client[b] /\ client'[a] = "uploading"
            BY <1>1, <1>2, <1>3, <3>1
        <3>3. a > b
            BY <3>1, <3>2, SizeType
        <3>4. ~IsLast(b)'
            BY <3>2, <3>3 DEF IsLast
        <3> QED BY <3>1, <3>2, <3>4 DEF Begun
    <2>3. hash' # Absent => \E b \in Begun' : hash' = LocalHash(b) /\ ~IsLast(b)'
        BY <1>1, <2>2 DEF HInv, HashOK
    <2>4. \A x \in Attempts : client'[x] = "clearing" => hash' = Absent \/ x \in unread'
        BY <1>1, <2>1 DEF HInv, HashOK
    <2> QED BY <2>3, <2>4 DEF HashOK
<1> QED BY <1>5, <1>6, <1>7, <1>8 DEF HInv

\* An attempt whose command moves on after its calls.
LEMMA CommandMoves ==
    ASSUME HInv, NEW a \in Attempts, client[a] \in {"uploading", "clearing"},
           NEW x \in {"clearing", "done"}, client' = [client EXCEPT ![a] = x]
    PROVE  /\ InOrder' /\ Begun' = Begun
           /\ \A b \in Attempts : IsLast(b)' <=> IsLast(b)
           /\ \A b \in Attempts : b # a => client'[b] = client[b]
<1>1. client \in [Attempts -> {"idle", "uploading", "clearing", "done"}]
    BY DEF HInv, IInv, TypeOK
<1>2. \A b \in Attempts : (client'[b] = "idle" <=> client[b] = "idle")
                          /\ (b # a => client'[b] = client[b])
    BY <1>1
<1>3. \A b \in Attempts : client[b] = "done" => client'[b] = "done"
    BY <1>1
<1>4. InOrder'
    BY <1>2, <1>3 DEF HInv, InOrder
<1> QED BY <1>2, <1>4 DEF Begun, IsLast

LEMMA BeforeExitHInv ==
    ASSUME HInv, IInv', NEW a \in Attempts, BeforeExit(a)
    PROVE  HInv'
<1>1. /\ client[a] = "uploading"
      /\ \A c \in sent : c[1] # a
      /\ \A task \in tasks : task.call[1] # a
      /\ UNCHANGED <<disk, info, hash, sent, tasks, failed>>
    BY DEF BeforeExit, NothingToWaitFor
<1>2. PICK x \in {"clearing", "done"} :
          /\ client' = [client EXCEPT ![a] = x]
          /\ unread \subseteq unread'
          /\ x = "clearing" => hash = Absent \/ a \in unread'
    BY DEF BeforeExit, HasValidHash
<1>3. /\ InOrder' /\ Begun' = Begun
      /\ \A b \in Attempts : IsLast(b)' <=> IsLast(b)
      /\ \A b \in Attempts : b # a => client'[b] = client[b]
    BY <1>1, <1>2, CommandMoves
<1>4. CallsOfUploading'
    <2>1. \A c \in sent : client'[c[1]] = "uploading"
        BY <1>1, <1>3, CallOfUploading
    <2>2. \A task \in tasks : client'[task.call[1]] = "uploading"
        BY <1>1, <1>3, TaskOfUploading
    <2> QED BY <1>1, <2>1, <2>2 DEF CallsOfUploading
<1>5. HashedAlone' /\ NothingHashed'
    BY <1>1 DEF HInv, HashedAlone, NothingHashed, Progress, Whole
<1>6. HashOK'
    <2>1. \A b \in Attempts : client'[b] = "clearing" => hash' = Absent \/ b \in unread'
        <3>1. client'[a] = x
            BY <1>2 DEF HInv, IInv, TypeOK
        <3> QED BY <1>1, <1>2, <1>3, <3>1 DEF HInv, HashOK
    <2>2. \A b \in Begun : b \in Attempts
        BY DEF Begun
    <2> QED BY <1>1, <1>2, <1>3, <2>1, <2>2 DEF HInv, HashOK, Whole
<1> QED BY <1>3, <1>4, <1>5, <1>6 DEF HInv

LEMMA ClearFileHInv ==
    ASSUME HInv, IInv', NEW a \in Attempts, ClearFile(a)
    PROVE  HInv'
<1>1. /\ client[a] = "clearing" /\ client' = [client EXCEPT ![a] = "done"]
      /\ UNCHANGED <<hash, sent, unread>>
    BY DEF ClearFile
<1>2. disk' = Absent \/ UNCHANGED disk
    BY DEF ClearFile
<1>3. sent = {} /\ tasks = {}
    <2>1. ASSUME NEW c \in sent PROVE FALSE
        <3>1. c[1] \in Attempts /\ client[c[1]] = "uploading"
            BY CallOfUploading
        <3> QED BY <1>1, <3>1, OnlyOneBusy
    <2>2. ASSUME NEW task \in tasks PROVE FALSE
        <3>1. task.call[1] \in Attempts /\ client[task.call[1]] = "uploading"
            BY TaskOfUploading
        <3> QED BY <1>1, <3>1, OnlyOneBusy
    <2> QED BY <2>1, <2>2
<1>4. sent' = {} /\ tasks' = {}
    BY <1>1, <1>3 DEF ClearFile, Unlinked
<1>5. /\ InOrder' /\ Begun' = Begun
      /\ \A b \in Attempts : IsLast(b)' <=> IsLast(b)
      /\ \A b \in Attempts : b # a => client'[b] = client[b]
    BY <1>1, CommandMoves
<1>6. HashOK'
    <2>1. \A b \in Attempts : client'[b] = "clearing" => hash' = Absent \/ b \in unread'
        <3>1. client'[a] = "done"
            BY <1>1 DEF HInv, IInv, TypeOK
        <3> QED BY <1>1, <1>5, <3>1 DEF HInv, HashOK
    <2>2. ASSUME hash # Absent, NEW b \in Begun, IsLast(b)
          PROVE  b \in unread
        <3>1. b \in Attempts /\ client[b] # "idle" /\ a \in Nat /\ b \in Nat
            BY <2>2, SizeType DEF Begun
        <3>2. a = b
            <4> SUFFICES ASSUME a # b PROVE FALSE
                OBVIOUS
            <4>1. b < a
                BY <1>1, <3>1, OnlyOneBusy
            <4> QED BY <1>1, <2>2, <3>1, <4>1 DEF IsLast
        <3> QED BY <1>1, <2>2, <3>2 DEF HInv, HashOK
    <2>3. \A b \in Begun : b \in Attempts
        BY DEF Begun
    <2>4. hash' # Absent =>
              \E b \in Begun' : hash' = LocalHash(b) /\ (IsLast(b)' =>
                  disk' = Source(b) \/ (disk' = Absent /\ b \in unread'))
        BY <1>1, <1>2, <1>5, <2>2, <2>3 DEF HInv, HashOK
    <2> QED BY <1>4, <2>1, <2>4 DEF HashOK
<1> QED BY <1>4, <1>5, <1>6 DEF HInv, CallsOfUploading, HashedAlone, NothingHashed

-----------------------------------------------------------------------------
(* Steps of the canister *)

\* Where a chunk is on its way that is not late, the hash there is is not that of the
\* last attempt, and nothing is being hashed.
LEMMA NotLate ==
    ASSUME HInv, NEW c \in sent, ~Whole(c[1])
    PROVE  /\ tasks = {}
           /\ UNCHANGED <<hash, client, unread>> => HashOK'
<1>1. tasks = {}
    BY TaskOfUploading
<1>2. ASSUME UNCHANGED <<hash, client, unread>> PROVE HashOK'
    <2>1. \A b \in Attempts : IsLast(b)' <=> IsLast(b)
        BY <1>2 DEF IsLast
    <2>2. Begun' = Begun /\ \A b \in Begun : b \in Attempts
        BY <1>2 DEF Begun
    <2>3. hash # Absent => \E b \in Begun : hash = LocalHash(b) /\ ~IsLast(b)
        BY DEF HInv, HashOK
    <2>4. \A b \in Attempts : client'[b] = "clearing" => hash' = Absent \/ b \in unread'
        BY <1>2 DEF HInv, HashOK
    <2> QED BY <1>2, <2>1, <2>2, <2>3, <2>4 DEF HashOK
<1> QED BY <1>1, <1>2

LEMMA LoseChunkHInv ==
    ASSUME HInv, IInv', NEW c \in sent, LoseChunk(c)
    PROVE  HInv'
<1>1. sent' \subseteq sent /\ UNCHANGED <<disk, info, hash, tasks, client, unread>>
    BY DEF LoseChunk
<1>2. HashOK'
    <2>1. Begun' = Begun /\ \A b \in Attempts : IsLast(b)' <=> IsLast(b)
        BY <1>1 DEF Begun, IsLast
    <2> QED BY <1>1, <2>1 DEF HInv, HashOK, Whole, Begun
<1>3. InOrder' /\ CallsOfUploading' /\ HashedAlone' /\ NothingHashed'
    BY <1>1 DEF HInv, InOrder, CallsOfUploading, HashedAlone, NothingHashed, Progress, Whole
<1> QED BY <1>2, <1>3 DEF HInv

\* A file of no bytes is one chunk.
LEMMA EmptyFile ==
    ASSUME NEW a \in Attempts, Size[a] = 0
    PROVE  Chunks(a) = {0}
<1>1. ASSUME NEW d \in Nat \ {0} PROVE 0 \div d = 0
    BY Z3
<1> QED BY <1>1, UploadAssumption DEF Chunks

LEMMA AcceptHInv ==
    ASSUME HInv, IInv', NEW a \in Attempts, NEW k \in Nat, <<a, k>> \in sent, ~Whole(a),
           sent' = sent \ {<<a, k>>}, UNCHANGED <<hash, client, unread>>,
           NEW fresh \in BOOLEAN, Accept(a, k, fresh),
           ~fresh => info # Absent /\ info.timestamp = a
    PROVE  HInv'
<1> DEFINE task == NewTask(<<a, k>>)
<1>1. tasks = {} /\ client[a] = "uploading" /\ k \in Chunks(a) /\ HashOK'
    BY CallOfUploading, NotLate
<1>2. info' = [timestamp |-> a, received |-> BytesReceived(a, k, fresh),
               partial |-> IF fresh THEN <<>> ELSE info.partial]
      /\ tasks' = (IF fresh THEN Unlinked ELSE tasks)
                  \union (IF BytesReceived(a, k, fresh) = Size[a] THEN {task} ELSE {})
    BY DEF Accept
<1>3. Unlinked = {}
    BY <1>1 DEF Unlinked
<1>4. tasks' \subseteq {task} /\ (tasks' # {} => info'.received = Size[a])
    BY <1>1, <1>2, <1>3
<1>5. task.call[1] = a /\ task.at = "start" /\ task.position = 0 /\ task.file = Absent
    BY DEF NewTask
<1>6. info'.partial = <<>> /\ info'.timestamp = a
    BY <1>2 DEF HInv, NothingHashed
<1>7. info' # Absent
    <2> DEFINE partial == IF fresh THEN <<>> ELSE info.partial
    <2>1. a \in 0 .. MaxAttempts
        BY SizeType, UploadAssumption DEF Attempts
    <2>2. info \in {Absent} \union
                [timestamp : 0 .. MaxAttempts, received : Nat, partial : Seq(Content)]
        BY DEF HInv, IInv, TypeOK
    <2>3. (IF fresh THEN 0 ELSE info.received) \in Nat /\ partial \in Seq(Content)
        <3>1. <<>> \in Seq(Content)
            BY EmptySeq
        <3> QED BY <2>2, <3>1
    <2>4. BytesReceived(a, k, fresh) \in Nat
        BY <2>3, BytesFinite DEF BytesReceived
    <2>5. info' \in [timestamp : 0 .. MaxAttempts, received : Nat, partial : Seq(Content)]
        BY <1>2, <2>1, <2>3, <2>4
    <2> QED BY <2>5, EntryIsPresent
<1> HIDE DEF task
<1>8. HashedAlone'
    <2> SUFFICES ASSUME tasks' = {task}
                 PROVE  /\ \A c \in sent' : Size[c[1]] > 0
                        /\ disk' = Source(a)
                        /\ info' # Absent /\ info'.timestamp = a
                        /\ Progress(task, a)'
        BY <1>4, <1>5 DEF HashedAlone
    <2>1. info'.received = Size[a]
        BY <1>4
    <2>2. Receiving(a)' /\ info'.received = Cardinality(Written(disk', a))
        BY AcceptReceives DEF HInv
    <2>3. disk' = Source(a)
        BY <2>1, <2>2, CountedIsComplete DEF Receiving
    <2>4. ASSUME NEW c \in sent' PROVE Size[c[1]] > 0
        <3>1. /\ c \in sent /\ c # <<a, k>> /\ c[1] \in Attempts /\ c[2] \in Chunks(c[1])
              /\ c = <<c[1], c[2]>> /\ client[c[1]] = "uploading"
            BY CallOfUploading
        <3>2. c[1] = a
            BY <1>1, <3>1, OnlyOneBusy
        <3>3. c[2] # k
            BY <3>1, <3>2
        <3>4. Size[a] # 0
            BY <1>1, <3>1, <3>2, <3>3, EmptyFile
        <3> QED BY <3>2, <3>4, SizeType
    <2> QED BY <1>5, <1>6, <1>7, <2>3, <2>4 DEF Progress
<1>9. CallsOfUploading'
    <2>1. \A c \in sent' : client'[c[1]] = "uploading"
        BY DEF HInv, CallsOfUploading
    <2>2. \A t \in tasks' : client'[t.call[1]] = "uploading"
        BY <1>1, <1>4, <1>5
    <2> QED BY <2>1, <2>2 DEF CallsOfUploading
<1>10. InOrder' /\ NothingHashed'
    BY <1>6 DEF HInv, InOrder, NothingHashed
<1> QED BY <1>1, <1>8, <1>9, <1>10 DEF HInv

LEMMA ReceiveChunkHInv ==
    ASSUME HInv, IInv', NEW c \in sent, ReceiveChunk(c[1], c[2]), late' = {}
    PROVE  HInv'
<1> DEFINE a == c[1]
           k == c[2]
<1>1. a \in Attempts /\ k \in Nat /\ c = <<a, k>> /\ a > 0
    BY CallOfUploading
<1>2. <<a, k>> \in sent /\ sent' = sent \ {<<a, k>>} /\ UNCHANGED <<hash, client, unread>>
    BY DEF ReceiveChunk
<1>3. ~Whole(a) /\ tasks = {} /\ HashOK'
    <2>1. ~Whole(a)
        BY DEF ReceiveChunk, Whole
    <2> QED BY <1>2, <2>1, NotLate
<1>4. ASSUME UNCHANGED <<disk, info, tasks>> PROVE HInv'
    BY <1>2, <1>3, <1>4 DEF HInv, InOrder, CallsOfUploading, HashedAlone, NothingHashed, Whole
<1>5. ASSUME NEW fresh \in BOOLEAN, Accept(a, k, fresh), ~fresh => a = Timestamp
      PROVE  HInv'
    <2>1. ~fresh => info # Absent /\ info.timestamp = a
        BY <1>1, <1>5 DEF Timestamp
    <2> HIDE DEF a, k
    <2> QED BY <1>1, <1>2, <1>3, <1>5, <2>1, AcceptHInv
<1> QED BY <1>4, <1>5 DEF ReceiveChunk

\* A turn of the loop over the source hashes its next block, or is the last one.
LEMMA TurnProgresses ==
    ASSUME HInv, NEW task \in tasks, NEW j \in Nat, j <= Blocks(task.call[1]),
           info.partial = Prefix(task.call[1], j),
           task.position = Position(task.call[1], j),
           Turn(task, disk), sent' = sent, UNCHANGED <<disk, client>>
    PROVE  CallsOfUploading' /\ HashedAlone' /\ NothingHashed'
<1> DEFINE a == task.call[1]
           piece == Piece(Source(a), Position(a, j))
           next == [task EXCEPT !.at = "loop", !.position = @ + Len(piece)]
<1>1. /\ task \in Task /\ a \in Attempts /\ client[a] = "uploading"
      /\ tasks = {task} /\ disk = Source(a) /\ task.file = Absent
      /\ info # Absent /\ info.timestamp = a
      /\ \A c \in sent : c[1] = a /\ Whole(c[1])
    BY TaskOfUploading
<1>2. info \in [timestamp : 0 .. MaxAttempts, received : Nat, partial : Seq(Content)]
    BY <1>1 DEF HInv, IInv, TypeOK
<1>3. Blocks(a) \in Nat
    BY <1>1, BlockCount
<1>4. ASSUME NEW t, tasks' = {t}, t.call = task.call, t.file = Absent,
             info' # Absent, info'.timestamp = a, Progress(t, a)'
      PROVE  CallsOfUploading' /\ HashedAlone' /\ NothingHashed'
    BY <1>1, <1>4 DEF CallsOfUploading, HashedAlone, NothingHashed, Whole
<1>5. /\ piece = <<>> => j = Blocks(a)
      /\ piece # <<>> =>
           /\ j < Blocks(a)
           /\ Position(a, j) + Len(piece) = Position(a, j + 1)
           /\ Buffer(piece) = LocalHash(a)[j + 1]
    BY <1>1, PieceOfSource
<1>6. CASE piece = <<>>
    <2>1. PICK t : t = [task EXCEPT !.at = "final", !.result = Partial] /\ tasks' = {t}
        <3>1. tasks' = (tasks \ {task}) \union {[task EXCEPT !.at = "final", !.result = Partial]}
            BY <1>1, <1>6 DEF Turn
        <3>2. \E t : t = [task EXCEPT !.at = "final", !.result = Partial]
            OBVIOUS
        <3> QED BY <1>1, <3>1, <3>2
    <2>2. info' = info
        BY <1>1, <1>6 DEF Turn
    <2>3. t.at = "final" /\ t.result = Partial /\ t.call = task.call /\ t.file = Absent
        BY <1>1, <2>1 DEF Task
    <2>4. Partial = LocalHash(a)
        BY <1>1, <1>5, <1>6, Prefixes DEF Partial
    <2>5. Progress(t, a)'
        BY <2>3, <2>4 DEF Progress
    <2> QED BY <1>1, <1>4, <2>1, <2>2, <2>3, <2>5
<1>7. CASE piece # <<>>
    <2>1. tasks' = {next} /\ info' = [info EXCEPT !.partial = HashChunkWith(piece, @)]
        BY <1>1, <1>7 DEF Turn
    <2>2. /\ next.at = "loop" /\ next.position = Position(a, j) + Len(piece)
          /\ next.call = task.call /\ next.file = Absent
        <3> HIDE DEF piece
        <3> QED BY <1>1 DEF Task
    <2>3. /\ info'.partial = Append(info.partial, Buffer(piece))
          /\ info'.timestamp = a
          /\ \E r : info' = [info EXCEPT !.partial = r]
        <3> HIDE DEF piece
        <3> QED BY <1>1, <1>2, <2>1 DEF HashChunkWith
    <2>4. info' # Absent
        <3>1. Position(a, j) \in Nat
            BY <1>1, SizeType, BlockCount DEF Position
        <3>2. piece \in Content
            BY <1>1, <3>1, SourceType, PieceType
        <3> HIDE DEF piece
        <3>3. HashChunkWith(piece, info.partial) \in Seq(Content)
            BY <1>2, <3>2, HashChunkType
        <3>4. info' \in [timestamp : 0 .. MaxAttempts, received : Nat, partial : Seq(Content)]
            BY <1>2, <2>1, <3>3
        <3> QED BY <3>4, EntryIsPresent
    <2>5. info'.partial = Prefix(a, j + 1) /\ j + 1 \in 0 .. Blocks(a)
        <3>1. Append(Prefix(a, j), LocalHash(a)[j + 1]) = Prefix(a, j + 1)
            BY <1>1, <1>5, <1>7, Prefixes
        <3>2. j + 1 \in 0 .. Blocks(a)
            BY <1>3, <1>5, <1>7
        <3> HIDE DEF piece
        <3> QED BY <1>5, <1>7, <2>3, <3>1, <3>2
    <2>6. next.position = Position(a, j + 1)
        BY <1>5, <1>7, <2>2
    <2>7. Progress(next, a)'
        <3> HIDE DEF next
        <3> QED BY <2>2, <2>5, <2>6 DEF Progress
    <2> HIDE DEF next
    <2> QED BY <1>4, <2>1, <2>2, <2>3, <2>4, <2>7
<1> QED BY <1>6, <1>7

\* A task that is dropped leaves nothing to be hashed.
LEMMA DiesHInv ==
    ASSUME HInv, IInv', NEW task \in tasks, Dies(task)
    PROVE  HInv'
<1>1. tasks' = {} /\ UNCHANGED <<disk, info, hash, sent, client, unread>>
    BY TaskOfUploading DEF Dies
<1> QED BY <1>1 DEF HInv, InOrder, CallsOfUploading, HashedAlone, NothingHashed, HashOK,
                    Begun, IsLast, Whole

LEMMA HashingHInv ==
    ASSUME HInv, IInv', NEW task \in tasks, Hashing(task)
    PROVE  HInv'
<1> DEFINE a == task.call[1]
<1>1. /\ task \in Task /\ a \in Attempts /\ client[a] = "uploading"
      /\ tasks = {task} /\ disk = Source(a) /\ task.file = Absent
      /\ info # Absent /\ info.timestamp = a /\ Progress(task, a)
      /\ \A c \in sent : c[1] = a /\ Whole(c[1])
    BY TaskOfUploading
<1>2. UNCHANGED <<disk, sent, client, unread>>
    BY DEF Hashing, StartHash, GoOnHashing, FinishHash, Dies
<1>3. InOrder'
    BY <1>2 DEF HInv, InOrder
<1>4. Begun' = Begun /\ \A b \in Attempts : IsLast(b)' <=> IsLast(b)
    BY <1>2 DEF Begun, IsLast
<1>5. CASE StartHash(task)
    <2>1. CASE disk # Absent /\ CanTurn(task, disk)
        <3>1. Turn(task, disk) /\ hash' = Absent
            BY <1>5, <2>1 DEF StartHash
        <3>2. info.partial = Prefix(a, 0) /\ task.position = Position(a, 0) /\ 0 <= Blocks(a)
            <4>1. task.at = "start"
                BY <1>5 DEF StartHash
            <4>2. info.partial = <<>> /\ task.position = 0
                BY <1>1, <4>1 DEF Progress
            <4>3. 0 * HashLimit = 0 /\ Size[a] \in Nat
                BY <1>1, SizeType, UploadAssumption
            <4>4. Position(a, 0) = 0
                BY <4>3 DEF Position
            <4> QED BY <1>1, <4>2, <4>4, BlockCount, Prefixes
        <3>3. CallsOfUploading' /\ HashedAlone' /\ NothingHashed'
            BY <1>2, <3>1, <3>2, TurnProgresses
        <3>4. HashOK'
            BY <3>1 DEF HashOK
        <3> QED BY <1>3, <3>3, <3>4 DEF HInv
    <2>2. CASE ~(disk # Absent /\ CanTurn(task, disk))
        BY <1>5, <2>2, DiesHInv DEF StartHash
    <2> QED BY <2>1, <2>2
<1>6. CASE GoOnHashing(task)
    <2>1. CASE CanTurn(task, disk)
        <3>1. Turn(task, disk) /\ hash' = hash
            BY <1>1, <1>6, <2>1 DEF GoOnHashing
        <3>2. PICK j \in 0 .. Blocks(a) :
                  info.partial = Prefix(a, j) /\ task.position = Position(a, j)
            BY <1>1, <1>6 DEF GoOnHashing, Progress
        <3>3. j \in Nat /\ j <= Blocks(a)
            BY <1>1, BlockCount
        <3>4. CallsOfUploading' /\ HashedAlone' /\ NothingHashed'
            BY <1>2, <3>1, <3>2, <3>3, TurnProgresses
        <3>5. HashOK'
            BY <1>2, <1>4, <3>1 DEF HInv, HashOK, Begun, Whole
        <3> QED BY <1>3, <3>4, <3>5 DEF HInv
    <2>2. CASE ~CanTurn(task, disk)
        BY <1>1, <1>6, <2>2, DiesHInv DEF GoOnHashing
    <2> QED BY <2>1, <2>2
<1>7. CASE FinishHash(task)
    <2>1. hash' = task.result /\ tasks' = {} /\ task.at = "final"
        BY <1>1, <1>7 DEF FinishHash
    <2>2. hash' = LocalHash(a) /\ a \in Begun'
        BY <1>1, <1>4, <2>1 DEF Progress, Begun
    <2>3. \A b \in Attempts : client'[b] # "clearing"
        BY <1>1, <1>2, OnlyOneBusy
    <2>4. HashOK'
        BY <1>1, <1>2, <2>2, <2>3 DEF HashOK, Whole
    <2>5. CallsOfUploading' /\ HashedAlone' /\ NothingHashed'
        BY <1>1, <1>2, <2>1 DEF CallsOfUploading, HashedAlone, NothingHashed, Whole
    <2> QED BY <1>3, <2>4, <2>5 DEF HInv
<1> QED BY <1>5, <1>6, <1>7 DEF Hashing

LEMMA NextHInv ==
    ASSUME ~Concurrent, HInv, [Next]_vars, late' = {}
    PROVE  HInv'
<1>0. IInv'
    BY NextIInv DEF HInv
<1>1. CASE \E a \in Attempts : StartUpload(a) \/ BeforeExit(a) \/ ClearFile(a)
    BY <1>0, <1>1, StartUploadHInv, BeforeExitHInv, ClearFileHInv
<1>2. CASE \E c \in sent : LoseChunk(c) \/ ReceiveChunk(c[1], c[2])
    BY <1>0, <1>2, LoseChunkHInv, ReceiveChunkHInv
<1>3. CASE \E task \in tasks : Hashing(task) \/ TaskDies(task)
    BY <1>0, <1>3, HashingHInv, DiesHInv DEF TaskDies
<1>4. CASE Upgrade
    <2>1. tasks' = {} /\ info' = Absent /\ UNCHANGED <<disk, hash, sent, client, unread>>
        BY <1>4 DEF Upgrade
    <2> QED BY <1>0, <2>1 DEF HInv, InOrder, CallsOfUploading, HashedAlone, NothingHashed,
                              HashOK, Begun, IsLast, Whole
<1>5. CASE UNCHANGED vars
    BY <1>0, <1>5 DEF vars, HInv, InOrder, CallsOfUploading, HashedAlone, NothingHashed,
                      HashOK, Begun, IsLast, Progress, Whole
<1> QED BY <1>1, <1>2, <1>3, <1>4, <1>5 DEF Next

\* A chunk that comes late ends what can be said of the hashes, and only that does.
LEMMA SpecHInv == ASSUME ~Concurrent PROVE Spec => [](late = {} => HInv)
<1>1. Init => (late = {} => HInv)
    BY InitHInv
<1>2. (late = {} => HInv) /\ [Next]_vars => (late = {} => HInv)'
    <2> SUFFICES ASSUME late = {} => HInv, [Next]_vars, late' = {} PROVE HInv'
        OBVIOUS
    <2>1. late = {}
        BY LateGrows
    <2> QED BY <2>1, NextHInv
<1> QED BY <1>1, <1>2, PTL DEF Spec

-----------------------------------------------------------------------------
\* When attempts follow one another and no chunk comes late, what is recorded is the hash
\* of some attempt's whole source, however many calls, upgrades and hashing tasks failed.
THEOREM HashesAreOfSources == ASSUME ~Concurrent PROVE Spec => []HashIsOfASource
<1>1. (late = {} => HInv) => HashIsOfASource
    BY DEF HInv, HashOK, HashIsOfASource, Begun
<1> QED BY <1>1, SpecHInv, PTL

\* When attempts follow one another and no two have the same source, a recorded hash of
\* the last one is there only if the file is its source, or if its command could not read
\* the hash and cleared the file.
THEOREM HashVouches == ASSUME ~Concurrent, OwnVersions PROVE Spec => []HashVouchesForFile
<1>1. (late = {} => HInv) => HashVouchesForFile
    <2> SUFFICES ASSUME HInv, NEW a \in Attempts, hash = LocalHash(a),
                        \A b \in Attempts : b > a => client[b] = "idle"
                 PROVE  disk = Source(a) \/ (disk = Absent /\ a \in unread)
        BY DEF HashVouchesForFile
    <2>1. hash # Absent
        BY HashIsPresent
    <2>2. PICK b \in Begun :
              /\ hash = LocalHash(b)
              /\ IsLast(b) => disk = Source(b) \/ (disk = Absent /\ b \in unread)
        BY <2>1 DEF HInv, HashOK
    <2>3. b \in Attempts
        BY DEF Begun
    <2>4. Source(a) = Source(b)
        BY <2>2, <2>3, HashesDiffer
    <2>5. a = b
        BY <2>3, <2>4 DEF OwnVersions
    <2> QED BY <2>2, <2>5 DEF IsLast
<1> QED BY <1>1, SpecHInv, PTL
=============================================================================
