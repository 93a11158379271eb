----------------------------- MODULE UploadFile -----------------------------
(***************************************************************************)
(* Uploading a file into an Azle (experimental mode) canister: the command *)
(* that cuts it into chunks (upload_assets/file_uploader) and the canister *)
(* that puts them together and hashes the result (upload_file/*.rs).       *)
(*                                                                         *)
(* There is one destination path.  Attempt a uploads its own version of    *)
(* the source, and a is its timestamp.  The chunks of an attempt are sent  *)
(* without waiting for answers, so they arrive in any order or not at all. *)
(* The chunk that completes the file hashes it, in as many messages as the *)
(* file needs, calling the canister itself in between: everything may      *)
(* happen between two of them.                                             *)
(*                                                                         *)
(* A byte of the file is the attempt that wrote it, 0 for a byte nobody    *)
(* wrote.  A hash is the sequence of the buffers it was computed from.     *)
(***************************************************************************)
EXTENDS Naturals, Sequences, FiniteSets

CONSTANTS
    MaxAttempts,    \* bound: upload attempts
    Size,           \* the size of each attempt's source
    ChunkSize,      \* bytes of a chunk (2_000_000)
    HashLimit,      \* bytes hashed by a message (75 MiB)
    Concurrent,     \* may an attempt start before the last one is done?
    Absent          \* no file, no FILE_INFO entry, no hash

Attempts == 1 .. MaxAttempts

ASSUME UploadAssumption ==
    /\ MaxAttempts \in Nat
    /\ Size \in [Attempts -> Nat]
    /\ ChunkSize \in Nat \ {0}
    /\ HashLimit \in Nat \ {0}
    /\ Concurrent \in BOOLEAN
    /\ Absent \notin Seq(Nat) \union Seq(Seq(Nat))
    /\ Absent \notin [timestamp : Nat, received : Nat, partial : Seq(Seq(Nat))]

VARIABLES
    disk,       \* the file at the destination path
    info,       \* its entry in FILE_INFO
    hash,       \* its entry in .config/azle/file_hashes.json
    sent,       \* chunk calls on their way
    tasks,      \* chunk calls that await a call of _azle_chunk
    client,     \* where each attempt's command is
    failed,     \* history: attempts that lost a chunk, or whose hashing failed
    unread,     \* history: attempts whose command could not read the hash
    late        \* history: attempts of which a chunk came after their file was complete

vars == <<disk, info, hash, sent, tasks, client, failed, unread, late>>

-----------------------------------------------------------------------------
(* Chunks and hashes *)

\* Mutant: the number of chunks is rounded up once more.
ChunksRoundedUp(a) == 0 .. Size[a] \div ChunkSize + 1

\* for (startIndex = 0; startIndex <= fileSize; startIndex += chunkSize)
Chunks(a) == 0 .. Size[a] \div ChunkSize

\* Mutant: a chunk begins with the last byte of the one before.
BytesOverlapping(a, k) ==
    {i \in 1 .. Size[a] : k * ChunkSize <= i /\ i <= (k + 1) * ChunkSize}

\* The positions of the bytes of chunk k: none for the last chunk of a file whose
\* size is a multiple of the chunk size.
BytesOf(a, k) == {i \in 1 .. Size[a] : k * ChunkSize < i /\ i <= (k + 1) * ChunkSize}

Source(a) == [i \in 1 .. Size[a] |-> a]

\* What one message reads; empty at the end of the file.
Piece(content, position) ==
    SubSeq(content, position + 1,
           IF position + HashLimit < Len(content) THEN position + HashLimit ELSE Len(content))

\* A piece in the buffer it was read into, which is hashed as a whole.
Buffer(piece) == [i \in 1 .. HashLimit |-> IF i <= Len(piece) THEN piece[i] ELSE 0]

HashChunkWith(piece, previous) == Append(previous, Buffer(piece))

\* The hash of attempt a's source as the command computes it.
LocalHash(a) ==
    [j \in 1 .. (Size[a] + HashLimit - 1) \div HashLimit |->
        Buffer(Piece(Source(a), (j - 1) * HashLimit))]

NewInfo(timestamp) == [timestamp |-> timestamp, received |-> 0, partial |-> <<>>]
Timestamp == IF info = Absent THEN 0 ELSE info.timestamp
Partial == IF info = Absent THEN <<>> ELSE info.partial

Init ==
    /\ disk = Absent
    /\ info = Absent
    /\ hash = Absent
    /\ sent = {}
    /\ tasks = {}
    /\ client = [a \in Attempts |-> "idle"]
    /\ failed = {}
    /\ unread = {}
    /\ late = {}

-----------------------------------------------------------------------------
(* The command *)

\* uploadFile sends every chunk and does not wait.
StartUpload(a) ==
    /\ client[a] = "idle"
    /\ \A b \in 1 .. a - 1 : client[b] # "idle" /\ (client[b] = "done" \/ Concurrent)
    /\ client' = [client EXCEPT ![a] = "uploading"]
    /\ sent' = sent \union ({a} \X Chunks(a))
    /\ UNCHANGED <<disk, info, hash, tasks, failed, unread, late>>

\* A call fails before it reaches the canister; its error is printed.
LoseChunk(c) ==
    /\ c \in sent
    /\ sent' = sent \ {c}
    /\ failed' = failed \union {c[1]}
    /\ UNCHANGED <<disk, info, hash, tasks, client, unread, late>>

\* hasValidHash: any hash will do, and a query that fails is taken for the answer that
\* there is none.
HasValidHash(answered) == answered /\ hash # Absent

\* Node has nothing left to wait for when every call of attempt a has its answer.
NothingToWaitFor(a) ==
    /\ client[a] = "uploading"
    /\ \A c \in sent : c[1] # a
    /\ \A task \in tasks : task.call[1] # a

\* Mutant: the files that have a hash are the ones cleared.
BeforeExitInverted(a) ==
    /\ NothingToWaitFor(a)
    /\ \E answered \in BOOLEAN :
        /\ client' = [client EXCEPT ![a] = IF HasValidHash(answered) THEN "clearing" ELSE "done"]
        /\ unread' = IF answered THEN unread ELSE unread \union {a}
    /\ UNCHANGED <<disk, info, hash, sent, tasks, failed, late>>

\* onBeforeExit asks for the hash, which may fail, and goes on to clear the file if it
\* knows of none.
BeforeExit(a) ==
    /\ NothingToWaitFor(a)
    /\ \E answered \in BOOLEAN :
        /\ client' = [client EXCEPT ![a] = IF HasValidHash(answered) THEN "done" ELSE "clearing"]
        /\ unread' = IF answered THEN unread ELSE unread \union {a}
    /\ UNCHANGED <<disk, info, hash, sent, tasks, failed, late>>

-----------------------------------------------------------------------------
(* The canister: chunks *)

\* A task's file is the one at the path, unless it was removed under it.
HasOpen(task) == task.at # "start" /\ task.file = Absent
Unlinked == {IF HasOpen(task) THEN [task EXCEPT !.file = disk] ELSE task : task \in tasks}

\* reset_for_new_upload removes the file.  Where a hashing task has it open, the
\* file system may refuse.
MayRefuse == disk # Absent /\ \E task \in tasks : HasOpen(task)

\* write_chunk: the file, made with its whole length if it is not there, with the
\* bytes of the chunk in their place.
WithChunk(content, a, k) ==
    [i \in 1 .. Size[a] |->
        IF i \in BytesOf(a, k) THEN a ELSE IF content = Absent THEN 0 ELSE content[i]]

NewTask(c) == [call |-> c, at |-> "start", position |-> 0, file |-> Absent, result |-> <<>>]

\* set_bytes_received, on the entry reset_for_new_upload leaves or the one there is.
BytesReceived(a, k, fresh) ==
    (IF fresh THEN 0 ELSE info.received) + Cardinality(BytesOf(a, k))

\* Mutant: only the last chunk can complete the file.
AcceptInOrder(a, k, fresh) ==
    LET received == BytesReceived(a, k, fresh) IN
    /\ disk' = WithChunk(IF fresh THEN Absent ELSE disk, a, k)
    /\ info' = [timestamp |-> a, received |-> received,
                partial |-> IF fresh THEN <<>> ELSE info.partial]
    /\ tasks' = (IF fresh THEN Unlinked ELSE tasks)
                \union (IF received = Size[a] /\ k + 1 \notin Chunks(a)
                        THEN {NewTask(<<a, k>>)} ELSE {})
    /\ UNCHANGED failed

\* upload_file_chunk up to its first await, for a chunk of the attempt whose chunks
\* are being received, or of a later one if fresh.
Accept(a, k, fresh) ==
    LET received == BytesReceived(a, k, fresh) IN
    /\ disk' = WithChunk(IF fresh THEN Absent ELSE disk, a, k)
    /\ info' = [timestamp |-> a, received |-> received,
                partial |-> IF fresh THEN <<>> ELSE info.partial]
    /\ tasks' = (IF fresh THEN Unlinked ELSE tasks)
                \union (IF received = Size[a] THEN {NewTask(<<a, k>>)} ELSE {})
    /\ UNCHANGED failed

\* Mutant: a chunk of a newer attempt does not start the file anew.
ReceiveChunkKeepingFile(a, k) ==
    /\ <<a, k>> \in sent
    /\ sent' = sent \ {<<a, k>>}
    /\ late' = IF Size[a] > 0 /\ disk = Source(a) THEN late \union {a} ELSE late
    /\ UNCHANGED <<hash, client, unread>>
    /\ IF a < Timestamp
       THEN UNCHANGED <<disk, info, tasks, failed>>
       ELSE IF info = Absent
       THEN Accept(a, k, TRUE)
       ELSE Accept(a, k, FALSE)

\* A chunk of an earlier attempt is disregarded, one of a later attempt resets.
ReceiveChunk(a, k) ==
    /\ <<a, k>> \in sent
    /\ sent' = sent \ {<<a, k>>}
    /\ late' = IF Size[a] > 0 /\ disk = Source(a) THEN late \union {a} ELSE late
    /\ UNCHANGED <<hash, client, unread>>
    /\ \/ /\ a < Timestamp
          /\ UNCHANGED <<disk, info, tasks, failed>>
       \/ /\ a = Timestamp
          /\ Accept(a, k, FALSE)
       \/ /\ a > Timestamp
          /\ Accept(a, k, TRUE)
       \/ /\ a > Timestamp /\ MayRefuse
          /\ failed' = failed \union {a}
          /\ UNCHANGED <<disk, info, tasks>>

\* _azle_clear_file_and_info: the file goes, and an entry with timestamp 0 is left.  The
\* call may fail, or the file system refuse.
ClearFile(a) ==
    /\ client[a] = "clearing"
    /\ client' = [client EXCEPT ![a] = "done"]
    /\ UNCHANGED <<hash, sent, failed, unread, late>>
    /\ \/ /\ disk' = Absent
          /\ info' = NewInfo(0)
          /\ tasks' = Unlinked
       \/ UNCHANGED <<disk, info, tasks>>

\* The canister is stopped, which lets its tasks finish, and upgraded.
Upgrade ==
    /\ info # Absent
    /\ tasks = {}
    /\ info' = Absent
    /\ failed' = failed \union {a \in Attempts : client[a] # "idle"}
    /\ UNCHANGED <<disk, hash, sent, tasks, client, unread, late>>

-----------------------------------------------------------------------------
(* The canister: hashing *)

\* The call of _azle_chunk fails, or the message that follows it traps: the chunk
\* call is rejected and its task dropped.
Dies(task) ==
    /\ tasks' = tasks \ {task}
    /\ failed' = failed \union {task.call[1]}
    /\ UNCHANGED <<disk, info, hash, sent, client, unread, late>>

TaskDies(task) ==
    /\ task \in tasks
    /\ Dies(task)

\* Mutant: a piece is hashed without the hash of those before.
TurnForgetting(task, content) ==
    LET piece == Piece(content, task.position) IN
    IF piece = <<>>
    THEN /\ tasks' = (tasks \ {task}) \union {[task EXCEPT !.at = "final", !.result = Partial]}
         /\ UNCHANGED info
    ELSE /\ tasks' = (tasks \ {task})
                     \union {[task EXCEPT !.at = "loop", !.position = @ + Len(piece)]}
         /\ info' = [info EXCEPT !.partial = HashChunkWith(piece, <<>>)]

\* One turn of the loop of hash_file up to its await.
Turn(task, content) ==
    LET piece == Piece(content, task.position) IN
    IF piece = <<>>
    THEN /\ tasks' = (tasks \ {task}) \union {[task EXCEPT !.at = "final", !.result = Partial]}
         /\ UNCHANGED info
    ELSE /\ tasks' = (tasks \ {task})
                     \union {[task EXCEPT !.at = "loop", !.position = @ + Len(piece)]}
         /\ info' = [info EXCEPT !.partial = HashChunkWith(piece, @)]

\* set_partial_hash panics when the entry is gone.
CanTurn(task, content) == Piece(content, task.position) # <<>> => info # Absent

\* hash_file: the old hash is cleared, the file opened, and the loop begins.
StartHash(task) ==
    /\ task \in tasks
    /\ task.at = "start"
    /\ IF disk # Absent /\ CanTurn(task, disk)
       THEN /\ hash' = Absent
            /\ Turn(task, disk)
            /\ UNCHANGED <<disk, sent, client, failed, unread, late>>
       ELSE Dies(task)

\* Mutant: a task whose entry is gone waits for it to come back.
GoOnHashingWaiting(task) ==
    /\ task \in tasks
    /\ task.at = "loop"
    /\ LET content == IF task.file = Absent THEN disk ELSE task.file IN
       /\ CanTurn(task, content)
       /\ Turn(task, content)
       /\ UNCHANGED <<disk, hash, sent, client, failed, unread, late>>

\* After a call of _azle_chunk the loop goes on, with what the open file holds now and
\* the partial hash the path has now.
GoOnHashing(task) ==
    /\ task \in tasks
    /\ task.at = "loop"
    /\ LET content == IF task.file = Absent THEN disk ELSE task.file IN
       IF CanTurn(task, content)
       THEN Turn(task, content) /\ UNCHANGED <<disk, hash, sent, client, failed, unread, late>>
       ELSE Dies(task)

\* The hash is recorded and the entry of FILE_INFO dropped.
FinishHash(task) ==
    /\ task \in tasks
    /\ task.at = "final"
    /\ hash' = task.result
    /\ info' = Absent
    /\ tasks' = tasks \ {task}
    /\ UNCHANGED <<disk, sent, client, failed, unread, late>>

Hashing(task) == StartHash(task) \/ GoOnHashing(task) \/ FinishHash(task)

-----------------------------------------------------------------------------
Next ==
    \/ \E a \in Attempts : StartUpload(a) \/ BeforeExit(a) \/ ClearFile(a)
    \/ \E c \in sent : LoseChunk(c) \/ ReceiveChunk(c[1], c[2])
    \/ \E task \in tasks : Hashing(task) \/ TaskDies(task)
    \/ Upgrade

Spec == Init /\ [][Next]_vars

\* Every call is delivered or lost, every self-call answered, and Node exits when it
\* has nothing to wait for.  Attempts need not start.
Fairness ==
    \A a \in Attempts :
        /\ WF_vars(BeforeExit(a))
        /\ WF_vars(ClearFile(a))
        /\ \A k \in Chunks(a) :
            /\ WF_vars(ReceiveChunk(a, k))
            /\ WF_vars(\E task \in tasks : task.call = <<a, k>> /\ Hashing(task))

FairSpec == Spec /\ Fairness

-----------------------------------------------------------------------------
(* Properties *)

\* A call for a chunk that begins within the file, or at its end.
Calls == {c \in Attempts \X Nat : c[2] * ChunkSize <= Size[c[1]]}
Content == Seq(0 .. MaxAttempts)

Task ==
    [ call : Calls,
      at : {"start", "loop", "final"},
      position : Nat,
      file : {Absent} \union Content,
      result : Seq(Content) ]

\* Every variable has its type.
TypeOK ==
    /\ disk \in {Absent} \union Content
    /\ info \in {Absent} \union [timestamp : 0 .. MaxAttempts, received : Nat, partial : Seq(Content)]
    /\ hash \in {Absent} \union Seq(Content)
    /\ sent \subseteq Calls
    /\ tasks \subseteq Task
    /\ client \in [Attempts -> {"idle", "uploading", "clearing", "done"}]
    /\ failed \subseteq Attempts /\ unread \subseteq Attempts /\ late \subseteq Attempts

\* file_info.rs counts bytes, not chunks: whatever attempts come and go, while an entry
\* has an attempt's timestamp the file is that attempt's, and the count is the number
\* of its bytes that are in it.
CountMatchesFile ==
    info # Absent /\ info.timestamp > 0 =>
        /\ disk # Absent
        /\ Len(disk) = Size[info.timestamp]
        /\ info.received = Cardinality({i \in DOMAIN disk : disk[i] = info.timestamp})
        /\ \A i \in DOMAIN disk : disk[i] \in {0, info.timestamp}

\* upload_file_chunk.rs: when a chunk call goes on to hash the file, all of its
\* attempt's source is there.  (It may be replaced before the hashing reads it.)
HashingStartsOnCompleteFile ==
    [][\A task \in tasks' :
          task.at = "start" /\ task \notin tasks => disk' = Source(task.call[1])]_vars

\* However many attempts overlap, an upload command ends: no chunk call is left
\* without an answer.
CommandEnds == \A a \in Attempts : client[a] = "uploading" ~> client[a] = "done"

\* The hash the command compares with is never that of a part of a file, or of parts
\* of two.  A file that is complete is hashed once more by a chunk that comes late, over
\* the hash it has: only the empty last chunk of a file of full chunks can (upload_file.ts
\* sends it), and what it leaves is no hash of anything.
HashIsOfASource ==
    hash # Absent /\ late = {} => \E a \in Attempts : hash = LocalHash(a)

\* A recorded hash of the last attempt vouches for the file: never for a part of it or
\* for another.  The file is gone only where the command could not read the hash, took
\* it for incomplete and cleared it, which leaves the hash.
HashVouchesForFile ==
    \A a \in Attempts :
        /\ hash = LocalHash(a) /\ late = {}
        /\ \A b \in Attempts : b > a => client[b] = "idle"
        => \/ disk = Source(a)
           \/ disk = Absent /\ a \in unread

\* When no call fails and no chunk is late, the command leaves the file in its place, with
\* its hash recorded: whatever the order of the chunks, an empty last one among them.
UploadCompletes ==
    \A a \in Attempts :
        client[a] = "uploading" ~>
            \/ client[a] = "done" /\ hash = LocalHash(a) /\ disk = Source(a)
            \/ a \in failed \union unread \union late

\* upload_file_chunk.rs: "The request is from an earlier upload attempt. Disregard".
EarlierAttemptsDisregarded ==
    [][\A b \in Attempts :
          hash = LocalHash(b) /\ disk = Source(b) /\ disk' # disk =>
              \A c \in sent \ sent' : c[1] >= b]_vars
=============================================================================
