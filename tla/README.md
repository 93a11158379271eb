# TLA+ models of Azle

Azle runs TypeScript and JavaScript canisters on the Internet Computer (IC).  A canister
built with it is a Wasm module: a Rust template, a QuickJS engine, the JavaScript library
under `src/stable/lib` (or `src/experimental/lib`) and the developer's bundled code.  This
directory models the parts of that runtime whose correctness depends on the order of
things: promises that outlive a message, traps that roll half of the work back, cleanup
callbacks, timers, chunked uploads, upgrades, reloads, and indexes of methods that one
evaluation of the code makes and another uses.

| Component | Module | Abstract specification | For TLC | Proofs |
| --- | --- | --- | --- | --- |
| calls | `InterCanisterCalls` | `CallContract` | `MCInterCanisterCalls` | `InterCanisterCallsProofs`, `CallSettlementProofs` |
| timers | `Timers` | `TimerContract` | `MCTimers` | `TimersProofs` |
| file upload | `UploadFile` | | `MCUploadFile` | `UploadFileProofs` |
| lifecycle, randomness, stable maps | `Lifecycle` | `StableStore` | `MCLifecycle` | `LifecycleProofs` |
| stable maps with JavaScript keys and values | `StableBTreeMap`, `StableJson`, `Json` | `StableStore` | `MCStableBTreeMap` | `StableBTreeMapProofs` |
| autoreload | `Autoreload` | | `MCAutoreload` | `AutoreloadProofs` |
| canister methods | `CanisterMethods` | | `MCCanisterMethods` | `CanisterMethodsProofs` |

Run a check with `tlc -config calls_safety.cfg MCInterCanisterCalls.tla`, proofs with
`tlapm InterCanisterCallsProofs.tla`.  `PROJECT.json` lists the runs, the lines of code behind every
definition, the hazards each property is for, and for each property a mutant of the model
that breaks it.

Paths below are relative to the repository.  `TEMPLATE` is
`src/stable/build/commands/build/wasm_binary/rust/stable_canister_template/src`,
`XTEMPLATE` its experimental counterpart.

## Inventory

| Component | State | Operations | Hard behaviour | What makes it correct |
| --- | --- | --- | --- | --- |
| Inter-canister calls (`lib/ic_apis/call.ts`, `TEMPLATE/ic/call_raw.rs`, `execute_method_js.rs`) | callback tables in `globalThis`, the future queue, the executor's tasks, the QuickJS job queue | `call`, settle, cleanup, drain, reply | responses interleave; a trap rolls back and runs a cleanup callback; a call may fail in the message that made it | each promise is settled once, by its own response; the tables hold what is outstanding; nobody waits for a lost wake-up; one reply per caller |
| Error handling (`lib/error.ts`, `rquickjs_utils/error.rs`) | none | `handleUncaughtError`, `handle_promise_error` | an error after an await is seen only by the async wrapper | an uncaught error traps |
| Timers (`lib/ic_apis/set_timer*.ts`, `clear_timer.ts`, `TEMPLATE/ic/set_timer*.rs`) | `_azleTimerCallbacks`, the tasks of ic-cdk-timers | `setTimer`, `setTimerInterval`, `clearTimer`, firing | clearing while firing; a trap of a firing timer; a guard that re-enters QuickJS | a table entry per live timer; a one-shot timer fires at most once; clearing cancels |
| Lifecycle and randomness (`init_and_post_upgrade.rs`, `seed_internal_csprng.rs`, `rand_seed.ts`) | two CSPRNGs, the context | init, post-upgrade, seeding by `raw_rand` | messages run before the seed arrives; upgrades lose the heap and may be rolled back | no id that a call waits under is given out again; user re-seeding does not reach the internal generator; every instance is seeded |
| Canister methods (`lib/canister_methods/index.ts`) | method registry, callbacks by index, exports of the binary | decorators, build, deploy, reload | an index from one evaluation of the code is used in another | an export executes its method; the `.did` file describes what callbacks decode |
| Stable structures (`lib/stable_structures`, `TEMPLATE/stable_b_tree_map.rs`, `ic/stable_b_tree_map_*.rs`) | `STABLE_B_TREE_MAPS`, stable memory | init, insert, get, remove, iteration | the registry is lost at an upgrade, the memory is not; traps | a map survives upgrades, and is registered while code that uses it runs |
| Stable JSON (`lib/stable_structures/stable_json.ts`) | none | `jsonReplacer`, `jsonReviver` | values JSON cannot hold | reviving what was replaced gives the value back |
| Action dispatch (`lib/state.ts`, `TEMPLATE/state.rs`) | every `_azle*` global | set and delete by key | two tables per call | as part of calls and timers |
| File upload (`XTEMPLATE/upload_file`, `src/experimental/build/commands/upload_assets/file_uploader`) | `FILE_INFO`, the file, the table of hashes | `upload_file_chunk`, `hash_file` | chunks in any order, repeated, from an older upload; hashing awaits between reads | a hash is recorded only for a complete file and matches it |
| Autoreload (`XTEMPLATE/autoreload.rs`, `src/experimental/build/commands/build/file_watcher`) | chunks by number, a timestamp | `reload_js` | chunks of two reloads interleave, are lost or late; compilations overlap | only the whole JavaScript of one reload is evaluated, and reloads in order |
| HTTP server (`src/experimental/lib/server.ts`) | a Node server over `http_request` | upgrade decision, chunked bodies | request and response in one message | the body returned is the body written |
| Build, Candid and `.did` generation, Wasm manipulation (`src/stable/build`, `lib/did_file`) | files | CLI commands | none at run time | out of the runtime's reach |

Components interact through the globals (`_azleResolveCallbacks`, `_azleRejectCallbacks`,
`_azleTimerCallbacks`), through the future queue that every JavaScript execution fills and
the message drains, through the ids the internal generator gives to calls, through the
indexes of callbacks that a build puts into the binary, and through the IC's messages.

## Plan

In order, the most important behaviour first:

1. `InterCanisterCalls` with `CallContract` as its abstract specification, and
   `InterCanisterCallsProofs`: the call path of update methods.  Done.
2. `Timers` with `TimerContract` as its abstract specification, and `TimersProofs`: the timer
   table, ic-cdk-timers, traps and clearing.  Done.
3. `UploadFile` and `UploadFileProofs`: chunks, timestamps, the hash and the command that
   sends them.  Done.
4. `Lifecycle` with `StableStore` as the abstract specification of the maps in it, and
   `LifecycleProofs`: init, seeding, upgrades.  Done.
5. `Autoreload` and `AutoreloadProofs`: chunks of several reloads.  Done.
6. `CanisterMethods` and `CanisterMethodsProofs`: decorators, build, deployment, reload.
   Done.
7. `StableBTreeMap`, `StableJson` and `StableBTreeMapProofs`, against `StableStore`: what is in
   a map.  Done.

Left: calls and timers of a runtime that a reload replaced.

## InterCanisterCalls

**State.**  `s` is the canister's heap, as far as calls touch it, and the IC's record of its
calls and call contexts; `saved` is `s` at the last commit; `exec` is the message being
executed: its kind, the phase of the Rust glue it is in, the call context it belongs to and
the call it is about; `lost` remembers whose code made a cleanup callback trap.

| Field | Code |
| --- | --- |
| `resolve`, `reject` | keys of `_azleResolveCallbacks` and `_azleRejectCallbacks` |
| `futures` | `INTER_CANISTER_CALL_FUTURES` |
| `spawned`, `calls` | the executor's tasks: not polled yet, awaiting a response |
| `promise`, `ctx` | the promise of `handleTwoWay` and the call context of its call |
| `fn`, `on`, `awaited` | the developer's async function and what it awaits |
| `status` | the IC's call context: open, replied, rejected |
| `stranded` | history: calls whose `callRaw` threw |

**Messages.**  A message starts with `ExecuteMethodJs` or `Respond` and walks through phases:
`js` (JavaScript runs, then microtasks drain), `poll` (the executor polls what was spawned),
`settle` (`settle_promise`), `guard` (the scopeguard) and back to `js`, until `EndMessage`
commits.  `Trap` rolls back to `saved`; a trapping response becomes a message of kind
`cleanup` that starts in `guard`, which is how ic-cdk cancels the task.  The JavaScript of
the module itself runs in kind `init`.

**Developer code** is arbitrary: whenever a function runs it may call, await one of the
promises of its own call context, return, throw an `Error`, throw the CleanupCallback error
it received, throw `null`, reply by hand when the method is manual, or trap.  It awaits a
promise once.  A method's function is a single thread of control; a promise shared between
two methods is not modelled.  A future queued by module evaluation takes the call context of
the message that drains it.

**Abstraction.**  Ids are numbers in increasing order: `uuid` yields 128 random bits, whose
collisions are neglected, and the order lets "the least queued id" stand for the queue's
order.  Arguments, results and error values are left out; failing to decode a result is one
of the traps `TrapAnywhere` allows at any time.  The pending-job queue of QuickJS is the set
of functions that are `ready` or `returned`.

**External behaviour** is taken from how the code uses it: the IC executes messages one at a
time, answers every call once, rolls a trapping message back, runs the cleanup callback as a
message of its own in which replying traps, and rejects a call context that has neither a
reply nor an outstanding call; ic-cdk's executor spawns into a queue it polls at the end of
the message and refuses to spawn in a cleanup callback.

### Runs

All runs use two methods, one of them manual, and up to three calls, one possibly issued by
the module.  Three calls let one method await a second call while the first is answered, and
let another call be issued from a continuation; two methods make responses interleave; a
third of either adds no new pairing of a message with another context.  `EveryCallIsSettled`
and `EveryAwaitEnds` are checked with two calls.

| Run | Shows |
| --- | --- |
| `calls_safety` (1.2 million states) | `TypeOK`; `CallbackTablesExact`: between messages the tables hold the outstanding calls, the queued module calls, and two known kinds of leftovers; `NoLostWakeup`; `DrainedAtRest`; `RejectedHasCause`; `SettledForever`; `ImplementsContract`: seen at commits, each promise follows `CallContract`: unissued, queued, pending, then resolved, rejected, cleaned up or lost, one foreign promise per message |
| `calls_liveness` | `EveryCallIsSettled`, `EveryAwaitEnds` |
| `calls_handled_cleanup` | violated: handling the CleanupCallback error and returning traps the cleanup callback |

A call at the top level of the developer's module is not refused: it stays in the future
queue after initialization, although a comment there (`initialize_context.rs:100`) takes it
for granted that there is none, and is made by the first message that follows.
`CallbackTablesExact` and `DrainedAtRest` make room for it.

Two more facts the model shows are taken account of in properties rather than checked in runs
of their own.  A call whose cycles do not parse as a u128 throws in `callRaw`
(`ic/call_raw.rs:49-51`) after `handleTwoWay` registered its callbacks, and leaves both behind
for good: `stranded`.  And `handleUncaughtError` (`error.ts:22`) throws itself for `null` and
`undefined`, so that `throw null` after an await commits the message without a trap or a
reply: status `swallowed`.

**Fairness.**  `WF` of the steps of a running message: the IC bounds a message's
instructions, so it ends by committing or trapping.  `WF` of the response to each call: the
IC answers every call made with `unbounded_wait`.  No fairness is assumed for the arrival of
update calls.

### Proofs

`InterCanisterCallsProofs` proves, for any set of methods and any bounds, that the
specification keeps `TypeOK`, `CallbackTablesExact`, `NoLostWakeup` and `DrainedAtRest`.  The
only assumptions are `MethodsAssumption` and `BoundsAssumption` of the constants.

The properties speak of the state between messages, so they are not inductive: a message
breaks and restores them, and a trap throws the restored state away.  `IInv` says, for `s`
and for `saved` alike, that each table entry has exactly one reason to be there
(`Accounted`), that a promise is pending exactly while something can settle it and a
suspended function awaits a pending promise of its own context (`PromisesOK`), that calls
belong to methods (`ContextsOK`), and what each kind and phase of a message entails
(`ExecOK`).  The two states differ in the call in transit: for `s` it is the one in hand
(`InHand`), for `saved` the one just answered (`Answered`); a trap swaps one for the other.
There is a lemma per action; `NextIInv` puts them together and the theorems follow by
temporal reasoning.

`CallSettlementProofs` proves `SettledForever`, the refinement `ImplementsContract` and
`RejectedHasCause` from the same assumptions.  What they need beyond `IInv` is how far `s` may
be from `saved` while a message runs (`SettlementInv`): the only promises it moves are the one
its response is for and ids nobody had seen (`PromisesMoved`), ids not drawn yet have no
promise (`Unissued`), the call in hand is one of these (`InHandOK`), and the evaluation of the
module only queues (`EvaluationOK`).  `StepCommits` then says what a step does to `saved`:
nothing, the loss of one call, or the commit of one message; each is a stutter or a step of
`CallContract`.  `RepliesInv` says why a call context may be closed without a reply.

The liveness properties are model-checked only: they are out of the prover's reach.

## Timers

**State.**  `t` is the canister now, `saved` the canister at the last commit, `exec` the
message being executed, `refused` the timers `clearTimer` trapped on.

| Field of `t` | Code |
| --- | --- |
| `table` | keys of `globalThis._azleTimerCallbacks` |
| `task` | the slots of ic-cdk-timers: empty, a one-shot closure, an interval's, or the placeholder while the closure runs |
| `kind` | what was asked for: `setTimer` or `setTimerInterval` |
| `due` | the heap of deadlines |
| `call` | the canister's call to itself that runs the closure, and its answer |
| `next` | the next id |
| `runs`, `cleared` | history: committed runs, and calls of `clearTimer` |

**Messages.**  Any JavaScript is a message of kind `js` (`BeginMessage`, `EndMessage`) or the
callback of a timer, of kind `timer`; both may set and clear any number of timers, and trap at
any point.  `GlobalTimer` turns a deadline that passed into a self-call, `ExecuteTimer` takes
the closure out of its slot and runs it, `CallbackReturns` commits, and `SelfCallAnswered`, in
yet another message, gives an interval its next deadline and drops a one-shot closure that
trapped.  `SelfCallFails` is a self-call the IC could not execute.

**External behaviour.**  ic-cdk-timers is modelled from the way `set_timer.rs` and
`set_timer_interval.rs` rely on it.  Deadlines have no values: any of them may have passed.
The library's limit on self-calls in flight, and one call to `canister_global_timer` handling
several deadlines, are left out: each deadline is handled on its own, in any order.

**Contract.**  `TimerContract` is what a developer was promised, without slots, deadlines and
self-calls: each timer is unset, then live (`once` or `every`), then `over` or `cleared`.  A message
may set and clear timers; a callback completes, which ends a one-shot timer; a one-shot timer ends
without completing only because its callback trapped (`failed`, until the canister hears of it) or
because it was cleared, which the code in fact never manages (see the finding).  `Fate` reads this
off the committed canister, and `ImplementsTimerContract` says that the code does nothing else.
That a one-shot timer completes at most once (`OnceRunsOnce`) follows, and is a theorem of its own.

**Runs.**  `timers` checks two timers under fairness: one can set, clear, overtake or outlive
the other, or itself, and a third could do no more to any of them, since an action touches the
timer in hand and the one it names; the proofs cover any number.  `timers_clear` is violated.

**Fairness.**  A message ends (`WF`), because the IC bounds its instructions.  The IC serves a
deadline, executes a self-call that does not fail for ever, and delivers its answer: `SF`,
since each is disabled while any other message runs.  JavaScript need not do anything.

**Finding.**  The closure of a one-shot timer owns a scopeguard that enters QuickJS to delete
its callback; `clearTimer` drops that closure while QuickJS is entered already, which panics:
clearing a one-shot timer before it fires traps.  Intervals have no such guard.

**Proofs.**  `TimersProofs` proves every safety property of the run, and that the contract is
implemented, for any number of timers; the one assumption is `MaxTimersAssumption`.  Like calls, timers are consistent only between
messages and a trap falls back to `saved`; `IInv` therefore holds one predicate, `Good`, of
both.  `GoodTimer` says for one timer which combinations of slot, kind, deadline, self-call and
table entry exist, with an exemption for the timer being run.  Since each action changes the
timer in hand or the one it names, each lemma checks one timer and carries the others over.
For the contract `CInv` adds `Since`: what the message being executed has made of each timer since
the last commit is something one message of the contract may do (`MayBecome` is transitive), and
the timer that is running has lost nothing but its slot; a commit is then one step of the contract,
and a trap, which forgets all of it, is `Fails` or a stutter.
`OnceEnds` and `IntervalGoesOn` are model-checked.

## UploadFile

**State.**  One destination path and the attempts to upload a file to it.

| Variable | Code |
| --- | --- |
| `disk` | the file: each byte is the attempt that wrote it, 0 for none |
| `info` | its entry in `FILE_INFO`: timestamp, bytes received, partial hash |
| `hash` | its entry in the table of hashes on the canister's file system |
| `sent` | chunk calls on their way |
| `tasks` | chunk calls that wait for a call of `_azle_chunk`: where they are in `hash_file`, the position in the file and what they have open |
| `client` | the command: idle, uploading, clearing, done |
| `failed` | history: attempts that lost a chunk, or whose hashing failed |
| `unread` | history: attempts whose command could not read the hash |
| `late` | history: attempts of which a chunk came after their file was complete |

**Actions.**  `StartUpload` sends every chunk without waiting; `ReceiveChunk` is
`upload_file_chunk` up to its first await, with the comparison of timestamps, the reset, the
write and the count; `StartHash`, `GoOnHashing` and `FinishHash` are the turns of `hash_file`
between its awaits, and `Dies` what becomes of one that panics; `BeforeExit` and `ClearFile`
are the clean-up of the command, each with a call that may fail; `Upgrade` loses `FILE_INFO`.  Between two steps of one call
any step of another may happen.

**Abstraction.**  A hash is the sequence of the buffers it was computed from, so that two are
equal only if the buffers are: SHA-256 has no collisions.  The last buffer is filled up with
zeros, as on both sides of the code.  The attempt's number is its
timestamp.  A chunk is delivered at most once, as the IC does.  Removing a file that a
hashing task has open may succeed or be refused, since the code does not settle which the file
system does; if it succeeds the task goes on with what it has open.  A canister is stopped
before it is upgraded.

**Runs.**  Chunks and turns of hashing are of two bytes.  Files of 3 and 5 bytes have two and
three chunks, a short last one, and take two or three turns; files of 2 and 4 bytes end with an
empty chunk after full ones, one of 0 has nothing else.  `upload_sequential` has 3, 4 and 0
bytes, `upload_overlap` 3 and 2, `upload_stale` 3, 5 and 0.  `Concurrent` lets an attempt start before the last has
ended: somebody runs the command again while it is still running, or after killing it.

| Run | Shows |
| --- | --- |
| `upload_overlap` | two overlapping attempts: `TypeOK`, `CountMatchesFile`, `HashingStartsOnCompleteFile`, `CommandEnds` |
| `upload_sequential` | three attempts one after the other, chunks lost and reordered, tasks dying, queries and clears failing, upgrades: `HashIsOfASource`, `HashVouchesForFile`, `UploadCompletes` |
| `upload_stale` | violated: a late chunk of an earlier attempt destroys a file that is already hashed |

The runs allow a final state (`CHECK_DEADLOCK FALSE`): the attempts are bounded, and when the
last is done nothing is left to do.  
**What the three properties of `upload_sequential` leave out.**  Each restriction is a case
that does go wrong.

- *Attempts that overlap.*  `upload_stale` shows a late chunk of an earlier attempt destroy a
  later one's file, and hashing that overlaps a later attempt mixes pieces of both.
- *A late empty chunk*, with no call failing.  A file of full chunks ends with an empty chunk
  (`upload_file.ts:22`).  Sent last, it may well arrive after the chunk that completes the
  file.  While that is being hashed it finds `received == total` again
  (`upload_file_chunk.rs:33`) and starts a second hashing over the same partial hash, and what
  is recorded is no hash of the file; after the hash is recorded it finds no entry, takes itself
  for a new attempt and replaces the file by an empty one of the same length.  All three
  properties have this exemption, as `late`; an empty chunk that comes before or between the
  others is covered, and so is the empty chunk that is all of an empty file.  A chunk counts as
  late only if it finds its attempt's whole file in place, so `late` is empty in every history
  of files that do not end in a full chunk.
- *A query that fails.*  `hasValidHash` takes a failed query for the answer that there is no hash
  (`incomplete_files.ts:25`).  The command then clears a file that was finished, whose hash
  stays; `shouldBeUploaded` of the next command would find that hash right and send nothing.
  `HashVouchesForFile` allows exactly this: no file, and a command that could not read the hash.
- *A partial upload after a complete one.*  An attempt that loses a chunk may leave part of a
  file behind under the hash of the attempt before it, which makes the file look complete to
  the command (`incomplete_files.ts:24`): hence `HashVouchesForFile` speaks of attempts that
  nothing followed.

**Fairness.**  `WF` of the delivery of each chunk, of the turns of each hashing call (the IC
answers the call of `_azle_chunk`), and of the end of the command.  A chunk or a task may be
lost at any time, but need not be, and nothing makes an attempt start.

**Proofs.**  `UploadFileProofs` proves `TypeOK`, `CountMatchesFile` and
`HashingStartsOnCompleteFile` for any sizes and any number of attempts that overlap at will,
from `UploadAssumption`.  `CountMatchesFile` is not inductive: a chunk adds its bytes to the
count whatever the file held at their place.  `Consistent` adds that the bytes of a chunk
still on its way are not in the file, which needs that a call is sent once and that chunks are
disjoint (`ChunksDisjoint`); `OpenFilesExist` is what typing a task that is cut off its file
needs.

It also proves `HashIsOfASource`, for files of any sizes, when attempts follow one another
(`~Concurrent`), and `HashVouchesForFile` if besides no two attempts have the same source
(`OwnVersions`; two empty files have, and the hash of one would vouch for the other).  The
invariant is `late = {} => HInv`, and `late` only grows (`LateGrows`).  `HInv` says that the
attempts before the one being uploaded are done; that a hashing task is alone: the file is the
source, and the task's partial hash and its position are those of the first j pieces
(`Progress`), while the empty last chunk may still be on its way; that before the file is
complete nothing of it is hashed; and, of a recorded hash, what file it stands for (`HashOK`).
A chunk that finds no complete file finds no task either (`NotLate`), which keeps a task alone
as long as no chunk is late.  `PieceOfSource` and `Prefixes` say
that the pieces read one by one are those of the hash the command computes, and
`HashesDiffer` that equal hashes are of equal sources.  Liveness is model-checked.

## Lifecycle and StableStore

**State.**  `c` is the canister as the running message sees it, `saved` as of the last commit.

| Field | Code |
| --- | --- |
| `status`, `code` | the IC's record of the canister; the module it runs, by the maps that module constructs |
| `stable` | the items of the maps, in stable memory |
| `maps` | keys of `STABLE_B_TREE_MAPS` |
| `csprng`, `internal` | `CSPRNG`, by its seed; `INTERNAL_CSPRNG`, by its seed and position |
| `pending` | ids of the calls that wait for an answer |
| `timers` | timers that have not run |
| `seeding` | `seed_from_raw_rand`: its timer, its call, and what became of it |

**Actions.**  `Install` and `BeginUpgrade`, `PreUpgradeReturns`, `InitializeReturns` are the
installation and the three parts of an upgrade, which commits as a whole or is rolled back by
`Traps`.  `SeedTimerRuns`, `RawRandAnswers` and `RawRandFails` are `seed_from_raw_rand`.
Messages begin, run any number of steps of JavaScript (map operations, `randSeed`, calls,
timers), and return or trap; a query keeps nothing.

**Abstraction.**  A generator is its seed and the number of draws, and a draw is that pair:
different streams do not collide.  A call is its id and a timer its name; what becomes of them
is in `InterCanisterCalls` and `Timers`.  raw_rand never gives a seed twice.  A canister is
stopped before it is upgraded, so that no answer is on its way.

**Runs.**  `lifecycle` (390 thousand states): two maps, two versions of which one constructs
only the first map, two keys and a limit of one item, so that a map is full; one upgrade; two
answers of raw_rand, for the instances before and after it; a draw per seed, which is what a
reseeding could give out again.

**Fairness.**  A message ends, since the IC bounds its instructions; the seeding timer runs and
raw_rand is answered or fails (`SF`: both are disabled while other messages run and while the
canister is stopped); a canister that was stopped is started again, which is the operator's
part and without which nothing runs.

**Proofs.**  `LifecycleProofs` proves the four invariants and the refinement of `StableStore`
for any maps, versions, seeds and bounds.  A step either commits one new canister, or changes
only the running message's, or neither, so the invariant is a fact `Good` about one canister,
said of `c` and of `saved`.  `IdsFresh` needs `IdsBehind`: ids waited under come from seeds
raw_rand has given, and those of the present seed are behind the present position.
`StoreImplemented` maps a step to `Insert`, `Remove`, `Commit`, `Discard` or a stutter.
`EventuallySeeded` is model-checked.

**Met while modelling.**  The book says that timers "persist across canister upgrades"
(`the_azle_book/src/candid_rpc/ic_api/set_timer.md:66`): an upgrade loses those that have not run,
their callbacks with the heap and their tasks with ic-cdk-timers.

## StableBTreeMap, StableJson and Json

`Lifecycle` has the maps by memory id and what becomes of them at upgrades; here is what is in
one of them: bytes.  The tree compares the bytes of keys and knows nothing of JavaScript, while
developers see keys and values.

**State.**  `tree` is the tree as the running message sees it, from the bytes of keys to the bytes of
values; `saved` is what the last committed message left.  `insert` and `remove` change it, with
the limit on items (`HasRoomFor`); `Commit` and `Trap` end a message.  `get`, `containsKey`,
`keys`, `values` and `items` change nothing and are operators.

**Parameters.**  The constructor takes two serializers, so the module does: `keyToBytes`,
`keyFromBytes`, `valueToBytes` and `valueFromBytes` are operator constants, which the run gives the
default, `stableJson`.  `Below` is the order of bytes, of which only that it is one is assumed
(`BytesAreOrdered`).  `Sorted` is the list of keys in that order, each at its `Place`: as many as
there are that are not above it.

**Conversion.**  `StableJson` has a JavaScript value as a record that names its form: plain, one of
the seven special values, one of the ten typed arrays, array, Set, Map or object.
`Written` is one level of `jsonStringify`: the value is replaced, then what is inside of it written;
`Read` is one of `jsonParse`: what is inside is read, properties that came back undefined are
deleted, then the value is revived.  Both take what becomes of the values inside as an argument, so
that no recursion is needed to reason about them; `Json` ties the knot for TLC with recursive
operators.  Whether Principal, a library's class, has a
`toJSON` of its own is left aside: it is written as the replacer writes it.

**Abstraction.**  Text and its bytes are one.  Strings, numbers, booleans and null are plain values
that JSON keeps.  The order of bytes is some fixed order of the keys.  A hole in an array reads as
undefined and is not told apart from it.  Objects keep the order of their properties, which the
engine changes only for names that are integers.  What insert and remove return is left out.

**Run.**  `stable_map` (17 thousand states): up to three items under five keys, among them 1 and 1n,
and two objects whose properties come in either order, which are two keys; for values, undefined
and one object that has every form inside of every form that holds values.  The forms are
independent of each other and nest through the same two recursive operators, so that three levels
show what more would.  `ImplementsMapOfValues`: the map of bytes implements `StableStore` with
JavaScript values for items, so a value comes back as it was put in and no two keys share an
item.  `PagesAreTheMap`: pages of any length give each key once, and a key so read is found with its
value; three items have pages that are short, that end with the map and that start past it.
No fairness: nothing has to happen.

**Met while modelling.**  The reviver's undefined makes `JSON.parse` delete the property, so
`{a: undefined}` comes back as `{}`, while the book says that undefined is "Properly preserved"
(`the_azle_book/src/candid_rpc/ic_api.md:623`).  As a key, such an object is listed by `keys()` and
then not found.  The values of the run have no such property.

**Proofs.**  `StableBTreeMapProofs` proves `TypeOK`, and with it that a map never has more items
than it may; the rest is under `RoundTrips`, that the serializers read what they wrote, which is a
hypothesis of the theorems and no assumption of the model: a serializer that does not do so breaks
the properties.

- `MapOfValuesImplemented`: the tree of bytes refines `StableStore` step by step.  A key is
  found or overwritten by its bytes, and `RoundTrips` makes different keys different bytes.
- `PagesShowTheMap`: `PagesAreTheMap` for maps of any size and pages of any length.  `Place`
  grows with the order (`PlaceGrows`), so it maps the keys one to one into 1 .. Size and therefore
  onto it (`SortedKeys`, by cardinality); a position is in the page that division says
  (`PageOfPosition`, `EveryKeyInAPage`), and pages do not overlap (`PagesApart`).
- `JsonComesBack`: at every depth, what was written is read as it was.  `Serialize` says that
  `write` and `read` are, for each value of a set, what one level of JSON makes of it, that the
  set has what is inside of its values, and that this is less deep.  Of the values that do not come
  back one would be the least deep (`LeastNumber`, induction from the well-foundedness of the
  numbers); what is inside of it comes back, so going through it twice changes nothing
  (`MappedBack`), and the reviver undoes the replacer (`RevivedIsReplaced`).  `Supported` excludes
  exactly the objects of which the code is known not to give them back: with a property that is
  undefined, and with one that looks like a marker.
- `DefaultMapIsAMapOfValues` puts these together: with `stableJson` for serializers nothing is
  left to assume of them.

That the recursive operators of `Json` are such a `write` and `read` is out of the prover's reach:
`MCStableBTreeMap` has TLC check it for the values of the run and all that is inside of them
(`SerializersAreOfJson`).

## Autoreload

**State.**  `watch` is the watcher's handlers, one per change; `made` the version each reload
was compiled from; `network` the chunks on their way; `k` the canister: `ts` is
`RELOADED_JS_TIMESTAMP`, `stored` the keys of `RELOADED_JS`, `running` what was evaluated last.

**Actions.**  `Edit` starts a handler, `ReadSources` is the compiler reading the files,
`SendReload` the end of the compilation, where the timestamp is taken and all chunks are sent
without waiting; `ReloadJs` is the whole of `reload_js`: the timestamp, the clearing, the
insertion, the test of the length and the evaluation.  A chunk may be lost, or its message rolled
back (`ReloadJsFails`).  `Deploy` replaces the watcher and installs the sources; chunks of the
old watcher may still arrive.

**Abstraction.**  Code is a set of bytes, each with the number of its chunk, so that lengths add
up as in the code.  Reloads are numbered by their timestamps.  A chunk arrives at most once, as
the IC executes a request once.

**What holds and what does not.**  Only a greater timestamp clears what is stored
(`autoreload.rs:20`): a chunk older than one already taken is stored among the newer ones, and
may make up a mixture of the right length or keep the newer reload from being complete.  `stale`
says that this happened since the last deployment.  The properties are about everything else:
any order of the chunks of one reload, losses, and older chunks that arrive before newer ones.
Since the timestamp is taken when a compilation ends, the reload with the last timestamp need not
have the last sources; the properties follow the timestamps.

**Runs.**  `autoreload`: three changes and a deployment; versions of two chunks that are equally
long, and one as long as their first chunk, so that lengths can be mistaken.  Edits and
deployments are bounded, so the system stops (`CHECK_DEADLOCK FALSE`).

**Fairness.**  `WF` of each handler, and of the arrival or failure of some chunk.

**Proofs.**  `AutoreloadProofs` proves `TypeOK`, `RunsOneReload` and `ReloadsInOrder` for any
sources and any number of changes.  `Fresh` is what makes them inductive: what is stored belongs
to the reload of the timestamp and is not on its way any more, so that a length that is right is
the length of all of its chunks (`CompleteIsAll`), and once that reload runs none of its chunks
is left to evaluate it again.

## CanisterMethods

**State.**  `source` is the program on disk; `eval` the evaluation going on, with the
`CanisterClassMeta` the decorators have filled so far; `wasm` the last build; `watcher` the last
build that succeeded, which started the file watcher; `canister` the binary it has (`made`), the
code and meta of its JavaScript, the methods executed at its start (`entry`) and, as history, the
code of the build whose index chose them (`origin`).

**Actions.**  `RegisterMethod` runs one decorator's initializer, in a build, a deployment or a
reload alike.  `StartBuild` and `EndBuild` are the build command; `StartDeploy` and `EndDeploy`
an installation or an upgrade, with the old binary's preUpgrade before and init or postUpgrade
after; `StartReload`, `EndReload` and `ReloadThrows` an autoreload, whose code no binary was made
for; `NewObject` is the developer making an object of a class of the canister, which runs its
decorators again.

**Abstraction.**  A program is the sequence of its methods in the order their decorators run.  A
list of methods is the set of its entries, whose indexes are different; Candid types are values.
Evaluation is deterministic.  A reload is one step from the file on disk to the canister: its
chunks are in `Autoreload`.  Evaluations do not overlap.

**Runs.**  `methods` (2.6 million states): fourteen programs that differ in order, names, kinds
and parameters, among them duplicates, init and postUpgrade in either order with equal and with
different parameters, a query and an update of one name, a hidden method, preUpgrade and
inspectMessage.  After a reload indexes are kept only between programs that declare the same
methods in the same order, and the properties say so.  No fairness: the properties are
invariants.

**Proofs.**  `CanisterMethodsProofs` proves all four properties for any set of programs of any
length.  The invariant says what a meta is after n decorators (`Matches`: index i - 1 has the
i-th method, and so on), that names do not clash (`Unique`), what follows for a build
(`GoodBuild`), and that a meta in a canister stays that of its code (`KnownThrows`: registering a
method a second time throws before anything but the counter changes).

**Met while modelling.**  A reload whose evaluation throws leaves a runtime without methods
(`init_and_post_upgrade.rs:141-145` of the experimental template ignores the exception); if the
binary has a preUpgrade export, every upgrade then traps until another reload.  An
inspectMessage method refuses `_azle_reload_js` and `_azle_upload_file_chunk`, which its list of
internal methods lacks (`execute_and_reply_with_candid_serde.ts:116`).

## Not modelled

- Bundling, printing IDL types as Candid, and the bytes of the Wasm binary: sequential programs
  over files with no run-time state.
- Of Stable JSON: objects whose property has a reserved name such as `__bigint__`, Date, and custom
  replacers and revivers.
- The HTTP server: a vendored Node server; what Azle adds is one request and one response within
  a message.
- `notify_raw` and the other one-line bindings of `ic/*`: they keep no state.
- The HTTP client, fetch and the threshold wallet: wrappers of outcalls whose state lives
  elsewhere.
- IDL definitions of other canisters under `lib/canisters`: data.
- Uploading: which files are chosen and where they go, the query that skips a file whose hash
  is right, throttling, a clock that runs backwards between two attempts.
- A message that constructs two maps with one memory id: nothing in the code checks for it, and
  the model assumes that a version constructs each of its maps once.
- Calls and timers of a runtime that a reload replaced.
- Liveness is model-checked, never proved: fairness and ENABLED are out of the prover's reach.  So
  are recursive operators: those of `Json` are only run by TLC.
