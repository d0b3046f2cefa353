# L3KV: a TLA+ verification of the store, its log, its clock, its replication and its server

L3KV is a sharded in-memory key-value store with a write-ahead log, a hybrid
logical clock (HLC), a Merkle tree per node and a gossip protocol that repairs
differences between nodes. This directory models the parts of it that hold
state, checks them with TLC on small instances, and proves the central
invariants with TLAPS for every instance. Paths below are relative to the
repository; line numbers are in `PROJECT.json` (`map`, `findings`, `hazards`).

## 1. The system

| Part | Code | State | Operations | Talks to |
|---|---|---|---|---|
| Hybrid clock | `src/engine/clock.*` | `max_wall_time_`, `max_logical_`, per-thread batches | `now`, `update`, `reserve_logical`, `ThreadLocalClock::now` | system time |
| Merkle tree | `src/engine/merkle.hpp` | five levels and their dirty flags | `apply_delta`, `get_root_hash`, `get_node_hash` | store, sync manager |
| Shard maps | `src/engine/store.hpp` | 64 maps of blobs | `apply_put`, `apply_patch_*`, `apply_del` | Merkle tree |
| Write-ahead log | `src/engine/wal.hpp` | the file, the conveyor's buffer | `append`, `append_batch`, `recover`, `flush` | libconveyor |
| Engine | `src/engine/store.hpp` | the four above | `put`, `patch_*`, `del`, `apply_mutation`, recovery | all of them |
| Sync manager | `src/engine/sync_manager.hpp` | none of its own but messages | gossip, seven handlers | engine, mesh |
| Mesh | `src/engine/mesh.*` | connections, outboxes | `connect`, `send`, accept loop | sockets |
| Replication log | `src/engine/replication_log.hpp` | bounded queue | `append`, `pop_batch` | nothing: it is never instantiated |
| HTTP server | `src/http/http_server.*` | thread pool, sessions, acceptor | `run`, manager, `stop`, requests | engine, Kalman filter |
| Process | `src/main.cpp` | | start, callback of the mesh, shutdown | all |

What is hard about it: threads of the HTTP server, the mesh and the gossip loop
call the engine at once, and no lock spans the log, the maps and the tree;
batches of timestamps are used long after they were reserved; the system clock
may be set back; a crash takes the buffer of the log and may cut a write short;
rounds of gossip overlap; connections break with frames in the
outbox and are not restored; any thread may take the message that tells a thread to leave; and a
signal must end all of this with the log on disk.

## 2. Modules

| Module | Models | How |
|---|---|---|
| `Timestamps` | `struct Timestamp` | records and their lexicographic order |
| `HybridClock` | the clock | a call under `mx_` is one step; the overflow wait of `now()` and the steps of `ThreadLocalClock::now()` between locks are steps of their own (`pc`, `holder`) |
| `ClockHistory` | | `HybridClock` with history variables: whether time was set back, and what had been merged when each batch was reserved |
| `MerkleTree` | the tree | `get_root_hash` is a step per shard lock and per level; `apply_delta` runs in between |
| `Store` | the shard maps | `Apply` is the part under the shard lock, `Delta` the later call of `apply_delta`; of the tree only its leaves |
| `Storage` | maps and tree together | extends both: `Delta` of a thread is `apply_delta` of the tree, and roots are computed meanwhile |
| `DurableLog` | nothing: the promise | the abstract log of the repository's README |
| `Wal` | the log | file, buffer, recovery and the errors that the code prints and ignores, over abstract records; refines `DurableLog` |
| `WalFile` | the bytes of the log | extends `Wal` with the file: headers, lengths modulo the key width, CRC check, batch encoding, the read loop of `recover()` |
| `Engine` | class `Engine` | composes `Store` and `Wal` by `INSTANCE`; a thread's batch is stamped (or compared), logged, and applied in separate steps |
| `EngineHistory` | | `Engine` with a history variable: what has come between the log and the memory of a key since the latest restart |
| `Channel` | nothing: the promise | what `SyncManager` takes for granted of a connection |
| `Mesh` | the mesh | the connect loop of `main()`, acceptor, strand, outbox, `async_write` calls in progress, from which the socket takes piece by piece, the reader; refines `Channel` |
| `SyncManager` | the protocol | nodes, ordered channels, one handler per message type; `on_get_val` takes two steps, one per locked read |
| `Routing` | sharded mode | a client that follows redirects for a key between nodes with any lists of peers |
| `ThreadPool` | the dynamic pool | threads inside `ioc_.run()`, posted `ThreadExit` handlers (pills), the manager, the end of `run()` |
| `HttpServer` | sessions and the accept loop | extends `ThreadPool`: a request is handled by one of its threads, so a thread leaves only between handlers |
| `Service` | `main()` | extends `HttpServer` with the mesh threads and every step of the shutdown |
| `*_proofs` | | theorems; `Storage_proofs` about `Store`, `MerkleTree` and `Storage`, `Service_proofs` about `ThreadPool`, `Service` and `Routing`, the others about the module of that name |
| `MC*` | | values of the constants for TLC |

How they fit together: `Storage` is `Store` and `MerkleTree`, and is proved to
implement each of them; `Engine` is `Store` and `Wal`; `Service` is
`ThreadPool`, `HttpServer` and the end of the process, with the store reduced to
how many writes it has taken and how many are on disk. `SyncManager` assumes
ordered channels that may break for good, and `Mesh` is shown to be one
(`KeepsOrder`), as long as no handshake mixes with the first frame.

Definitions named `Mutant: ...` are plausible bugs; replacing the definition
that follows by one of them must break the property listed with it in
`PROJECT.json`. They are not part of any specification.

Abstractions. 64-bit hashes are sets of tokens and XOR is symmetric difference,
so distinct contents never collide but equal contents do cancel, as in the code.
FNV-1a over child hashes is an injective constant (`Digest`). In `Wal` a record
is atomic data and a cut write is the token `Torn`, which the CRC always
detects. In `Engine` a write is identified by its timestamp, and field names and
logged payloads are sequences of parts separated by ':'. In `SyncManager`
engine operations are single steps, clocks agree, the tree is represented by
its leaves at the latest `get_root_hash` (inner levels) and now (leaf level).
It takes the mesh to keep the order of messages between two nodes; a connection
may break, loses what is under way, and is never used again. In `WalFile` a cell
is a field or a character, and different records have different CRCs. In `Mesh` a frame is a number, on the wire a header and a body;
two writes in progress on one socket hand over their pieces in any
interleaving. The accept handler is either that of the source, which drops the
socket, or one that starts the receiving half of `Connection` (`OnAccept`): the
source has this half and never starts it, and without that branch nothing could
be said about it. In `HttpServer` a request is what the branches of
`handle_request` tell apart. In `Routing` the hash ring of lite3 is any choice
of owners that is consistent: an owner on a ring stays the owner on the smaller
rings it is on. The threads of `run()`'s join loop are those in `thread_pool_` when it
begins; a reallocation under the loop is undefined behaviour beyond the model.

## 3. Runs

Runs that must pass:

| Run | Shows |
|---|---|
| `clock_orderly` | no timestamp is issued twice; `now()` is later than all issued and all merged ones |
| `storage` | leaves are the XOR of blobs, never-stored objects and deltas under way; clean nodes are exact at all times; a root is that of the leaves as scanned, and of a settled store that of its blobs |
| `wal` | with storage errors and torn writes: `Wal` implements `DurableLog` until a write is cut short; a restart replays records in order and without a gap; wherever a crash cuts a write, the read loop finds in the bytes exactly the operations of the whole records before the cut |
| `engine` | two threads on shared keys, storage errors, torn writes and crashes: key by key, memory is what a restart brings back, shows nothing that is not logged, and holds a value and a timestamp of one write |
| `mesh` | one write of an outbox at a time; the reader meets handshake, headers and bodies in turn; frames arrive in the order posted and once at most; what can be written is written, and an accept error passes (liveness) |
| `sync` | overlapping rounds and a connection that may break: requests stay inside the tree, neither of two nodes goes back to an older put, nodes converge to the latest writes once clients stop (liveness) |
| `routing` | redirects never lead back to a node and end at one that serves (liveness) |
| `server` | threads and sessions are counted right, the pool never empties, requests are answered whatever the manager does, a signal ends the process (liveness), and at the last flush no thread writes and every acknowledged write is on disk |

Most of these hold under a premise. Where a counterexample without it is kept,
it is listed below; the other premises are exceptions that the property itself
makes, or a choice of constants:

- `clock_orderly`: `OrderlySpec`, without the wrap in `update()` and a clock
  step inside the overflow wait.
- `SettledLeaf`: no key of the bucket, and `RootOfMaps`: no key at all, was first
  written by a patch or a delete, whose empty object stays in the leaf.
- `KeepsPromise`: no write was cut short before, and the step itself meets no
  error of the storage (a refused record, a reader that cannot be created, a
  read that fails, a failed flush). The steps after it are not excused.
  `RecoversInOrder` covers torn bytes and errors; only that a restart replays
  all the file held at the one before presumes that it meets no error itself.
- `ReadBack`: no zeros behind the file, and keys shorter than the key width.
- `MemoryIsLog`: until the next restart a key is excepted on which two threads
  have worked at once, of which the log has refused a batch, or that was patched
  under a name with a ':'. `WriteAhead` excepts the last two of these,
  `MetaMatches` the first. What memory is compared with is the log as the next
  restart reads it; behind torn bytes, and after a recovery that met an error,
  it is what the process has read and written itself. The run has no clock that
  is set back and no mutations from the future (`SetBack`, `Drift`), nor a field
  named "ts"; the order of timestamps is the subject of `NewestWins`, which the
  code does not keep (`engine_shared`).
- `NeverOlder`: two nodes. `Converges`: no connection breaks, every lane is
  handed on (as in the callbacks of `test_sync_simulation.cpp` and
  `test_sync_latency.cpp`, unlike that of `main()`), and clients put and delete
  distinct values.
- `Framed`, `KeepsOrder`: the socket takes the four bytes of the handshake
  before any of the first frame, although the two writes may be in progress
  together. `OneWrite` counts the writes of the outbox, and like `Drains` asks
  nothing of a broken connection.
- `QuietShutdown`: no pool thread was started after the join loop of `run()`
  began; and that all is on disk, unless the log has reported an error.
- `Answered`: an accept loop without an error and a process that no exception
  has ended.

Runs in which TLC finds a disagreement between the code and a statement of the
repository (each is a finding in `PROJECT.json` with the quoted line):

| Run | The code |
|---|---|
| `wal_torn` | the writer continues behind torn bytes; what follows is never replayed, against `README.md:30` |
| `engine_shared` | of two writers of a key the one that applies last wins, not the latest one, against `README.md:42` |
| `sync_lanes` | the callback of `main()` drops the lane that carries keys and values, against `README.md:37` |
| `mesh_accept` | an accepted socket is dropped, so no frame is ever received, against `test_phase2.cpp:80` |

Further counterexamples, which are not among the runs of `PROJECT.json`. A
configuration without a remark is kept as a file of its own; otherwise it is
the named one with the changes given here, checked for the property alone
(`tlc -config X.cfg M`, with `MCHybridClock`, `MCEngine`, `MCSyncManager`,
`MCMesh`, `MCService`, `MCWalFile` or `ThreadPool` according to the name):

| Configuration | Violates | The code, against |
|---|---|---|
| `clock_update_wrap` | `NowIsCausal` | `update()` wraps the 32-bit counter, against `test_clock.cpp:34` |
| `clock_batch_causal` | `EveryReturnIsCausal` | a batch is served after a later remote timestamp was merged, against `README.md:35` |
| `clock_step_back` | `ThreadMonotonic` | a thread's timestamps go back when system time returns to that of an open batch, against `test_clock_simple.cpp:29` |
| `clock_reread` | `NowIsLatest` | the overflow wait reads the time again and may get an older one, against `clock.cpp:42` |
| `engine_shared`, `KeysOf <- OwnKeys`, `Drift = 1` | `NewestWins` | the clock does not learn from a mutation's timestamp, so that a later local write is stamped before it, against `geo_replication_plan.txt:83` |
| `engine_shared`, `KeysOf <- OwnKeys`, `SetBack = TRUE` | `NewestWins` | the clock is not restored from the log, so that a restart with system time set back stamps writes before recovered ones, against `README.md:42` |
| `engine_shared`, `KeysOf <- OwnKeys`, `Fields <- TsField` | `NewestWins` | a patch of a field named "ts" overwrites the timestamp of the meta blob, against `README.md:42` |
| `sync`, `ClientOps <- PutPatch` | `Converges` | a patched value is requested and rejected as stale in every round, against `README.md:37` |
| `sync_equal` | `Converges` | two keys with equal values in a bucket cancel in its leaf, against `README.md:41` |
| `sync`, `MaxBreaks = 0` | `TreesAgree` | deleting an absent key leaves a leaf that no other node has, against `README.md:34` |
| `sync_torn` | `NeverOlder` | a put between the two reads of `on_get_val` sends a new value with an old timestamp, against `README.md:42` |
| `mesh_accept`, `PeersOf <- MCMutual` | `Meet` | a peer that is not up when it is dialled is never connected to, against `main.cpp:189` |
| `mesh_accept`, `OnAccept = {"start"}`, `MaxSends = 2` | `Delivers` | the first frame may overtake the handshake on the socket, and the reader is out of step for good, against `test_phase2.cpp:80` |
| `mesh` | `SendsWhenConnected` | `send()` returns true for a broken connection, against `mesh.hpp:47` |
| `pool` | `MainStays` | the main thread takes a pill and leaves `ioc_.run()` without a signal, against `http_server.cpp:506` |
| `server_pill` | `GracefulKeepsWrites` | after the main thread has taken a pill, a pool thread started later is never joined: it can acknowledge a write after the last flush, and the process ends by `std::terminate`, against `README.md:25` |
| `server` | `CloseHonoured` | redirects, errors and pages do not take over the keep-alive of the request |
| `wal`, `KeyWidth = 2` | `ReadBack` | a key longer than 16 bits can count makes its record unreadable, against `README.md:25` |
| `wal`, `MaxZeros = 3` | `ReadBack` | zeros behind the file pass the CRC check of "legacy" records, against `README.md:30` |

Three more configurations hold: `engine_shared` with `KeysOf <- OwnKeys` (a key
that one thread works on, without drift or a clock set back, does not return to
an older write), `pool` (the pool alone, with more threads and pills than
`server` has), and the invariants of `server` under `ServiceSpec` with
`Conns <- MCConns`, `MaxWrites = 2` and `MaxRequired = 3` (two connections).

### Bounds

- Clock: 3 threads, a 32-bit counter that is full at 3, batches of 2, four
  calls, two or three ticks. A batch fits once and the next overflows; a full
  counter, a clock step and a remote timestamp from the future meet.
- Storage: 2 threads, 3 slots in 2 of 16 buckets (fan-out 2, 4 shards), four
  writes: keys that share a bucket and are raced for, created by put, patch and
  delete, before, behind and ahead of the scan of a recomputation.
- Wal: three records (a batch of two operations, a batched delete, a patch), 3
  appends, one error, 3 stops: a torn write at every cell, what is written
  behind it, and another restart.
- Engine: 2 threads, 2 keys with data in one bucket, 2 field names, one with a
  ':', 2 appends, one error, one stop: a second process over all that the first can
  leave behind, torn bytes included. With `MaxStops = 2`, a third process that
  finds records behind torn bytes, the run also passes, in about six minutes.
- Mesh: two nodes, one dials the other (the two directions share nothing but
  the acceptor), 3 frames with and without latency, 2 crashes, an accept error:
  an outbox with a frame in progress and one behind it, and a restart of either
  end.
- Sync: 2 nodes, a key, two writes, a broken connection, a tree of two levels; a new
  round may begin while one message of an older one is under way (`MaxSent`).
  `sync_torn` needs 3 nodes, `sync_equal` 2 keys.
- Routing: 3 nodes, all lists of peers and all consistent owners of a key.
- Server: a connection that sends a write that asks to close, a request that
  throws and one for another node; 2 to 3 threads, every load up to 4 of them,
  a pill in the queue, a mesh thread, a write.

`CHECK_DEADLOCK FALSE` is set where a bound ends the behaviour (clock, mesh,
wal) and for the process, which ends after a signal.

### Fairness

`SyncManager`: delivered messages are handled and calls that began end (weak);
the gossip loop draws one of its peers at random every two seconds, so each
peer is drawn again and again (strong, because `MaxSent` disables it now and
then). Nothing is assumed of clients or breaks, which are bounded.
`Mesh`: the threads of the io_context run every handler that is ready (weak);
the socket takes what it is given, and a write in progress ends, with or without
an error. Nothing is assumed of callers of `send()`, of crashes or of accept errors.
`Service`: started threads run, and handlers that began end (weak); ioc_ hands
out its handlers first in, first out, so one that is ready again and again
is taken (strong: a thread may be busy or the pool shrinking in between).
Nothing is assumed of clients, signals, the manager or the mesh.
`Routing`: nodes answer and the client follows redirects (weak); it need not
ask again.

## 4. Proofs

All proofs are for arbitrary constants that satisfy the named `ASSUME` of the
module; bounds such as `MaxCalls` are arbitrary naturals.

- `HybridClock_proofs` (of `OrderlySpec`, the clock without the wrap in
  `update()` and the clock step inside the overflow wait): `TypeCorrect`,
  `TimestampsAreFresh`, `NowLatest`, `NowCausal`. The invariant adds that every
  issued timestamp and every open batch lies at or below the pair
  (`max_wall_time`, `max_logical`), that open batches are disjoint from each
  other and from issued timestamps, and that only the holder of `mx_` is in the
  overflow wait. `ThreadsGoForward` and `BatchesAreCausal` (of `HistorySpec`)
  add that the latest timestamp of a thread is before the rest of its batch
  while time has not been set back, and that a batch lies above all that had
  been merged when it was reserved.
- `Storage_proofs`, of `StorageSpec`. For the maps (`LeavesFollowMaps`,
  `SettledLeaves`): each step changes the number of sources of a token by an
  even number, or flips its bit. For the tree (`CleanNodesAreExact`,
  `IdleRootCurrent`, `RootIsOfScan`): the invariant relates the phase of a
  recomputation to the levels that are already exact and to the shards scanned
  so far. `StorageIsStore` and `StorageIsTree` show that the composition
  implements `Store` and `MerkleTree`, which carries both invariants over to it
  (`StorageTypeCorrect`); that the two have the same leaves then gives
  `RootFollowsMaps`: the root of a settled store is that of its blobs.
- `Wal_proofs`: `WalTypeCorrect`, `RecoveryInOrder`, and the refinement
  `PromiseKept`: every step without a storage error from a file without torn
  bytes is a step of `DurableLog`, also the stop that tears it. The invariant
  says that file and buffer extend what the latest recovery found in the file
  (`held`) by a front part of what the writer has taken since, and that nothing
  passes torn bytes; what an error loses, it loses from the end.
- `Mesh_proofs`: `TypeCorrect`, `WritesAreSerial`, `FramesAreWhole`. The
  invariant describes what is on the wire and what is still to be handed over
  as one stream: until the handshake is read it is the handshake and then pairs
  of a header and its body; while a body is awaited it begins with that body;
  the handshake is posted to the strand before every frame. The socket takes
  that stream from its front unless the handshake and the first frame mix;
  nothing in the code keeps them from it, so the claim is about the connections
  on which they have not.
- `Service_proofs`. For `ThreadPool`, `PoolTypeCorrect`, `ThreadsAreAccounted`
  and `PoolStaysUp`: the balance `InRun = n_threads + pills` is inductive with
  the bounds on `n_threads`. `ServiceRunsPool` shows that the service implements
  `ThreadPool`, whose theorems therefore hold of it (`PoolServes`);
  `ServiceTypeCorrect`, `SessionsAreCounted` and `ShutdownIsQuiet` rest on an
  invariant that says which threads can be inside a handler, that the join loop
  ends with no thread left unless one was started late, and what each phase of
  the shutdown has already brought to rest. For `Routing`,
  `RedirectsNeverGoBack`, for any number of nodes: the node that is asked owns
  the key on the ring of all nodes asked so far, so that a redirect back would
  give that ring two owners.

Only model-checked: liveness (`Converges`, `TreesAgree`, `Drains`, `Delivers`,
`Answered`, `SignalEndsProcess`, `Served`), which is outside the prover; the
properties of `EngineHistory` and `WalFile` and `KeepsOrder` of `Mesh`, whose replay,
parsing and filtering are folds and recursions over sequences and would need
induction over data; and those of `SyncManager`.

## 5. Not modelled

- Replication log: no object of the class exists in the service, so none of its
  operations belongs to a behaviour of it.
- `Mesh::Connection::do_close` and `on_identified`: never called.
- Kalman filter: floating point; `ThreadPool` allows every predicted load.
- Metrics and dashboard: counters and a page that nothing reads back, except
  the number of connections, which is `active` in `HttpServer`.
- Reading the configuration: configurations are constants or initial states.
- The hash function of the ring, the lite3 buffer and libconveyor: external;
  what they do with malformed buffers is not in this repository.
- `wal_storage.hpp`: system calls without state of its own.
- In `recover()`: a failing `GetFileSizeEx` or writer creation, which throw, so
  that the process does not start; and a failing seek of the new writer
  (`wal.hpp:312`), after which where it writes is up to libconveyor.
- User keys that end in ":meta" and so name the meta blob of another key.
- In `Engine`, an exception between the log and the maps: `Blob::overwrite`
  catches what the JSON parser throws, which leaves memory exhaustion and lite3.
  `HttpServer` has a `put()` that throws when it has logged its write.
- Sharding and gossip together: `main()` starts the `SyncManager` in sharded mode
  too, so that values travel to nodes that do not own them. `Routing` speaks of
  redirects only.
- Exceptions in the handlers of `SyncManager`, which end a mesh thread: they
  come from lite3.
- The vector `thread_pool_` itself: its finished threads, and a reallocation
  under the join loop, which is undefined behaviour.

## 6. Possible extensions

1. `SyncManager` over `Mesh` itself, once the accept handler starts connections.
2. `HybridClock` in `Engine` in place of its single counter.
3. An abstract last-writer-wins register that `Engine` implements for threads
   with a key each.
