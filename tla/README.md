# Verification of RangeVecKV

TLA+ models of RangeVecKV's stateful core, TLC instances that check them, and
theorems about them proved with TLAPS. `PROJECT.json` lists the components, the
runs, the mutants (a plausible bug for every property, which the run must find),
the source lines each definition stands for, the hazards and the theorems.

Paths below are those of the repository (`src/core/...` and so on). Run a check
with `tlc -config X.cfg M`, a proof with `tlapm M_proofs.tla`.

## 1. The system

RangeVecKV is a gateway process that keeps documents in a key-value store and their
embeddings in a vector index. Several processes form a cluster: a consistent-hash
ring says which one owns a key, and etcd or the configuration says which nodes
there are.

| Component | State | Operations | Talks to |
|---|---|---|---|
| `WriteAheadKvStore` (core/kv_store.cpp) | map of records, log file, snapshot file | Put, BatchPut, Delete, Get, MultiGet, Range, FlushSnapshot, Recover | files |
| `RocksDbKvStore` (core/kv_store.cpp) | column families, 4096 key mutexes | the same | RocksDB |
| `VectorIndexOutbox` (gateway/vector_index_outbox.cpp) | pending tasks, their file, a worker thread | Enqueue, DrainOnce, RemovePending, Recover, Start, Stop | embedding service, index, file |
| `InProcessGatewayServer` (gateway/server.cpp) | all services of a node | UpsertDocument, DeleteDocument, PutKvRecord(s), DeleteKvRecord, Get, Range, Search, ApplyMigratedRecord, ReindexDocuments, Start, Stop | everything below it |
| `DataMigrationManager` (gateway/data_migration.cpp) | pending and delayed tasks, their file, a worker thread | TriggerScan, ScanOnce, ProcessDueDeletes, Start, Stop | store, router, other nodes (HTTP) |
| `ConsistentHashRouter` (infra/cluster_routing.cpp) | ring | Rebuild, Route | - |
| `EtcdServiceDiscovery` (infra/etcd_discovery.cpp) | nodes, lease, watch thread | Start, Stop, WatchLoop, ReloadNodes | etcd, router, migration (callback) |
| `ThreadPool` (infra/thread_pool.cpp) | queue, threads | Submit, Shutdown | - |
| `HttpGatewayRuntime` (gateway/http_runtime.cpp), `main` | listening socket, accept thread, pool of handlers | Start, Stop, AcceptLoop, HandleClient | server, authenticator |
| `SemanticSearchService` (gateway/semantic_search_service.cpp) | - | Search, KeywordFallback | the server's pool, index, store |
| `FaissVectorIndex`, `PersistentVectorIndex` (search/vector_index.cpp) | vectors, ids, documents, a buffer before training, snapshot | Upsert, Remove, Search, FlushSnapshot, Recover | files |
| embedding service, configuration, bRPC services, logging, metrics, JSON, authentication | little or none | | |

What is hard about it:

* **Crashes between two writes.** Three files (log and snapshot, outbox, migration
  tasks) are appended to or truncated and written over, never renamed into place.
* **Check, release, act.** The outbox copies a task and indexes it without the
  lock; the migration copies a record, posts it, waits, and deletes later.
* **Retries of what was already done.** Posts whose answers are lost, writes that
  carry a mutation id, a re-indexing beside the worker.
* **Several nodes with different rings**, none of which knows what another thinks.
* **Answers made of two readings.** A search asks the index, releases it and asks the
  store; the discovery lists the nodes and then makes the watcher.
* **Identities that change at a restart**: ids of vectors, column families.
* **Threads that must wake and stop**: workers that poll, a pool that drains, a
  process that stops in a fixed order while requests run.

What makes each part correct: the store never loses an acknowledged write nor goes
back to an older version; the outbox leaves no stored document without an index
entry or a task for one; a record that moves is always somewhere and in the end
only at its owner; the ring settles on the nodes etcd has; the index
keeps the vector of what it knows, and a hit its own score; the pool runs each accepted task
once; every accepted request is answered and Stop ends, as far as embeddings without a
timeout do. The hazards in `PROJECT.json` give the lines where each
of these could go wrong.

## 2. The modules

| Module | Stands for | Extends |
|---|---|---|
| `KvRecord` | records, versions and mutation ids (`ValidateMutation`, `IsDuplicateMutation`), batches, snapshot files and how a write to one is cut | - |
| `DurableMap` | abstract: what a store promises, a map that survives | `KvRecord` |
| `WalStore` | `WriteAheadKvStore` | `KvRecord`, instantiates `DurableMap` |
| `VectorOutbox` | `VectorIndexOutbox` and the server operations around it | `KvRecord` |
| `Migration` | `DataMigrationManager` of every node, the ring each one sees, the posts between them, the clients | `KvRecord` |
| `ThreadPool` | `FallbackThreadPoolBackend` | - |
| `HttpRuntime` | accept thread, handlers, searches that wait for embeddings, Stop and the end of the process | `ThreadPool` (handlers), instantiates it again (embeddings) |
| `ClusterRouting` | `ConsistentHashRouter`: `Rebuild` and `Route` as operators | - |
| `EtcdDiscovery` | `EtcdServiceDiscovery` of one node, the server that starts and stops it, etcd | `ClusterRouting` |
| `RocksStore` | `RocksDbKvStore` used by several threads | `KvRecord`, instantiates `DurableMap` |
| `FaissIndex` | `FaissVectorIndex` | `KvRecord` |
| `SearchService` | `SemanticSearchService`, the pool of embeddings (TBB), the server's operations on documents, `SeedDemoData`, Start, Stop | `RocksStore`, `FaissIndex` |
| `WalStore_proofs`, `VectorOutbox_proofs`, `Migration_proofs`, `ThreadPool_proofs`, `EtcdDiscovery_proofs` | theorems | the module, TLAPS |
| `HttpRuntime_proofs` | theorems about both pools in the process, and its end | `HttpRuntime`, `ThreadPool_proofs` |
| `RocksStore_proofs` | the invariant of the store and the lemmas that its steps keep it | `RocksStore`, TLAPS |
| `SearchService_proofs` | theorems about the service: the store in it, its index, its searches | `SearchService`, `RocksStore_proofs` |
| `MCWalStore`, `MCVectorOutbox`, `MCMigration`, `MCEtcdDiscovery`, `MCSearchService` | values for TLC | the module |

### WalStore

State: `records` is `records_`; `wal` and `snapshot` are the two files, each a
number of whole frames and perhaps a cut last one; `status` says whether a process
serves the store. `allowed` is the observer's: for each key the values a restart
may show, given what was acknowledged and what was under way when the process ended.

Every operation holds the store's one mutex, so it is one step. `Put`, `Delete`,
`BatchPut`, `FlushSnapshot` have a second outcome in which the process ends in the
middle of the write, with any whole frames and possibly part of the next one in
the file (`CutWrites`). `Recover` replays snapshot and log, `FailedStart` is a
`Recover` that returns an error, after which `main` exits and **the destructor of
the failed store flushes what it had read** - a torn snapshot heals this way, and
only because no flush ever shortens the log. The old text formats are the logs and
snapshots of a first start (`StartLogs`, `StartSnapshots`); the log's first append
rewrites it, as `AppendWalLocked` does.

A record has a version, a mutation id and a payload. Strings, metadata and the
bytes of a frame are left out; so is the order of keys in `Range`, which changes
nothing. Faults are one kind at a time (`Fault`): files that cannot be opened, or
the end of the process in the middle of a write.

Also in the model but claimed by no property, since no document speaks of it: a
torn *log* fails every later start. Not in the model: a full disk (the stream's
state is never looked at), a machine that stops (nothing is ever fsynced), a crash
during the one-time rewrite of a text log.

### VectorOutbox

State: `records` of the KV store, `index` in memory and `snapshot` (what the index
flushed at its last orderly stop), `pending` and its file `tasks`, and for each
thread (requests, the outbox worker, the main thread that stops or re-indexes)
where it is. A step is what a thread does between two acquisitions of a lock:
`UpsertDocument` puts, then enqueues; `DrainOnce` is `List`, then for each key
`Take`, `Index` (no lock held: the embedding) and `Settle`; `DeleteDocument`
removes the task, the record and the entry in three steps. `Stop` drains, joins the
worker and flushes. `ReindexDocuments` runs on the main thread of a process of its
own (`--reindex`) with the worker beside it.

The store is taken to be durable here (that is WalStore's subject). The index is a
map from keys to documents: what the brute-force index does, and a flat FAISS index from a
caller's side (of a trained one see FaissIndex). Searches and the seeding of demo data are SearchService's.
A torn
outbox file fails every later start, as in the code (`Recover` returns the error).

### Migration

State: for every node its store `kv`, the ring it sees (`view`, an index into `Rings`),
its pending and delayed tasks, their file, and its worker; on the wire the posts;
the requests clients have under way. `ScanOnce` is `Wake`, `ScanNext`, `List` (a page
of 500 records is copied), `Take`, the post, and `Settle`; `ProcessDueDeletes`
is `TakeDue`, `Recheck`, `Erase`, `EndDeletes`. `Deliver` is `ApplyMigratedRecord`
at the target: it stores the record whether or not the node owns the key. A post
may be lost, its answer may be lost, or it may arrive when its sender has given up.
`Persist` writes the task file and may be cut or fail.

Assumed, by name: `DelayOver` - `migration.delete_delay_ms` is longer than the
time for which a request stays routed by an old ring and than a node needs to
reload a ring. Without it records are lost with a single change of the ring.
Bounded by name: `MaxWrites`, `MaxFailures` (all faults together), `MaxRetries`.
The target's own enqueueing to its outbox is VectorOutbox's subject.

TLC shows that the documented claim ("delayed delete after rechecking owner") is a
claim about *one* change of the ring and *one* version of a record; the runs that
pass are instances of that; `migration_twice` and MigrationDelete.cfg show what
happens outside of it.

### ThreadPool and HttpRuntime

`ThreadPool`: a step is what a thread does with the mutex held, one call of notify,
or the end of a task. `condition_.wait` may return for no reason (`WakeUnasked`).
`signals` are the accepted tasks whose submitter has yet to call `notify_one`, which
it does after it has released the mutex.

`HttpRuntime`: connections pass from the kernel's queue to the accept thread, to
the pool, and to a handler that answers at once, or submits a search to the server's
own pool and waits `ai_timeout_ms` for it (`AnswerSearch` may happen at any time), or
puts a document, whether a client's or one that migrates, and **drains the outbox itself**
before it answers (`Drain`, `EndDrain`): `DrainOnce` embeds every task that waits, with no
timeout. An embedding may take for ever. What `Submit` returns is not looked at, so that a
connection the full pool refuses stays open; a handler that throws leaves its
connection open too (`Throw`). The main thread goes through `Stop` and the
destructors, of which the pool of embeddings is the last.

The TBB backend of the pool, which counts running tasks against its capacity and
runs them on TBB's threads, is in SearchService (`PoolRefuses`, `TaskLeaves`).
Not modelled: parsing, bRPC's server, the reuse of the listening socket's number by
another file while the accept thread still has it.

### ClusterRouting and EtcdDiscovery

`ClusterRouting` has no state: the ring of a set of members is the set of the members'
points, `Route` the first nodes met from a slot's place on. The hashes of virtual nodes
and of slots are constants (`Position`, `SlotPosition`), those of two points distinct. Node ids are
distinct: of an id that `cluster.nodes` names twice the second node is never met by the
walk of `Route`, which then does not end.

`EtcdDiscovery`: `keys` are the nodes etcd has, `ring` those the router's ring was built
from. Three threads - the server's (`main`), the watch thread (`watch`), the watcher's
callback - each list and rebuild; the list and the rebuild are two steps. `watcher` is
the stream with the `events` it has still to report, `mutex` is `client_mutex_`,
`degraded` and `keepalive_error` are the parts of the status that outlive a step.
`SetStopping`, `LookForWatcher`, `CancelWatcher`, `RevokeLease`, `JoinWatchThread` are
the steps of `Stop`: **the look for a watcher is made without the mutex**, so a watcher
stored just after it is overlooked, and one reset just after it is called through a null
pointer (`main = "crashed"`). `RegisterFails` is a start without etcd, after which the
server lets the discovery go and keeps its static ring for good. A lease that could not
be kept alive is never taken again (`LeaseExpires`, and nobody registers).

`missed` is the observer's: a change fell between a list and its watcher, or the list
for it failed. The code never lists again by itself; `RingSettles` says that these are
the only ways for a ring to stay wrong.

Left out: the text of a node's value (`Unreadable` nodes fail to parse), the last error's
message and the counters, the time of a backoff.

### RocksStore, FaissIndex and SearchService

`RocksStore`: a call of the store is `lock` (stripe after stripe, in their order), `read`
(record after record: the family is made, the stored record compared) and `write` (one
WriteBatch), or `erase`; `fresh` are the records of a batch that are not repetitions.
Reads lock nothing. `MultiGet` groups the references by collection and leaves out what
is not found. RocksDB is external: a map whose calls are atomic, durable once they have
returned, and may fail (`Fail`). `families` and `opened` are the column families there
are and those there is a handle for.

`FaissIndex`: an operation holds the index's one mutex and is one step. The index is a set
of vectors, each known by its id and the document it was made from, and of a kind. Of a
*flat* index it is taken that a search compares all its vectors and a removal takes one out.
A *trained* one (IVF) is searched in `nprobe` of its lists, so that any part of its vectors
may be what a search sees (`Visited`). FAISS itself is external, and what `remove_ids` does
to an `IndexIDMap2` over an `IndexIVFFlat` is taken with caution: the table of ids is closed
up while the lists keep their places in it, so that from the first removal on (*shifted*)
the other vectors may answer to any id (`Labels`) and a later removal may take out any of
them (`Without`). The order of scores is any order (`Rankings`), so that a result is any
selection of the nearest `Oversampling * TopK`. `BufferOrTrain` is the IVF path, whose
training may fail and leave the flat index. `FlushSnapshot` is two steps, one for each
file, and the process may end between them.

`SearchService` composes them: a request is `UpsertDocument` (put, enqueue,
then `DrainOnce`: `ListTasks`, and for each key `TakeTask` and `IndexTask`),
`DeleteDocument` (task, record, vector), `PutKvRecords`, `DeleteKvRecord` or `Search`. A
search submits its embedding to the pool, which may refuse it, waits for it or gives up
(`Timeout`), asks the index, and **looks the references up in the store afterwards**,
where documents may have come and gone. The outbox is a map on disk here, drained by
the requests and, key by key at any time, by its own thread; its files and races are VectorOutbox's. `phase`
is the process: Start
with `SeedDemoData` in its four parts, Stop, the destruction that waits for the pool, and
a crash at any point.

Left out: routing and migration of what is written (Migration's), the ranking of the
fallback (every document has the words), filters, snippets.

## 3. The runs

| Run | Checks | Instance |
|---|---|---|
| `wal_fresh` | `TypeOK`, `DurableAck`, `MemoryIsDisk`, `LogAloneSuffices`, `VersionNeverRegresses`, `ImplementsDurableMap` (refinement), `TornSnapshotHeals` (liveness) | 2 keys, 2 versions, a log of 2 frames, the process ends in any write |
| `wal_open_fails` | `DurableAck` | 2 keys, versions 0-2, files that cannot be opened, log of 3 |
| `wal_retry` (violation) | `RetryIsApplied` | a failed append, retried with the same mutation id |
| `outbox_upserts` | `TypeOK`, `UpsertedIsFindable`, `TasksOnDisk`, `ReindexRepairs` | 2 keys, 2 versions, 2 requests, worker, failing embeddings, stops, re-indexing; 3 operations |
| `outbox_faults` | `TasksAreWorkedOff` (liveness) | 1 key, every operation and fault, one crash |
| `outbox_lost_update` (violation) | `QuietIndexIsCurrent` | two versions of one document, no fault |
| `migration_moves` | `TypeOK`, `NewestIsKept`, `OnlyAtOwner` (liveness) | 2 nodes, 1 key, the ring changes once, a put and a delete, all faults, 2 of them |
| `migration_twice` (violation) | `NewestIsKept` | 3 nodes, two changes of the ring, one put, no fault |
| `http_runtime` | `TypeOK`, `EachTaskIsSomewhere`, `NoneLost`, `NoLostWakeup`, `RequestsEndBeforeStop`, `NoneTurnedAwayByStop`, `AcceptedIsAnswered`, `StopGetsThrough` (the last two liveness) | 3 connections, 2 handlers, a queue of 2, 1 embedder with a queue of 1 |
| `discovery` | `TypeOK`, `LeaseTroubleStaysVisible`, `StoppedIsQuiet`, `SlotsMoveOnlyWithNodes` (action property), `RingSettles`, `StopEnds` (liveness) | 4 nodes, one of them unreadable, 3 changes by others, 2 faults; 2 points a node, 4 slots, 2 replicas |
| `retrieval` | `TypeOK`, `KnownIsKept`, `ScoresAreOwn`, `StoredIsReadable`, `ImplementsDurableMap` (refinement), `RequestsEnd` (liveness) | 2 clients, 3 keys in 2 collections on 2 stripes, batches that cross, demo data of 2 documents, 2 requests, 2 starts, a pool of 1, training at 2 vectors |
| `index_restart` (violation) | `FlushKeepsAnswers` | text metadata with a gap between its ids |

Why the bounds are enough for the interesting cases:

* *Log of 2 frames*: a write and a later write or delete of the same key, a batch of
  two with every cut, a single-record batch on a stored record. Nothing in the code
  looks at more than the last frame of a key. The theorems cover every length.
* *Outbox*: the races are between one drain and one request or between two drains of
  a key; three operations allow a new document, its update and a stop or a
  re-indexing. Two keys let one task be lost in the rewrite for another.
* *Migration*: one change of the ring is the documented case. Two faults allow a
  lost answer and a crash of either side in one move; two retries let a task be
  dropped and found again.
* *HTTP*: a queue of two and three connections make the pool refuse one; two threads
  are what a lost wakeup needs; one embedder with a queue of one refuses the third.

* *Discovery*: one change can fall between a list and its watcher and one while a list
  is being applied; two faults allow a broken watch and a lost lease, or a failing list
  after a broken watch. What a slot does depends on the members before and after only.
* *Retrieval*: two batches over the same two keys on two stripes are what a deadlock or
  a lost update needs; a third key in the other collection makes MultiGet's grouping
  matter; the demo data is there before the two requests, so that with a search and a delete
  a document is gone between the index's answer and the look-up, and with an upsert and a
  search the trained index is searched after a removal; a request's drain may meet the tasks
  of the demo data and those of the other client. Two starts let families be opened again.
  Training happens at the second vector.

Deadlock is not checked where the system may really stop (a bound on operations is
reached with the process down, the process has exited).

### What the violations say

1. `wal_retry`: README.md:318 calls repeated mutation ids idempotent. A put whose
   append failed stays in memory, and its retry is acknowledged without a write.
2. `outbox_lost_update`: a drain erases its key's task by key, not by what it
   indexed, so that a newer document is left without entry or task.
3. `migration_twice`: the delayed delete asks only whether *this* node owns the key
   again, not whether the node it posted to still has the record.
4. `index_restart`: README.md:380 promises that older text formats stay readable and are
   rewritten by the next flush. The rewritten metadata has no ids and the next start
   numbers its documents anew, while the vectors keep theirs: a document changes its
   vector or has none. The same comes of new metadata after any removal or second upsert.

Three more configurations are not among the runs of `PROJECT.json`, since they show once
more what a run above shows; each ends with a counterexample: WalStoreUpgradeDelete.cfg
(`RewriteKeepsMeaning`: the rewrite of a text log drops the deletes the snapshot's
records need, and a deleted record returns), VectorOutboxDelete.cfg
(`DeletedIsNotIndexed`: a drain indexes a document deleted meanwhile) and
MigrationDelete.cfg (`DeletedStaysDeleted`: until its delayed delete the old owner posts
its copy again at every scan and so brings back what a client deleted at the new owner).

### Fairness

* `WalStore`: `WF(Recover)`, `WF(FailedStart)` - the process is restarted
  (docker-compose's restart policy). No operation is ever owed.
* `VectorOutbox`: steps of threads are weakly fair (the worker polls every second);
  `Index` is strongly fair: an embedding that is tried again and again succeeds
  at last. Crashes are bounded by `MaxCrashes`.
* `Migration`: steps of a node that is up, its restart and the reload of its ring
  are weakly fair; `TakeDue` is strongly fair since due deletes are looked for in
  every cycle; posts a worker waits for are answered or fail (an assumption: the code
  sets no timeout on the exchange).
* `HttpRuntime`: threads are scheduled; a client sends its request or goes away (an
  assumption: the code sets no timeout on `recv`); notifications are made. **No**
  fairness for embeddings. A search has its timeout, so that `AcceptedIsAnswered` and
  `StopGetsThrough` hold even when no search's embedding ever ends. A drain within a request
  has none (server.cpp:253, 433): they claim that a connection is answered unless its own
  drain never ends or every thread of the pool is in one for ever, and that Stop
  gets through if no drain stays for ever (`DrainEnds`, `SomeThreadDrainsNot`). Nothing is claimed about
  the exit of the process, which joins the embeddings. No fairness either for spurious wakeups or for SIGTERM.
* `EtcdDiscovery`: the three threads are scheduled, calls of etcd return (the client has a
  timeout) and a watcher that is up reports changes. Nothing makes anyone stop the node,
  other nodes change, or a watch break: a watcher that is overlooked may stay for ever.
* `SearchService`: the next step of a client's request, weakly fair for each client. A
  mutex could be taken before a waiting thread for ever; the bound on requests stands
  for the fairness of `std::mutex`, which the code takes for granted. A search's timeout
  comes; no embedding need end, no start, stop or drain by the outbox's thread need happen.
  `RequestsEnd` excepts the request that stays at an embedding of its own drain for ever.

## 4. The theorems

All theorems hold for every value of the constants allowed by the named assumptions
(`KvRecordAssumption`, `WalStoreAssumption`, ..., which TLC evaluates in the runs).

**WalStore_proofs.** `TypeCorrect`: types. `FreshDurable`, `FreshImplements`,
`FreshVersions`: on a store that started without files and can open them, durability,
the refinement of `DurableMap`, and versions that never regress. The inductive invariant
is `IInv == TypeOK /\ LogHoldsAll /\ TextLogIsEmpty /\ MemoryIsDisk /\ DurableAck`.
`DurableAck` alone is not inductive: a flush writes memory, so that memory must be
known to be what the files say (`MemoryIsDisk`), and a snapshot may be torn or cut at
any time, so that the log must be known to have a frame for every key the
snapshot has a record for (`LogHoldsAll`, from which `LogAloneSuffices` follows). That
such a log is never in the text format (`TextLogIsEmpty`) keeps the rewrite, which drops
frames, out. `FreshMemory` and `FreshLog` are its parts as properties. The lemmas on `Replay` and
`LastTouch` replace an induction over the log
by the definition of the last frame of a key. The refinement maps the abstract map to
`Disk`, what a restart would find.

The model replays by the last frame of each key, the code frame by frame. That the two agree
for a log of any length is no property of the code, but what makes the model's shorthand
safe: the lemmas `OneFrame` and `FrameByFrame` say it (with the least frame at which the loop
would differ in place of an induction, which is out of the provers' reach).

`BlindDurable`: with files that cannot be opened as the fault, a store serves without its
log or its snapshot, keeps writes in memory that it refused, and may flush memory over a
snapshot it never read. `MemoryIsDisk` is false there. The invariant `BlindInv` says
instead that the log, replayed over whatever may come to lie under it - the snapshot, nothing,
or memory - gives a permitted value to each key. It needs a store without mutation ids:
the retry that is acknowledged without a frame (`wal_retry`) is what breaks it.

**VectorOutbox_proofs.** `OutboxTypeCorrect` for every operation and fault.
`DocumentsStayFindable`: with upserts, stops, starts and re-indexing, and embeddings as
the only fault, every stored document has an index entry, a task on disk or a request
about to enqueue it. The invariant adds to the property that no file is torn, that the
file of tasks is the memory of a running process (`TasksOnDisk`) and where each thread
may be in each mode (`CallsInOrder`): a stop flushes the index, so no entry whose task
is gone may be made after it.

`ReindexingRepairs`: for every operation and fault, when a re-indexing is done each stored
record is in the snapshot. While it runs no request is served, and each stored record is
in the index or still to be copied (`CopyKept`): the worker beside it removes no entry. `FileFollowsMemory`:
the tasks of a
running process are those of its file, for every operation, crash and cut file, as long as
the file can be opened; it rests on the types and on where threads may be in each mode.

**ThreadPool_proofs.** `PoolTypeCorrect`, `NoTaskLostOrDoubled`, `ShutdownRunsAll`,
`WakeupsSuffice`, for any number of submitters, threads and tasks, any capacity, and a
shutdown at any time. The inductive invariant `PoolInv` adds to the property that a
thread leaves only a pool that stops with an empty queue (`GoneOnlyWhenEmpty`), from
which `ShutdownRunsAll` follows since there is a thread. `NoLostWakeup` is
inductive beside it: each step changes the length of the queue, the notifications to
come and the threads awake by amounts that keep the inequality, counted with the
library's facts on finite sets.

**HttpRuntime_proofs.** `RuntimeUsesPool`: whatever the process does, its handlers' pool
takes a step of `ThreadPool` or none, so that what is proved of that pool holds in the
process (`RuntimeLosesNoTask`, `RuntimeWakesEnough`). `RequestsEndFirst` and
`StopTurnsNoneAway`: no handler, waiting search or queued connection is left when the
server is stopped, and Stop never makes the pool refuse what accept has taken. The
invariant `RuntimeInv` adds to the pool's that a search that waits for an embedding is with
a thread of the pool (`WaitingSearchesRun`) and what is true at each step of Stop
(`StopsInOrder`); the server's own pool of embeddings appears nowhere in it.
`RuntimeUsesEmbedPool`: that pool too takes a step of `ThreadPool` or none, whatever
handlers, searches and destructors do. `RuntimeTypeCorrect`: the types of both pools; the
second is an instance, of which nothing proved about the module can be cited, so that
its types are proved once more from what they need alone (`EmbedInv`, `HttpRuntimeAssumption`).

**Migration_proofs.** `MigrationTypeCorrect`: for any number of nodes, keys, changes of the
ring and faults. The types are not inductive: a worker that settles a task must find
it, which is so because only the worker takes tasks away (`WorkersSound`) and because the post
whose answer it awaits is the one it sent (`OnePost`). `OneMoveKeepsACopy`: with one change of
the ring and clients that only put (`OneChange`), an acknowledged record is always at some
node. The invariant `CopyInv` says that copies are with the old and the new owner only; that
a copy of the old owner that is marked for its delayed delete - in memory, in the file, in the
worker's hands - has a copy at the new owner; and that a node whose worker deletes what is due
routes by the new ring, so that the recheck of the owner spares the new owner's copy. `OnlySentIsStored`: in
every case, whatever a node
stores is a record a client sent (`SentInv`). From the two, `OneMoveKeepsNewest`: `NewestIsKept`
for one change, puts, and records of one version. That is as far as it is true in general:
with a put and a delete of several writes, or with two versions, a request still routed by the old
ring can leave the older record last, even with one change. `migration_moves` checks a put
and a delete on its instance.

**EtcdDiscovery_proofs.** `SlotsStay`: for any hash, any number of points, nodes and
replicas, a node that stays a member loses a slot only to one that joined. Nodes are met
in the order of their first points, which does not depend on who the members are, so of
those met before it the first that joined has the slot (`LostToANewNode`, with the
library's well-founded minimum in place of an induction along the ring).
`LeaseTroubleStays`, `StopLeavesQuiet`, `DiscoveryTypeCorrect`: for any number of changes
and faults. The invariant `DiscoveryInv` adds where the watch thread may be while a
watcher or its callback exists (`NotYetWatching`, `OnlyWhileWaiting`), that a thread Stop
has joined is gone (`JoinedIsGone`), and that there are no more events to report than
changes were made, counting the loss of the own lease (`EventsAreChanges`), which bounds
the watcher's queue.

**RocksStore_proofs, SearchService_proofs.** `StoreImplementsMap`: whatever other threads
do between the reads of a batch and its write, each batch takes effect as a batch of
`DurableMap`. The invariant `StoreInv` says that a call that reads or writes holds the
stripes of *all* its keys and that what it found of the records it has read is still true
of the store (`Checked`): only a holder of a key's stripe writes the key (`WriteOwn`), so
another call's write leaves it true. `StoredStaysReadable`: every key's family is there
and, while the process runs, open; a call holds stripes only while the process runs, so
that a start finds nobody in a call. SeedDemoData writes without having read: its batch is
admitted because it finds the collection empty, which is why the theorem needs the demo
documents to be of one collection (`SearchAssumption`). `StoreTypeCorrect`: the store's
variables.

`SearchTypeCorrect`: the index, the requests, the pool and the process as well; ids stay
below the next to be taken, the buffer below its threshold, the tasks in the pool within its
capacity. `HitsKeepTheirScores`: as long as none of a search's documents is gone at the
look-up, each hit has its own score, since the references are of one collection and `MultiGet`
keeps their order; a subsequence as long as the whole is the whole. The invariant is
`SearchInv`. `KnownIsKeptAlways`: until the second start keys and ids name each other,
and the vector of every known document is in the index or its buffer under its id, as long as
none was taken out of a trained index. The invariant `Known` adds that an index still to be
trained is flat and empty, so that training loses nothing. It assumes that old files are of
one flush (`OldFilesAgree`; `index_restart` shows what other files do). These proofs need the constants to be of
their kinds (`FaissAssumption`) and clients to be finitely many.

Only model-checked: liveness under fairness, which the prover does not reach
(`TornSnapshotHeals`, `TasksAreWorkedOff`, `OnlyAtOwner`, `AcceptedIsAnswered`, `StopGetsThrough`,
`RingSettles`, `StopEnds`, `RequestsEnd`); `NewestIsKept` with a delete among the writes; and what the
violations show. Every other property of a passing run is stated by a theorem, under
the hypotheses named above.

## 5. Plan

Modelled so far, in this order; each *Left* is still to be done.

1. `KvRecord`, `DurableMap`, `WalStore` - the promise everything else builds on.
2. `VectorOutbox` - documents and their index entries.
3. `Migration` - several nodes.
4. `ThreadPool`, `HttpRuntime` - threads and the end of the process.
5. `ClusterRouting`, `EtcdDiscovery` - the ring, and the list of nodes it is made from.
6. `RocksStore` - stripes, batches, column families; implements `DurableMap`.
7. `FaissIndex` - ids, the buffer before training, recovery. *Left*: an abstract map from
   keys to vectors, which `VectorOutbox` assumes and the flat index implements.
8. `SearchService` - the two of them under requests, restarts and timeouts.
9. *Left*: the gateway's life cycle (a start that fails half-way, one-shot modes beside a
   server on the same files) and the fixed-window limiter.

## 6. Not modelled

Configuration parsing, authentication, JSON and HTTP syntax, logging and metrics,
tokenising and ONNX inference: input, output and numerical code with no state that a
later step reads. bRPC's server and RocksDB itself are libraries. The benchmark and
the scripts are clients.
