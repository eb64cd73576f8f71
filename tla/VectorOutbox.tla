---------------------------- MODULE VectorOutbox ----------------------------
(***************************************************************************)
(* One gateway node as its semantic documents see it: the KV store, the    *)
(* outbox of documents still to be indexed (src/gateway/                   *)
(* vector_index_outbox.cpp), the vector index, and the threads that work   *)
(* on them: the requests' threads (src/gateway/server.cpp), the outbox     *)
(* worker and the main thread, which stops or re-indexes the node.  Each   *)
(* of the three parts has a mutex of its own, held for one call; a step is *)
(* what happens under one lock.  The store is the durable map that         *)
(* WalStore is shown to implement; the index lives in memory and reaches   *)
(* its snapshot when the node stops.                                       *)
(***************************************************************************)
EXTENDS KvRecord

CONSTANTS
    Requests,    \* threads that serve requests
    Worker,      \* the outbox worker
    Main,        \* the main thread
    Sent,        \* the records clients send
    Operations,  \* what clients and the operator do in this instance
    Faults,      \* what may fail: "embed", an embedding; "open", rewriting the outbox
                 \* file; "crash", the process; "cut", the process during a write
    MaxOps,      \* bound on the operations begun
    MaxCrashes   \* bound on the crashes

Threads == Requests \cup {Worker, Main}

ASSUME VectorOutboxAssumption ==
    /\ Worker \notin Requests /\ Main \notin Requests /\ Worker # Main
    /\ Sent \subseteq Record
    /\ Operations \subseteq {"upsert", "delete", "put", "erase", "stop", "reindex"}
    /\ Faults \subseteq {"embed", "open", "crash", "cut"}
    /\ MaxOps \in Nat /\ MaxCrashes \in Nat

VARIABLES
    kv,        \* the store, which survives a crash
    pending,   \* pending_: the documents to be indexed
    tasks,     \* the outbox file
    index,     \* the vector index: the document each vector was made from
    snapshot,  \* the snapshot file of the index
    mode,      \* what the process is doing
    thread,    \* where each thread is, and its local variables
    ops,       \* operations begun
    crashes    \* crashes so far

files == <<tasks, snapshot>>
vars == <<kv, pending, tasks, index, snapshot, mode, thread, ops, crashes>>

Stages == {"idle", "enqueue", "list", "take", "index", "settle", "erase", "unindex",
           "join", "copy"}

\* key and record of the call in progress, the keys DrainOnce or a page has left to visit
ThreadState == [at : Stages, key : Keys, record : Value, todo : SUBSET Keys]

Idle == [at |-> "idle", key |-> 1, record |-> Absent, todo |-> {}]

TypeOK ==
    /\ kv \in [Keys -> Value]
    /\ pending \in [Keys -> Value]
    /\ tasks \in SnapshotFile
    /\ index \in [Keys -> Value]
    /\ snapshot \in SnapshotFile
    /\ mode \in {"down", "serving", "reindexing", "stopping"}
    /\ thread \in [Threads -> ThreadState]
    /\ \A t \in Threads : thread[t].at \in {"enqueue", "index"} => thread[t].record # Absent
    /\ ops \in 0..MaxOps
    /\ crashes \in 0..MaxCrashes

At(t, stage) == thread[t].at = stage

Become(t, state) == thread' = [thread EXCEPT ![t] = state]

\* A client's or the operator's operation begins on thread t.
Begin(t, operation) ==
    /\ operation \in Operations
    /\ mode = "serving"
    /\ At(t, "idle")
    /\ ops < MaxOps
    /\ ops' = ops + 1

-----------------------------------------------------------------------------
\* RewriteLocked: the outbox file is written over with what is now pending.
Rewrite(map) == tasks' = WholeSnapshot(map)

\* pending_ changes and the file follows; or the file cannot be opened and does not,
\* in which case the caller gets an error and the thread goes on as fails says.
SetPending(map, t, succeeds, fails) ==
    /\ pending' = map
    /\ \/ Rewrite(map) /\ Become(t, succeeds)
       \/ "open" \in Faults /\ UNCHANGED tasks /\ Become(t, fails)

Without(map, k) == [map EXCEPT ![k] = Absent]

\* UpsertDocument, up to the store: a record that repeats a mutation goes on to the
\* outbox all the same; one that is refused ends the request with nothing changed.
Upsert(t, k, r) ==
    /\ Begin(t, "upsert")
    /\ ~ Rejects(kv[k], r)
    /\ kv' = IF Ignores(kv[k], r) THEN kv ELSE [kv EXCEPT ![k] = r]
    /\ Become(t, [at |-> "enqueue", key |-> k, record |-> r, todo |-> {}])
    /\ UNCHANGED <<pending, index, files, mode, crashes>>

\* Mutant: the document becomes pending and the file is left to the next rewrite.
EnqueueInMemory(t) ==
    /\ At(t, "enqueue")
    /\ pending' = [pending EXCEPT ![thread[t].key] = thread[t].record]
    /\ Become(t, [Idle EXCEPT !.at = "list"])
    /\ UNCHANGED <<kv, index, files, mode, ops, crashes>>

Enqueue(t) ==
    /\ At(t, "enqueue")
    /\ SetPending([pending EXCEPT ![thread[t].key] = thread[t].record], t,
                  [Idle EXCEPT !.at = "list"], Idle)
    /\ UNCHANGED <<kv, index, snapshot, mode, ops, crashes>>

\* DeleteDocument: the pending task, then the store, then the index.
Delete(t, k) ==
    /\ Begin(t, "delete")
    /\ SetPending(Without(pending, k), t,
                  [Idle EXCEPT !.at = "erase", !.key = k], Idle)
    /\ UNCHANGED <<kv, index, snapshot, mode, crashes>>

Erase(t) ==
    /\ At(t, "erase")
    /\ kv' = Without(kv, thread[t].key)
    /\ Become(t, [thread[t] EXCEPT !.at = "unindex"])
    /\ UNCHANGED <<pending, index, files, mode, ops, crashes>>

Unindex(t) ==
    /\ At(t, "unindex")
    /\ index' = Without(index, thread[t].key)
    /\ Become(t, Idle)
    /\ UNCHANGED <<kv, pending, files, mode, ops, crashes>>

\* PutKvRecord and DeleteKvRecord touch the store only.
PutKv(t, k, r) ==
    /\ Begin(t, "put")
    /\ Replaces(kv[k], r)
    /\ kv' = [kv EXCEPT ![k] = r]
    /\ UNCHANGED <<pending, index, files, mode, thread, crashes>>

EraseKv(t, k) ==
    /\ Begin(t, "erase")
    /\ kv[k] # Absent
    /\ kv' = Without(kv, k)
    /\ UNCHANGED <<pending, index, files, mode, thread, crashes>>

-----------------------------------------------------------------------------
(***************************************************************************)
(* DrainOnce, run by a request after its Enqueue, by the worker, and by    *)
(* the main thread when it stops the node.                                 *)
(***************************************************************************)
AfterDrain(t) == IF t = Main THEN [Idle EXCEPT !.at = "join"] ELSE Idle

\* Mutant: the worker waits to be notified and does not poll.
WakeNotified ==
    /\ mode # "down"
    /\ At(Worker, "idle")
    /\ ~ At(Main, "join")
    /\ \E t \in Requests : At(t, "list")
    /\ Become(Worker, [Idle EXCEPT !.at = "list"])
    /\ UNCHANGED <<kv, pending, index, files, mode, ops, crashes>>

\* WorkerLoop, unless Stop has told it to return.
Wake ==
    /\ mode # "down"
    /\ At(Worker, "idle")
    /\ ~ At(Main, "join")
    /\ pending # Nothing
    /\ Become(Worker, [Idle EXCEPT !.at = "list"])
    /\ UNCHANGED <<kv, pending, index, files, mode, ops, crashes>>

List(t) ==
    /\ At(t, "list")
    /\ Become(t, [Idle EXCEPT !.at = "take", !.todo = Stored(pending)])
    /\ UNCHANGED <<kv, pending, index, files, mode, ops, crashes>>

\* Mutant: the listed key is taken to be still pending.
TakeUnchecked(t) ==
    /\ At(t, "take")
    /\ \E k \in First(thread[t].todo) :
          Become(t, [at |-> "index", key |-> k, record |-> pending[k],
                     todo |-> thread[t].todo \ {k}])
    /\ UNCHANGED <<kv, pending, index, files, mode, ops, crashes>>

\* The next listed key, if it is still pending.
Take(t) ==
    /\ At(t, "take")
    /\ \E k \in First(thread[t].todo) :
          Become(t, IF pending[k] = Absent
                    THEN [thread[t] EXCEPT !.todo = @ \ {k}]
                    ELSE [at |-> "index", key |-> k, record |-> pending[k],
                          todo |-> thread[t].todo \ {k}])
    /\ UNCHANGED <<kv, pending, index, files, mode, ops, crashes>>

\* IndexRecord, with no lock of the outbox held.
Index(t) ==
    /\ At(t, "index")
    /\ index' = [index EXCEPT ![thread[t].key] = thread[t].record]
    /\ Become(t, [thread[t] EXCEPT !.at = "settle"])
    /\ UNCHANGED <<kv, pending, files, mode, ops, crashes>>

\* Mutant: a document that could not be embedded is dropped.
FailToIndexDrops(t) ==
    /\ "embed" \in Faults
    /\ At(t, "index")
    /\ SetPending(Without(pending, thread[t].key), t,
                  [Idle EXCEPT !.at = "take", !.todo = thread[t].todo], AfterDrain(t))
    /\ UNCHANGED <<kv, index, snapshot, mode, ops, crashes>>

FailToIndex(t) ==
    /\ "embed" \in Faults
    /\ At(t, "index")
    /\ Become(t, [Idle EXCEPT !.at = "take", !.todo = thread[t].todo])
    /\ UNCHANGED <<kv, pending, index, files, mode, ops, crashes>>

\* The key's task is erased, whatever document it is for by now; a rewrite that fails
\* ends the drain.
Settle(t) ==
    /\ At(t, "settle")
    /\ SetPending(Without(pending, thread[t].key), t,
                  [Idle EXCEPT !.at = "take", !.todo = thread[t].todo], AfterDrain(t))
    /\ UNCHANGED <<kv, index, snapshot, mode, ops, crashes>>

EndDrain(t) ==
    /\ At(t, "take")
    /\ thread[t].todo = {}
    /\ Become(t, AfterDrain(t))
    /\ UNCHANGED <<kv, pending, index, files, mode, ops, crashes>>

-----------------------------------------------------------------------------
\* The process ends: what is in memory is gone.
Vanish ==
    /\ mode' = "down"
    /\ pending' = Nothing
    /\ index' = Nothing
    /\ thread' = [t \in Threads |-> Idle]

\* The runtime has joined the requests' threads before it stops the server.
BeginStop ==
    /\ Begin(Main, "stop")
    /\ \A t \in Requests : At(t, "idle")
    /\ mode' = "stopping"
    /\ Become(Main, [Idle EXCEPT !.at = "list"])
    /\ UNCHANGED <<kv, pending, index, files, crashes>>

\* The worker has been joined, the index is flushed.
Stop ==
    /\ At(Main, "join")
    /\ At(Worker, "idle")
    /\ snapshot' = WholeSnapshot(index)
    /\ Vanish
    /\ UNCHANGED <<kv, tasks, ops, crashes>>

EndInStop ==
    /\ "cut" \in Faults /\ crashes < MaxCrashes
    /\ At(Main, "join")
    /\ At(Worker, "idle")
    /\ snapshot' \in CutSnapshots(index)
    /\ Vanish
    /\ crashes' = crashes + 1
    /\ UNCHANGED <<kv, tasks, ops>>

Crash ==
    /\ "crash" \in Faults /\ crashes < MaxCrashes
    /\ mode # "down"
    /\ Vanish
    /\ crashes' = crashes + 1
    /\ UNCHANGED <<kv, files, ops>>

\* What RewriteLocked may be about to write.
BeingWritten ==
    {[pending EXCEPT ![thread[t].key] = thread[t].record] : t \in {u \in Threads : At(u, "enqueue")}}
    \cup {Without(pending, thread[t].key) : t \in {u \in Threads : At(u, "settle")}}
    \cup {Without(pending, k) : k \in {j \in Keys : "delete" \in Operations
                                                    /\ \E t \in Requests : At(t, "idle")}}

EndInRewrite ==
    /\ "cut" \in Faults /\ crashes < MaxCrashes
    /\ mode # "down"
    /\ \E map \in BeingWritten : tasks' \in CutSnapshots(map)
    /\ Vanish
    /\ crashes' = crashes + 1
    /\ UNCHANGED <<kv, snapshot, ops>>

\* The index and the outbox are read back and the worker is started.
Start ==
    /\ mode = "down"
    /\ ~ snapshot.torn
    /\ ~ tasks.torn
    /\ index' = snapshot.content
    /\ pending' = tasks.content
    /\ mode' = "serving"
    /\ UNCHANGED <<kv, files, thread, ops, crashes>>

\* A cut index snapshot fails the start; the destructor of the index, in which nothing
\* had been replayed, flushes over it.
FailedStart ==
    /\ mode = "down"
    /\ snapshot.torn
    /\ snapshot' = WholeSnapshot(Nothing)
    /\ UNCHANGED <<kv, pending, tasks, index, mode, thread, ops, crashes>>

-----------------------------------------------------------------------------
\* ReindexDocuments: the process is started for it alone and stops after it.  The
\* records are read in one range scan and then embedded and indexed one by one.
StartReindex ==
    /\ "reindex" \in Operations /\ ops < MaxOps
    /\ mode = "down"
    /\ ~ snapshot.torn
    /\ ~ tasks.torn
    /\ index' = snapshot.content
    /\ pending' = tasks.content
    /\ mode' = "reindexing"
    /\ ops' = ops + 1
    /\ Become(Main, [Idle EXCEPT !.at = "copy", !.todo = Stored(kv)])
    /\ UNCHANGED <<kv, files, crashes>>

\* Mutant: a record with a task is left to the worker.
ReindexNextSkips ==
    /\ At(Main, "copy")
    /\ \E k \in First(thread[Main].todo) :
          /\ index' = [index EXCEPT ![k] = IF pending[k] = Absent THEN kv[k] ELSE @]
          /\ Become(Main, [thread[Main] EXCEPT !.todo = @ \ {k}])
    /\ UNCHANGED <<kv, pending, files, mode, ops, crashes>>

ReindexNext ==
    /\ At(Main, "copy")
    /\ \E k \in First(thread[Main].todo) :
          /\ index' = [index EXCEPT ![k] = kv[k]]
          /\ Become(Main, [thread[Main] EXCEPT !.todo = @ \ {k}])
    /\ UNCHANGED <<kv, pending, files, mode, ops, crashes>>

\* An embedding that fails ends the re-indexing; the node is stopped.
ReindexFails ==
    /\ "embed" \in Faults
    /\ At(Main, "copy")
    /\ thread[Main].todo # {}
    /\ mode' = "stopping"
    /\ Become(Main, [Idle EXCEPT !.at = "list"])
    /\ UNCHANGED <<kv, pending, index, files, ops, crashes>>

ReindexFlush ==
    /\ At(Main, "copy")
    /\ thread[Main].todo = {}
    /\ snapshot' = WholeSnapshot(index)
    /\ mode' = "stopping"
    /\ Become(Main, [Idle EXCEPT !.at = "list"])
    /\ UNCHANGED <<kv, pending, tasks, index, ops, crashes>>

-----------------------------------------------------------------------------
Init ==
    /\ kv = Nothing
    /\ pending = Nothing
    /\ tasks = WholeSnapshot(Nothing)
    /\ index = Nothing
    /\ snapshot = WholeSnapshot(Nothing)
    /\ mode = "down"
    /\ thread = [t \in Threads |-> Idle]
    /\ ops = 0
    /\ crashes = 0

Request(t) ==
    \E k \in Keys :
        \/ \E r \in Sent : Upsert(t, k, r) \/ PutKv(t, k, r)
        \/ Delete(t, k)
        \/ EraseKv(t, k)

\* What a thread that is in a call does next.
Step(t) ==
    \/ Enqueue(t) \/ Erase(t) \/ Unindex(t)
    \/ List(t) \/ Take(t) \/ Index(t) \/ FailToIndex(t) \/ Settle(t) \/ EndDrain(t)

Reindex == StartReindex \/ ReindexNext \/ ReindexFails \/ ReindexFlush

Next ==
    \/ \E t \in Requests : Request(t)
    \/ \E t \in Threads : Step(t)
    \/ Wake \/ BeginStop \/ Stop \/ EndInStop
    \/ Crash \/ EndInRewrite \/ Start \/ FailedStart
    \/ Reindex

Spec == Init /\ [][Next]_vars

\* Threads that can go on do so, the worker wakes at the latest after its one second,
\* a stopped node is started again, and an embedding that is tried for ever succeeds.
FairSpec ==
    /\ Spec
    /\ \A t \in Threads : WF_vars(Step(t)) /\ SF_vars(Index(t))
    /\ WF_vars(Wake) /\ WF_vars(Stop) /\ WF_vars(Start) /\ WF_vars(FailedStart)

-----------------------------------------------------------------------------
\* A document put by UpsertDocument stays findable through every interleaving of
\* requests and drains, every failed embedding and every orderly stop: it is in the
\* index, or there is a task for it, or its request is on the way to Enqueue.
UpsertedIsFindable ==
    \A k \in Stored(kv) :
        IF mode = "down"
        THEN snapshot.content[k] # Absent \/ tasks.content[k] # Absent
        ELSE \/ index[k] # Absent
             \/ pending[k] # Absent
             \/ \E t \in Requests : At(t, "enqueue") /\ thread[t].key = k

\* The tasks in memory are those on disk, whichever threads enqueue and settle.
TasksOnDisk == mode # "down" => tasks = WholeSnapshot(pending)

\* Every task on disk is worked off by a node that runs, through crashes, failed
\* embeddings and rewrites that fail, unless a crash cuts the outbox file, with which the
\* node does not start any more.
TasksAreWorkedOff ==
    \A k \in Keys :
        (tasks.content[k] # Absent) ~> (tasks.torn \/ (mode # "down" /\ pending[k] = Absent))

\* Re-indexing repairs what crashes left out: when it ends every stored record is in the
\* snapshot of the index, whatever the worker does with its tasks meanwhile.
ReindexRepairs ==
    [][ReindexFlush => \A k \in Stored(kv) : snapshot'.content[k] # Absent]_vars

Quiet == mode = "serving" /\ (\A t \in Threads : At(t, "idle")) /\ pending = Nothing

\* When everything has been worked off, the index has the stored documents: the task
\* that DrainOnce erases is the one it indexed.
QuietIndexIsCurrent ==
    Quiet => \A k \in Stored(kv) : index[k] = kv[k]

\* A deleted document is in the index no more, once everything has been worked off.
DeletedIsNotIndexed ==
    Quiet => \A k \in Stored(index) : kv[k] # Absent
=============================================================================
