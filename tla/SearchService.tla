---------------------------- MODULE SearchService ----------------------------
(***************************************************************************)
(* Documents and searches (src/gateway/semantic_search_service.cpp and the *)
(* operations of src/gateway/server.cpp) over the RocksDB store, the FAISS *)
(* index and the TBB pool that runs the embeddings of searches.  The       *)
(* outbox between store and index is taken as a map on disk, drained by    *)
(* its own thread and by every request that puts a document; VectorOutbox  *)
(* has its files and threads.  An embedding is external: it may fail, come *)
(* late or never come.                                                     *)
(***************************************************************************)
EXTENDS RocksStore, FaissIndex

CONSTANTS
    QueueCapacity,  \* queue_capacity_ of the pool, which counts running tasks too
    TopK,
    FallbackLimit,  \* 1000
    Seeds,          \* the demo documents, all of one collection; NoBatch when they are disabled
    DocumentKeys,   \* bound: the keys clients send documents for
    Documents,      \* bound: the records they send as documents
    SentBatches,    \* bound: the batches they send to the key-value API
    MaxRequests,    \* bound on the requests of a behaviour
    MaxStarts       \* bound on the starts of the process

ASSUME SearchAssumption ==
    /\ IsFiniteSet(Clients)
    /\ QueueCapacity \in Nat /\ TopK \in Nat \ {0} /\ FallbackLimit \in Nat
    /\ Seeds \in Batches \cup {NoBatch}
    /\ \A j, k \in DOMAIN Seeds : CollectionOf[j] = CollectionOf[k]
    /\ DocumentKeys \subseteq Keys /\ Documents \subseteq Record /\ SentBatches \subseteq Batches
    /\ MaxRequests \in Nat /\ MaxStarts \in Nat

VARIABLES
    phase,          \* of the process, from Start to the end of main
    request,        \* what each client waits for
    outbox,         \* documents to be indexed, by key
    pending_tasks,  \* pending_tasks_: embeddings submitted and not ended
    requests,       \* the requests so far
    starts          \* the starts so far

searchVars == <<phase, request, outbox, pending_tasks, requests, starts>>
allVars == <<storeVars, indexVars, searchVars>>

Request(at, batch, references, hits) ==
    [at |-> at, batch |-> batch, references |-> references, hits |-> hits]

Idle == Request("idle", NoBatch, <<>>, <<>>)

\* A document returned by a search, and the one whose score it carries.
Hit(k, scored) == [key |-> k, scored |-> scored]

TypeOK ==
    /\ StoreTypeOK
    /\ IndexTypeOK
    /\ phase \in {"down", "starting", "seeding", "indexing", "flushing seeds", "started",
                  "flushing", "stopped"}
    /\ \A c \in Clients : request[c].at \in
         {"idle", "document", "enqueued", "draining", "indexing", "records", "delete",
          "embedding", "embedded", "found", "keyword", "answered"}
    /\ outbox \in [Keys -> Value]
    /\ pending_tasks \in 0..QueueCapacity
    /\ requests \in 0..MaxRequests /\ starts \in 0..MaxStarts

-----------------------------------------------------------------------------
(***************************************************************************)
(* Writes.                                                                 *)
(***************************************************************************)
Begin(c, at, batch) ==
    /\ phase = "started" /\ request[c] = Idle /\ requests < MaxRequests
    /\ requests' = requests + 1
    /\ request' = [request EXCEPT ![c] = Request(at, batch, <<>>, <<>>)]
    /\ UNCHANGED <<phase, starts>>

UpsertDocument(c, k, r) ==
    LET batch == [j \in {k} |-> r]
    IN  /\ Begin(c, "document", batch) /\ BeginPut(c, batch)
        /\ UNCHANGED <<indexVars, outbox, pending_tasks>>

PutKvRecords(c, batch) ==
    /\ Begin(c, "records", batch) /\ BeginPut(c, batch)
    /\ UNCHANGED <<indexVars, outbox, pending_tasks>>

DeleteKvRecord(c, k) ==
    /\ Begin(c, "records", [j \in {k} |-> Absent]) /\ BeginDelete(c, k)
    /\ UNCHANGED <<indexVars, outbox, pending_tasks>>

\* The pending task goes first.
DeleteDocument(c, k) ==
    /\ Begin(c, "delete", [j \in {k} |-> Absent]) /\ BeginDelete(c, k)
    /\ outbox' = [outbox EXCEPT ![k] = Absent]
    /\ UNCHANGED <<indexVars, pending_tasks>>

\* The call of the store returns, and the request goes on at a place of its own.
Returned(c, results, at) ==
    /\ op[c].at \in results
    /\ op' = [op EXCEPT ![c] = Out]
    /\ request' = [request EXCEPT ![c] = Request(at, NoBatch, <<>>, <<>>)]
    /\ UNCHANGED <<db, families, opened, up, stripe, phase, pending_tasks, requests, starts>>

EnqueueDocument(c) ==
    /\ request[c].at = "document" /\ Returned(c, {"ok"}, "enqueued")
    /\ outbox' = Staged(outbox, request[c].batch, DOMAIN request[c].batch)
    /\ UNCHANGED indexVars

RemoveDocument(c) ==
    /\ request[c].at = "delete" /\ Returned(c, {"ok"}, "idle")
    /\ \E k \in DOMAIN request[c].batch : RemoveVector(k)
    /\ UNCHANGED outbox

EndRecords(c) ==
    /\ request[c].at = "records" /\ Returned(c, {"ok"}, "idle")
    /\ UNCHANGED <<indexVars, outbox>>

EndRefused(c) ==
    /\ Returned(c, {"refused", "failed"}, "idle")
    /\ UNCHANGED <<indexVars, outbox>>

Goes(c, next) ==
    /\ request' = [request EXCEPT ![c] = next]
    /\ UNCHANGED <<storeVars, indexVars, phase, outbox, requests, starts>>

Moves(c, at) == Goes(c, Request(at, NoBatch, <<>>, <<>>)) /\ UNCHANGED pending_tasks

-----------------------------------------------------------------------------
(***************************************************************************)
(* DrainOnce, by the request that has put a document: all the tasks that   *)
(* wait, its own among them, one after the other.  The batch has the keys  *)
(* still to be visited and, once it is taken, the task of the first.       *)
(***************************************************************************)
Drains(c, at, batch) == Goes(c, Request(at, batch, <<>>, <<>>)) /\ UNCHANGED pending_tasks

\* The first of the keys as the outbox orders them, collection by collection.
FirstTask(keys) ==
    {k \in keys : \A j \in keys :
        \/ CollectionOf[k] < CollectionOf[j]
        \/ CollectionOf[k] = CollectionOf[j] /\ k <= j}

Rest(batch, k) == [j \in DOMAIN batch \ {k} |-> batch[j]]

ListTasks(c) ==
    /\ request[c].at = "enqueued"
    /\ Drains(c, "draining", [k \in Stored(outbox) |-> Absent])

\* The task is copied, and stays in the outbox; one that is gone is passed over.
TakeTask(c) ==
    LET batch == request[c].batch
    IN  /\ request[c].at = "draining"
        /\ \E k \in FirstTask(DOMAIN batch) :
            IF outbox[k] # Absent
            THEN Drains(c, "indexing", [batch EXCEPT ![k] = outbox[k]])
            ELSE Drains(c, "draining", Rest(batch, k))

\* The embedding of the copy ends.  What is erased is whatever task the key has by then.
IndexTask(c) ==
    LET batch == request[c].batch
    IN  /\ request[c].at = "indexing"
        /\ \E k \in FirstTask(DOMAIN batch) :
            /\ request' = [request EXCEPT ![c] = Request("draining", Rest(batch, k), <<>>, <<>>)]
            /\ \/ UpsertVector(k, batch[k]) /\ outbox' = [outbox EXCEPT ![k] = Absent]
               \/ UNCHANGED <<indexVars, outbox>>
        /\ UNCHANGED <<storeVars, phase, pending_tasks, requests, starts>>

EndDrain(c) ==
    /\ request[c].at = "draining" /\ DOMAIN request[c].batch = {}
    /\ Moves(c, "idle")

\* DrainOnce by the outbox's own thread, or for the demo documents.
DrainOutbox(k) ==
    /\ phase \in {"starting", "seeding", "indexing", "started"} /\ outbox[k] # Absent
    /\ UpsertVector(k, outbox[k])
    /\ outbox' = [outbox EXCEPT ![k] = Absent]
    /\ UNCHANGED <<storeVars, phase, request, pending_tasks, requests, starts>>

-----------------------------------------------------------------------------
(***************************************************************************)
(* Searches, in one collection.                                            *)
(***************************************************************************)
Searching == {c \in Clients : request[c].at = "embedding"}

\* Mutant: the pool counts after it has compared.
PoolRefusesLate == pending_tasks > QueueCapacity

\* The pool is never shut down before its owner is destroyed.
PoolRefuses == pending_tasks >= QueueCapacity

\* SubmitTask; a task that is refused leaves its exception in the future.
Search(c) ==
    /\ IF PoolRefuses
       THEN Begin(c, "keyword", NoBatch) /\ UNCHANGED pending_tasks
       ELSE Begin(c, "embedding", NoBatch) /\ pending_tasks' = pending_tasks + 1
    /\ UNCHANGED <<storeVars, indexVars, outbox>>

\* wait_for gives up; the task goes on.
Timeout(c) == c \in Searching /\ Moves(c, "keyword")

\* The future is ready.  A failed embedding of an image alone is an error at once: there
\* are no words to look for.
EmbeddingEnds(c) ==
    c \in Searching /\ (Moves(c, "embedded") \/ Moves(c, "keyword") \/ Moves(c, "idle"))

\* The task's end is counted, a moment after its future is ready, or long after its search.
TaskLeaves ==
    /\ pending_tasks > Cardinality(Searching)
    /\ pending_tasks' = pending_tasks - 1
    /\ UNCHANGED <<storeVars, indexVars, phase, request, outbox, requests, starts>>

\* The index is asked.
SearchIndex(c, collection) ==
    /\ request[c].at = "embedded"
    /\ \E references \in SearchResults({k \in Keys : CollectionOf[k] = collection}, TopK) :
         Goes(c, Request("found", NoBatch, [i \in DOMAIN references |-> references[i].key], <<>>))
    /\ UNCHANGED pending_tasks

\* The documents that are found take the scores of the references, place by place.
LookUp(c) ==
    LET references == request[c].references
        documents  == MultiGet(references)
    IN  /\ request[c].at = "found"
        /\ Goes(c, Request("answered", NoBatch, references,
                           [i \in DOMAIN documents |-> Hit(documents[i], references[i])]))
        /\ UNCHANGED pending_tasks

\* KeywordFallback: of the first documents of the collection those that have the words, all
\* of them here, each with a score of its own.
KeywordFallback(c, collection) ==
    LET ranked    == SetToSortSeq(RangeOf(collection, FallbackLimit), <)
        documents == IF Len(ranked) > TopK THEN SubSeq(ranked, 1, TopK) ELSE ranked
    IN  /\ request[c].at = "keyword"
        /\ Goes(c, Request("answered", NoBatch, documents,
                           [i \in DOMAIN documents |-> Hit(documents[i], documents[i])]))
        /\ UNCHANGED pending_tasks

Answer(c) == request[c].at = "answered" /\ Moves(c, "idle")

-----------------------------------------------------------------------------
(***************************************************************************)
(* The process.                                                            *)
(***************************************************************************)
Start ==
    /\ phase = "down" /\ starts < MaxStarts
    /\ Recover /\ RecoverIndex
    /\ phase' = "starting" /\ starts' = starts + 1
    /\ UNCHANGED <<request, outbox, pending_tasks, requests>>

SeedCollections == {CollectionOf[k] : k \in DOMAIN Seeds}

\* SeedDemoData, when the default collection is empty; else the server is started.
SeedStore ==
    LET empty == \A k \in Keys : CollectionOf[k] \in SeedCollections => ~ Readable(k)
    IN  /\ phase = "starting"
        /\ IF Seeds # NoBatch /\ empty
           THEN /\ phase' = "seeding"
                /\ db' = Staged(db, Seeds, DOMAIN Seeds)
                /\ \E collection \in SeedCollections : GetOrCreateColumnFamily(collection)
           ELSE phase' = "started" /\ UNCHANGED <<db, families, opened>>
        /\ UNCHANGED <<up, stripe, op, indexVars, request, outbox, pending_tasks, requests, starts>>

SeedOutbox ==
    /\ phase = "seeding" /\ phase' = "indexing"
    /\ outbox' = Staged(outbox, Seeds, DOMAIN Seeds)
    /\ UNCHANGED <<storeVars, indexVars, request, pending_tasks, requests, starts>>

\* The outbox is drained, as far as embeddings succeed, and the index flushed.  When a store or
\* file of the start fails the server does not start and its process ends, as in Crash.
SeedVectors ==
    /\ phase = "indexing" /\ phase' = "flushing seeds"
    /\ FlushVectors
    /\ UNCHANGED <<storeVars, request, outbox, pending_tasks, requests, starts>>

EndSeeding ==
    /\ phase = "flushing seeds" /\ phase' = "started"
    /\ FlushMetadata
    /\ UNCHANGED <<storeVars, request, outbox, pending_tasks, requests, starts>>

\* Stop is called when no request is left; RocksDB has nothing to flush.
Stop ==
    /\ phase = "started" /\ \A c \in Clients : request[c] = Idle
    /\ phase' = "flushing"
    /\ FlushVectors
    /\ UNCHANGED <<storeVars, request, outbox, pending_tasks, requests, starts>>

EndStop ==
    /\ phase = "flushing" /\ phase' = "stopped"
    /\ FlushMetadata
    /\ UNCHANGED <<storeVars, request, outbox, pending_tasks, requests, starts>>

Ends ==
    /\ StoreEnds /\ IndexEnds
    /\ phase' = "down"
    /\ request' = [c \in Clients |-> Idle]
    /\ pending_tasks' = 0
    /\ UNCHANGED <<outbox, requests, starts>>

\* The server is destroyed once its pool has no task left.
Destroy == phase = "stopped" /\ pending_tasks = 0 /\ Ends

\* The process is killed.
Crash == phase # "down" /\ Ends

Init ==
    /\ StoreInit /\ IndexInit
    /\ phase = "down"
    /\ request = [c \in Clients |-> Idle]
    /\ outbox = Nothing
    /\ pending_tasks = 0 /\ requests = 0 /\ starts = 0

\* A call of the store goes on, or RocksDB fails it.
StoreGoesOn(c) == StoreStep(c) /\ UNCHANGED <<indexVars, searchVars>>
StoreFails(c) == Fail(c) /\ UNCHANGED <<indexVars, searchVars>>

\* What a request does next by itself.
RequestStep(c) ==
    \/ StoreGoesOn(c) \/ EnqueueDocument(c) \/ RemoveDocument(c) \/ EndRecords(c) \/ EndRefused(c)
    \/ ListTasks(c) \/ TakeTask(c) \/ EndDrain(c) \/ Timeout(c) \/ LookUp(c) \/ Answer(c)
    \/ \E collection \in Collections : SearchIndex(c, collection) \/ KeywordFallback(c, collection)

Next ==
    \/ \E c \in Clients :
        \/ RequestStep(c) \/ StoreFails(c) \/ IndexTask(c) \/ EmbeddingEnds(c) \/ Search(c)
        \/ \E k \in DocumentKeys, r \in Documents : UpsertDocument(c, k, r)
        \/ \E batch \in SentBatches : PutKvRecords(c, batch)
        \/ \E k \in DocumentKeys : DeleteDocument(c, k)
        \/ \E k \in Keys : DeleteKvRecord(c, k)
    \/ \E k \in Keys : DrainOutbox(k)
    \/ TaskLeaves
    \/ Start \/ SeedStore \/ SeedOutbox \/ SeedVectors \/ EndSeeding
    \/ Stop \/ EndStop \/ Destroy \/ Crash

Spec == Init /\ [][Next]_allVars

\* Threads run: the bound on requests keeps a mutex from being taken before others for ever,
\* and a search's timeout comes.  No embedding need end, a drain's no more than a search's.
FairSpec == Spec /\ \A c \in Clients : WF_allVars(RequestStep(c))

-----------------------------------------------------------------------------
\* The index keeps what it knows: key_to_id_ and entries_ name each other, and among the
\* vectors of the index and of the training buffer there is the one of the document's last
\* upsert under that id, through buffering, training that succeeds or fails, removals and
\* replacements, until the process ends.  (What a flush and a recovery make of it is
\* FlushKeepsAnswers.)  Of the vectors of a trained index from which one was removed, or
\* replaced, nothing is claimed: they answer to other ids; and a trained index that keeps a
\* vector may still not visit its list.
KnownIsKept ==
    starts <= 1 =>
        /\ \A id \in DOMAIN entries : key_to_id[entries[id].key] = id
        /\ \A k \in Keys : key_to_id[k] # 0 =>
            /\ key_to_id[k] \in DOMAIN entries
            /\ entries[key_to_id[k]].key = k
            /\ index.kind # "shifted" =>
                 Vector(key_to_id[k], k, entries[key_to_id[k]].document) \in Kept

\* When no document of a search's references is gone by the time they are looked up, whatever
\* was written meanwhile, each is returned with its own score.
ScoresAreOwn ==
    \A c \in Clients :
        Len(request[c].hits) = Len(request[c].references) =>
            \A i \in DOMAIN request[c].hits : request[c].hits[i].scored = request[c].hits[i].key

\* Every document RocksDB holds can be read while the store is open: after a restart too, the
\* families it was written to have their handles.
StoredIsReadable == up => \A k \in Keys : db[k] # Absent => Readable(k)

\* Every request ends, unless it waits for ever for an embedding of its own drain, which has no
\* timeout: no two calls of the store wait for each other's stripes, a drain has an end, and a
\* search is answered though its embedding never comes.
RequestsEnd ==
    \A c \in Clients :
        []<>(request[c].at # "indexing") => (request[c] # Idle ~> request[c] = Idle)

\* What the documents' own vectors are found for once the files just written are recovered is
\* what they are found for now.
FlushKeepsAnswers ==
    [][metadata_file' # metadata_file =>
         Found(OwnIds(index_file'), metadata_file') = Found(OwnIds(index), entries)]_allVars
=============================================================================
