------------------------------ MODULE RocksStore ------------------------------
(***************************************************************************)
(* RocksDbKvStore (src/core/kv_store.cpp), used by several threads.  A     *)
(* write reads what it is to replace, so the threads lock stripes, mutexes *)
(* to which keys are hashed, around both.  Each collection has a column    *)
(* family, made when it is first written to.  RocksDB is external: reads   *)
(* and writes of one call are atomic, and what was written survives.       *)
(***************************************************************************)
EXTENDS KvRecord, Sequences, FiniteSets, SequencesExt

CONSTANTS
    Clients,          \* the threads that call the store
    Stripes,          \* key_mutexes_, by number
    StripeOf,         \* the hash of a composite key
    CollectionCount,
    CollectionOf,     \* the collection of a composite key
    Free              \* the holder of a mutex that nobody holds

Collections == 1..CollectionCount

ASSUME RocksAssumption ==
    /\ Stripes \subseteq Nat
    /\ StripeOf \in [Keys -> Stripes]
    /\ CollectionCount \in Nat
    /\ CollectionOf \in [Keys -> Collections]
    /\ Free \notin Clients

VARIABLES
    db,        \* what RocksDB has
    families,  \* the column families it has, by collection
    opened,    \* column_families_: those there is a handle for
    up,        \* Recover has succeeded and the process lives
    stripe,    \* who holds each stripe
    op         \* the call each client is in

storeVars == <<db, families, opened, up, stripe, op>>

\* A call: batch maps its keys to what is to be written, records or Absent; todo are the
\* stripes or the keys still to be visited, fresh the keys to be written.
Call(at, batch, todo, fresh) == [at |-> at, batch |-> batch, todo |-> todo, fresh |-> fresh]

NoBatch == [k \in {} |-> Absent]

\* Not in a call, or returned from one.
Out == Call("out", NoBatch, {}, {})
Back(result) == Call(result, NoBatch, {}, {})

StoreTypeOK ==
    /\ db \in [Keys -> Value]
    /\ families \subseteq Collections
    /\ opened \subseteq families
    /\ up \in BOOLEAN
    /\ stripe \in [Stripes -> Clients \cup {Free}]
    /\ \A c \in Clients :
        /\ op[c].at \in {"out", "ok", "refused", "failed", "lock", "read", "write", "erase"}
        /\ op[c].fresh \subseteq DOMAIN op[c].batch /\ DOMAIN op[c].batch \subseteq Keys

-----------------------------------------------------------------------------
StripesOf(keys) == {StripeOf[k] : k \in keys}

\* The unique_locks of a call go out of scope.
Unlock(c) == stripe' = [s \in Stripes |-> IF stripe[s] = c THEN Free ELSE stripe[s]]

Return(c, result) ==
    /\ op' = [op EXCEPT ![c] = Back(result)]
    /\ Unlock(c)

Deletes(batch) == \A k \in DOMAIN batch : batch[k] = Absent

\* What follows the last stripe.
Locked(batch) == Call(IF Deletes(batch) THEN "erase" ELSE "read", batch, DOMAIN batch, {})

\* Mutant: nothing is locked.
BeginPutUnlocked(c, batch) ==
    /\ up
    /\ op[c] = Out
    /\ op' = [op EXCEPT ![c] = Locked(batch)]
    /\ UNCHANGED <<db, families, opened, up, stripe>>

\* Put, for one record, or BatchPut.
BeginPut(c, batch) ==
    /\ up
    /\ op[c] = Out
    /\ op' = [op EXCEPT ![c] = Call("lock", batch, StripesOf(DOMAIN batch), {})]
    /\ UNCHANGED <<db, families, opened, up, stripe>>

BeginDelete(c, k) == BeginPut(c, [j \in {k} |-> Absent])

\* Mutant: the stripes are locked in the order of the records.
LockStripeAsListed(c) ==
    /\ op[c].at = "lock"
    /\ \E s \in op[c].todo :
        /\ stripe[s] = Free
        /\ stripe' = [stripe EXCEPT ![s] = c]
        /\ op' = [op EXCEPT ![c] = IF op[c].todo = {s} THEN Locked(op[c].batch)
                                                       ELSE [op[c] EXCEPT !.todo = @ \ {s}]]
    /\ UNCHANGED <<db, families, opened, up>>

\* LockRecordStripes goes through a std::set, in the order of the stripes.
LockStripe(c) ==
    /\ op[c].at = "lock"
    /\ \E s \in First(op[c].todo) :
        /\ stripe[s] = Free
        /\ stripe' = [stripe EXCEPT ![s] = c]
        /\ op' = [op EXCEPT ![c] = IF op[c].todo = {s} THEN Locked(op[c].batch)
                                                       ELSE [op[c] EXCEPT !.todo = @ \ {s}]]
    /\ UNCHANGED <<db, families, opened, up>>

\* The handle is there, or the family is created and put into the map.
GetOrCreateColumnFamily(collection) ==
    /\ families' = families \cup {collection}
    /\ opened' = opened \cup {collection}

\* Get-before-put, for one record of the batch after the other.
ReadExisting(c) ==
    /\ op[c].at = "read"
    /\ \E k \in op[c].todo :
        /\ GetOrCreateColumnFamily(CollectionOf[k])
        /\ LET new  == op[c].batch[k]
               left == op[c].todo \ {k}
           IN  IF Rejects(db[k], new)
               THEN Return(c, "refused")
               ELSE /\ op' = [op EXCEPT ![c] =
                         Call(IF left = {} THEN "write" ELSE "read", op[c].batch, left,
                              IF Ignores(db[k], new) THEN op[c].fresh ELSE op[c].fresh \cup {k})]
                    /\ UNCHANGED stripe
    /\ UNCHANGED <<db, up>>

\* One WriteBatch.
Write(c) ==
    /\ op[c].at = "write"
    /\ db' = Staged(db, op[c].batch, op[c].fresh)
    /\ Return(c, "ok")
    /\ UNCHANGED <<families, opened, up>>

Erase(c) ==
    /\ op[c].at = "erase"
    /\ \E k \in DOMAIN op[c].batch :
        /\ GetOrCreateColumnFamily(CollectionOf[k])
        /\ db' = [db EXCEPT ![k] = Absent]
    /\ Return(c, "ok")
    /\ UNCHANGED up

\* RocksDB returns an error, from a read, a write or the creation of a family; a put whose
\* record is a repeated mutation writes nothing, and a delete of which the family cannot be
\* created has nothing to delete.
Fail(c) ==
    /\ \/ op[c].at = "read" /\ Return(c, "failed")
       \/ op[c].at = "write" /\ op[c].fresh # {} /\ Return(c, "failed")
       \/ op[c].at = "erase" /\ \E k \in DOMAIN op[c].batch :
            Return(c, IF CollectionOf[k] \in opened THEN "failed" ELSE "ok")
    /\ UNCHANGED <<db, families, opened, up>>

StoreStep(c) == LockStripe(c) \/ ReadExisting(c) \/ Write(c) \/ Erase(c)

-----------------------------------------------------------------------------
(***************************************************************************)
(* Reads, which lock nothing.                                              *)
(***************************************************************************)
Readable(k) == CollectionOf[k] \in opened /\ db[k] # Absent

\* Mutant: the references are sorted by key before they are looked up.
MultiGetSorted(keys) ==
    SelectSeq(SetToSortSeq(ToSet(keys), <), Readable)

\* The references by collection, and in each as they came.
NotAfter(keys, i, j) ==
    \/ CollectionOf[keys[i]] < CollectionOf[keys[j]]
    \/ CollectionOf[keys[i]] = CollectionOf[keys[j]] /\ i <= j

\* The keys of those references that are found, collection by collection.
MultiGet(keys) ==
    LET found == {i \in DOMAIN keys : Readable(keys[i])}
    IN  [n \in 1..Cardinality(found) |->
           keys[CHOOSE i \in found : Cardinality({j \in found : NotAfter(keys, j, i)}) = n]]

\* The first limit keys of a collection.
RangeOf(collection, limit) ==
    {k \in Keys :
        /\ CollectionOf[k] = collection /\ Readable(k)
        /\ Cardinality({j \in 1..k : CollectionOf[j] = collection /\ Readable(j)}) <= limit}

-----------------------------------------------------------------------------
StoreInit ==
    /\ db = Nothing
    /\ families = {} /\ opened = {}
    /\ up = FALSE
    /\ stripe = [s \in Stripes |-> Free]
    /\ op = [c \in Clients |-> Out]

\* Mutant: only the families that are written to again are opened.
RecoverNone ==
    /\ ~ up /\ up' = TRUE
    /\ UNCHANGED <<db, families, opened, stripe, op>>

\* ListColumnFamilies, and DB::Open with all of them.
Recover ==
    /\ ~ up /\ up' = TRUE
    /\ opened' = families
    /\ UNCHANGED <<db, families, stripe, op>>

\* The process ends, by itself or not; what RocksDB has acknowledged is on disk.
StoreEnds ==
    /\ up /\ up' = FALSE
    /\ opened' = {}
    /\ stripe' = [s \in Stripes |-> Free]
    /\ op' = [c \in Clients |-> Out]
    /\ UNCHANGED <<db, families>>

-----------------------------------------------------------------------------
Map == INSTANCE DurableMap WITH store <- db, serving <- up

\* The store implements a durable map: each write, of one record or of a batch, takes place
\* at once, and is admitted by the rule of versions and mutation ids against what is stored
\* at that moment, whichever reads and writes of other threads come between its own.
ImplementsDurableMap == Map!Spec
=============================================================================
