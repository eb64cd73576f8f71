------------------------------ MODULE KvRecord ------------------------------
(***************************************************************************)
(* The records the stores keep and the rule by which a write is admitted   *)
(* against the record already stored (src/core/document.h and the two      *)
(* helpers at the head of src/core/kv_store.cpp).  A record carries only    *)
(* what that rule and the durability of the write tell apart: its version,  *)
(* its mutation id and an opaque payload for title, body and metadata.     *)
(***************************************************************************)
EXTENDS Integers

CONSTANTS
    KeyCount,     \* number of composite keys collection \x1f key
    Versions,     \* versions a writer may send; 0 stands for "unversioned"
    MutationIds,  \* non-empty mutation ids
    NoMutation,   \* the empty mutation id
    Payloads,     \* everything else a record carries
    Absent        \* what a lookup finds for a key that is not stored

\* The composite keys, in the order std::map iterates over them.
Keys == 1..KeyCount

Record == [version     : Versions,
           mutation_id : MutationIds \cup {NoMutation},
           payload     : Payloads]

Value == Record \cup {Absent}

ASSUME KvRecordAssumption ==
    /\ KeyCount \in Nat \ {0}
    /\ Versions \subseteq Nat
    /\ NoMutation \notin MutationIds
    /\ Absent \notin Record

\* The map with no record in it.
Nothing == [k \in Keys |-> Absent]

-----------------------------------------------------------------------------
\* A repeated mutation id, which the stores acknowledge without writing.
IsDuplicateMutation(existing, incoming) ==
    /\ incoming.mutation_id # NoMutation
    /\ existing.mutation_id = incoming.mutation_id

\* Mutant: a record one version older passes.
IsStaleByTwo(existing, incoming) ==
    /\ incoming.version # 0
    /\ existing.version # 0
    /\ incoming.version + 1 < existing.version

\* Both sides versioned and the incoming version the smaller one.
IsStale(existing, incoming) ==
    /\ incoming.version # 0
    /\ existing.version # 0
    /\ incoming.version < existing.version

\* The write is acknowledged and nothing is written.
Ignores(stored, incoming) ==
    stored # Absent /\ IsDuplicateMutation(stored, incoming)

\* ValidateMutation returns InvalidArgument.
Rejects(stored, incoming) ==
    /\ stored # Absent
    /\ ~ IsDuplicateMutation(stored, incoming)
    /\ IsStale(stored, incoming)

\* The write replaces what is stored.
Replaces(stored, incoming) ==
    ~ Ignores(stored, incoming) /\ ~ Rejects(stored, incoming)

(***************************************************************************)
(* A batch maps each of its keys to a record; a batch that names a key      *)
(* twice is refused before anything else happens and has no step.          *)
(***************************************************************************)
Batches == UNION {[P -> Record] : P \in (SUBSET Keys) \ {{}}}

\* One stale record refuses the whole batch.
BatchAdmitted(map, batch) ==
    \A k \in DOMAIN batch : ~ Rejects(map[k], batch[k])

\* to_apply: the records of the batch that are not repeated mutations.
ToApply(map, batch) == {k \in DOMAIN batch : ~ Ignores(map[k], batch[k])}

\* staged: the map once the records of S, a part of the batch, are applied.
Staged(map, batch, S) ==
    [k \in Keys |-> IF k \in S THEN batch[k] ELSE map[k]]

-----------------------------------------------------------------------------
(***************************************************************************)
(* Files that hold one frame per record of a map: the snapshot of the      *)
(* store, the outbox, the snapshot of the vector index.  They are          *)
(* truncated and written over, in the order of the keys.                   *)
(***************************************************************************)
Stored(map) == {k \in Keys : map[k] # Absent}

\* The next of the keys still to be visited.
First(todo) == {k \in todo : \A j \in todo : k <= j}

SnapshotFile == [content : [Keys -> Value], torn : BOOLEAN]

WholeSnapshot(map) == [content |-> map, torn |-> FALSE]

\* The frames of the keys below the cut are in the file, perhaps a part of the next or,
\* when there is none yet, of the header.
Below(cut, map) == [k \in Keys |-> IF k < cut THEN map[k] ELSE Absent]

\* What the end of the process during the write may leave.
CutSnapshots(map) ==
    {WholeSnapshot(Below(cut, map)) : cut \in 1..(KeyCount + 1)}
    \cup {[content |-> Below(cut, map), torn |-> TRUE] : cut \in Stored(map) \cup {1}}
=============================================================================
