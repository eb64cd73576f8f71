------------------------------ MODULE FaissIndex ------------------------------
(***************************************************************************)
(* FaissVectorIndex (src/search/vector_index.cpp).  Vectors are kept under *)
(* ids in the index proper (index_), documents under the same ids beside   *)
(* it (entries_).  With a list count configured the first vectors are      *)
(* buffered until there are enough of them to train an IVF index.  All of  *)
(* it is under one mutex: an operation is one step.  A vector is known by  *)
(* the document it was made from.                                          *)
(*                                                                         *)
(* The FAISS library is external.  Of a flat index it is taken that a      *)
(* search compares all its vectors and a removal takes one out.  A trained *)
(* one promises less: a search visits nprobe of its lists, and once        *)
(* remove_ids has taken a vector out, the table of ids is closed up while  *)
(* the lists keep their places in it, so that other vectors answer to ids  *)
(* that are not theirs.                                                    *)
(***************************************************************************)
EXTENDS KvRecord, Sequences, FiniteSets, SequencesExt

CONSTANTS
    NList,              \* search.faiss_nlist; 0 keeps the index flat
    TrainingThreshold,  \* training_threshold_
    Oversampling,       \* 4
    NoFile,
    OldMetadata,        \* text metadata of an older release, or NoFile
    OldIndex            \* and the index beside it

\* A vector is known by its id and the document it was made from.
Vectors == [id : Nat \ {0}, key : Keys, document : Record]

\* An index is flat, trained, or trained with a vector removed from it since.
Kinds == {"none", "flat", "trained", "shifted"}

Indexes == [kind : Kinds, vectors : SUBSET Vectors]

NoIndex == [kind |-> "none", vectors |-> {}]

ASSUME FaissAssumption ==
    /\ NList \in Nat /\ TrainingThreshold \in Nat \ {0} /\ Oversampling \in Nat
    /\ TrainingThreshold >= 2 * NList
    /\ OldMetadata # NoFile =>
          DOMAIN OldMetadata \subseteq Nat \ {0} /\ IsFiniteSet(DOMAIN OldMetadata)
    /\ OldIndex \in Indexes /\ IsFiniteSet(OldIndex.vectors)
    /\ OldIndex.kind = "none" => OldIndex.vectors = {}

VARIABLES
    index,           \* index_: its kind and vectors, NoIndex for none
    entries,         \* entries_, from ids to keys and their documents
    key_to_id,       \* key_to_id_; 0 for none
    next_id,
    needs_training,
    untrained,       \* untrained_vectors_
    index_file,      \* NoIndex when there is none
    metadata_file

memory == <<index, entries, key_to_id, next_id, needs_training, untrained>>
files == <<index_file, metadata_file>>
indexVars == <<memory, files>>

Vector(id, k, document) == [id |-> id, key |-> k, document |-> document]

IndexTypeOK ==
    /\ next_id \in Nat \ {0}
    /\ key_to_id \in [Keys -> 0..(next_id - 1)]
    /\ DOMAIN entries \subseteq 1..(next_id - 1)
    /\ needs_training \in BOOLEAN
    /\ index \in Indexes /\ index_file \in Indexes
    /\ Len(untrained) < TrainingThreshold

-----------------------------------------------------------------------------
\* What remove_ids may leave: of a flat index all other vectors, and of a trained one too, but
\* not under their ids; which ones a later removal takes is then open.
Without(ix, id) ==
    LET others == {v \in ix.vectors : v.id # id}
    IN  IF ix.kind = "shifted"
        THEN {[ix EXCEPT !.vectors = left] : left \in SUBSET ix.vectors}
        ELSE {[kind |-> IF ix.kind = "trained" /\ others # ix.vectors THEN "shifted" ELSE ix.kind,
               vectors |-> others]}

\* EnsureIndex makes a flat index on the first vector.
Index == IF index.kind = "none" THEN [NoIndex EXCEPT !.kind = "flat"] ELSE index

NeedsTraining == IF index.kind = "none" THEN NList > 0 ELSE needs_training

AddAll(ix, vectors) == [ix EXCEPT !.vectors = @ \cup vectors]

Add(kept, v) ==
    /\ index' = AddAll(kept, {v})
    /\ needs_training' = FALSE
    /\ UNCHANGED untrained

\* TrainIVF: the buffered vectors go into the new index, or, if it cannot be trained,
\* to those of the old one.
Train(kept, buffered) ==
    /\ index' \in {[kind |-> "trained", vectors |-> ToSet(buffered)], AddAll(kept, ToSet(buffered))}
    /\ needs_training' = FALSE
    /\ untrained' = <<>>

\* Mutant: the vector that fills the buffer is lost.
BufferOrTrainWithout(kept, v) ==
    IF Len(untrained) + 1 >= TrainingThreshold
    THEN Train(kept, untrained)
    ELSE /\ index' = kept
         /\ needs_training' = TRUE
         /\ untrained' = Append(untrained, v)

BufferOrTrain(kept, v) ==
    IF Len(untrained) + 1 >= TrainingThreshold
    THEN Train(kept, Append(untrained, v))
    ELSE /\ index' = kept
         /\ needs_training' = TRUE
         /\ untrained' = Append(untrained, v)

\* An id is taken even when the key has one already, which it keeps; only then is there a
\* vector to be removed.
UpsertVector(k, document) ==
    LET known == key_to_id[k] # 0
        id    == IF known THEN key_to_id[k] ELSE next_id
        v     == Vector(id, k, document)
    IN  /\ \E kept \in (IF known THEN Without(Index, id) ELSE {Index}) :
             IF NeedsTraining THEN BufferOrTrain(kept, v) ELSE Add(kept, v)
        /\ entries' = [i \in DOMAIN entries \cup {id} |->
                         IF i = id THEN [key |-> k, document |-> document] ELSE entries[i]]
        /\ key_to_id' = [key_to_id EXCEPT ![k] = id]
        /\ next_id' = next_id + 1
        /\ UNCHANGED files

\* A vector in the buffer stays there.
RemoveVector(k) ==
    /\ IF key_to_id[k] = 0 \/ index.kind = "none"
       THEN UNCHANGED <<index, entries, key_to_id>>
       ELSE /\ index' \in Without(index, key_to_id[k])
            /\ entries' = [i \in DOMAIN entries \ {key_to_id[k]} |-> entries[i]]
            /\ key_to_id' = [key_to_id EXCEPT ![k] = 0]
    /\ UNCHANGED <<next_id, needs_training, untrained, files>>

-----------------------------------------------------------------------------
\* A reference a search returns: the key its id stands for, and the vector it scored.
Reference(k, v) == [key |-> k, vector |-> v]

\* All sequences of at most size of the elements, as scores may order them.
Rankings(elements, size) ==
    LET length == IF Cardinality(elements) < size THEN Cardinality(elements) ELSE size
    IN  {s \in [1..length -> elements] : \A i, j \in 1..length : s[i] = s[j] => i = j}

\* The vectors a search may compare: all, or, of a trained index, those of nprobe lists.
Visited(ix) == IF ix.kind \in {"none", "flat"} THEN {ix.vectors} ELSE SUBSET ix.vectors

OwnIds(ix) == [v \in ix.vectors |-> v.id]

\* The ids it may report for them, 0 for one that no document has.
Labels(ix, vectors) ==
    IF ix.kind = "shifted" THEN [vectors -> DOMAIN entries \cup {0}]
    ELSE {[v \in vectors |-> v.id]}

\* Every vector there is, in the index and in the buffer.
Kept == index.vectors \cup ToSet(untrained)

\* A vector of the index is returned for the document its id stands for, if there is one.
Found(label, documents) ==
    {Reference(documents[label[v]].key, v) : v \in {w \in DOMAIN label : label[w] \in DOMAIN documents}}

\* One of the buffer for the document it came with.
Buffered == {Reference(v.key, v) : v \in ToSet(untrained)}

\* The index is asked for its best Oversampling * top_k vectors, those of other collections
\* among them, and finds fewer in the lists it visits.
Best(top_k) ==
    UNION {Rankings(vectors, Oversampling * top_k) : vectors \in Visited(index)}

SearchResults(collection_keys, top_k) ==
    UNION {Rankings({r \in Found(label, entries) \cup Buffered : r.key \in collection_keys}, top_k) :
              label \in UNION {Labels(index, ToSet(asked)) : asked \in Best(top_k)}}

-----------------------------------------------------------------------------
(***************************************************************************)
(* The two files of FlushSnapshot.  The old text metadata has the ids;     *)
(* what is written now has the documents alone, in the order of their ids. *)
(* Recovery numbers these from one.                                        *)
(***************************************************************************)
Ids == [i \in 1..Cardinality(DOMAIN entries) |->
          CHOOSE id \in DOMAIN entries : Cardinality({j \in DOMAIN entries : j <= id}) = i]

FlushVectors ==
    /\ index_file' = IF index.kind = "none" THEN index_file ELSE index
    /\ UNCHANGED <<memory, metadata_file>>

FlushMetadata ==
    /\ metadata_file' = [i \in DOMAIN Ids |-> entries[Ids[i]]]
    /\ UNCHANGED <<memory, index_file>>

\* What a file is read as.
EntriesOf(file) == IF file = NoFile THEN [i \in {} |-> Absent] ELSE file

NextIdOf(found) == IF DOMAIN found = {} THEN 1 ELSE 1 + Max(DOMAIN found)

RecoverIndex ==
    LET found == EntriesOf(metadata_file)
    IN  /\ index' = index_file
        /\ entries' = found
        /\ key_to_id' = [k \in Keys |->
                           IF \E i \in DOMAIN found : found[i].key = k
                           THEN CHOOSE i \in DOMAIN found : found[i].key = k ELSE 0]
        /\ next_id' = NextIdOf(found)
        /\ needs_training' = FALSE
        /\ untrained' = <<>>
        /\ UNCHANGED files

IndexEnds ==
    /\ index' = NoIndex
    /\ entries' = [i \in {} |-> Absent]
    /\ key_to_id' = [k \in Keys |-> 0]
    /\ next_id' = 1
    /\ needs_training' = FALSE
    /\ untrained' = <<>>
    /\ UNCHANGED files

IndexInit ==
    /\ index = NoIndex
    /\ entries = [i \in {} |-> Absent]
    /\ key_to_id = [k \in Keys |-> 0]
    /\ next_id = 1
    /\ needs_training = FALSE
    /\ untrained = <<>>
    /\ index_file = OldIndex
    /\ metadata_file = OldMetadata
=============================================================================
