------------------------- MODULE SearchService_proofs -------------------------
(***************************************************************************)
(* What TLAPS proves of SearchService, with any number of clients, keys    *)
(* and collections, batches, demo data, crashes and restarts: the RocksDB  *)
(* store implements a durable map, and what it stores can be read; the     *)
(* types of the whole service; that hits keep their scores; and that the   *)
(* index keeps what it knows.                                              *)
(***************************************************************************)
EXTENDS SearchService, RocksStore_proofs, FiniteSetTheorems, WellFoundedInduction

\* Calls are made, and the store is open, only while the server is started.
PhasesInv ==
    /\ up <=> phase # "down"
    /\ phase \in {"down", "starting", "seeding", "indexing", "flushing seeds"} =>
         \A c \in Clients : op[c] = Out

ServiceInv == StoreInv /\ PhasesInv

\* What a step of the service owes.
Owes == ServiceInv' /\ [Map!Next]_(Map!vars)

-----------------------------------------------------------------------------
\* A step that leaves the store alone.
LEMMA QuietStep ==
    ASSUME ServiceInv, UNCHANGED storeVars,
           phase' # "down" <=> phase # "down",
           phase' \in {"down", "starting", "seeding", "indexing", "flushing seeds"} =>
               phase \in {"down", "starting", "seeding", "indexing", "flushing seeds"}
    PROVE  Owes
<1>1. UNCHANGED <<db, families, opened, up, stripe, op>>
    BY DEF storeVars
<1>2. StoreInv'
    BY <1>1 DEF ServiceInv, StoreInv, Types, FamiliesInv, CallInv, Checked, Holds
<1>3. PhasesInv'
    BY <1>1 DEF ServiceInv, PhasesInv
<1> QED BY <1>1, <1>2, <1>3 DEF Owes, ServiceInv, Map!vars

\* A client in a call: the server is started.
LEMMA CallsAreServed ==
    ASSUME ServiceInv, NEW c \in Clients, op[c].at # "out"
    PROVE  phase \notin {"down", "starting", "seeding", "indexing", "flushing seeds"}
<1>1. Out.at = "out"
    BY CallType DEF Out
<1> QED BY <1>1 DEF ServiceInv, PhasesInv

\* A step of a call.
LEMMA CallStep ==
    ASSUME ServiceInv, NEW c \in Clients, StoreStep(c) \/ Fail(c), UNCHANGED phase
    PROVE  Owes
<1>1. op[c].at # "out" /\ UNCHANGED up
    BY DEF StoreStep, LockStripe, ReadExisting, Write, Erase, Fail
<1>2. PhasesInv'
    BY <1>1, CallsAreServed DEF ServiceInv, PhasesInv
<1>3. StoreInv
    BY DEF ServiceInv
<1>4. CASE LockStripe(c) \/ ReadExisting(c) \/ Fail(c)
  <2>1. StoreInv'
      BY <1>3, <1>4, LockKeeps, ReadKeeps, FailKeeps
  <2>2. UNCHANGED db
      BY <1>4 DEF LockStripe, ReadExisting, Fail
  <2> QED BY <2>1, <2>2, <1>1, <1>2 DEF Owes, ServiceInv, Map!vars
<1>5. CASE Write(c) \/ Erase(c)
    BY <1>2, <1>3, <1>5, WriteKeeps, EraseKeeps DEF Owes, ServiceInv
<1> QED BY <1>4, <1>5 DEF StoreStep

\* A request begins with a call.
LEMMA BeginStep ==
    ASSUME ServiceInv, phase = "started", UNCHANGED phase,
           NEW c \in Clients, NEW batch \in Batches \cup Deletions, BeginPut(c, batch)
    PROVE  Owes
<1>1. StoreInv'
    BY BeginKeeps DEF ServiceInv
<1>2. UNCHANGED <<db, up>>
    BY DEF BeginPut
<1>3. PhasesInv'
    BY <1>2 DEF ServiceInv, PhasesInv
<1> QED BY <1>1, <1>2, <1>3 DEF Owes, ServiceInv, Map!vars

\* The call returns to the request.
LEMMA ReturnStep ==
    ASSUME ServiceInv, NEW c \in Clients, NEW results, NEW at, "out" \notin results,
           Returned(c, results, at)
    PROVE  Owes
<1>1. /\ op[c].at # "out" /\ op' = [op EXCEPT ![c] = Back("out")]
      /\ UNCHANGED <<db, families, opened, up, stripe, phase>>
    BY DEF Returned, Back, Out
<1>2. op' \in [Clients -> Calls] /\ \A d \in Clients : CallInv(d)'
    BY <1>1, ReturnKeeps DEF ServiceInv
<1>3. StoreInv'
    BY <1>1, <1>2 DEF ServiceInv, StoreInv, Types, FamiliesInv
<1>4. PhasesInv'
    BY <1>1, CallsAreServed DEF ServiceInv, PhasesInv
<1> QED BY <1>1, <1>3, <1>4 DEF Owes, ServiceInv, Map!vars

\* The process ends, wherever it is.
LEMMA EndStep ==
    ASSUME ServiceInv, Ends
    PROVE  Owes
<1>1. StoreInv' /\ Map!Next
    BY EndsKeeps DEF ServiceInv, Ends
<1>2. up' = FALSE /\ phase' = "down" /\ \A c \in Clients : op'[c] = Out
    BY DEF Ends, StoreEnds
<1>3. PhasesInv'
    BY <1>2 DEF PhasesInv
<1> QED BY <1>1, <1>3 DEF Owes, ServiceInv

\* It starts.
LEMMA StartStep ==
    ASSUME ServiceInv, Start
    PROVE  Owes
<1>1. Recover /\ phase = "down" /\ phase' = "starting"
    BY DEF Start
<1>2. \A c \in Clients : op[c] = Out
    BY <1>1 DEF ServiceInv, PhasesInv
<1>3. StoreInv' /\ Map!Next
    BY <1>1, <1>2, RecoverKeeps DEF ServiceInv
<1>4. up' = TRUE /\ op' = op
    BY <1>1 DEF Recover
<1>5. PhasesInv'
    BY <1>1, <1>2, <1>4 DEF PhasesInv
<1> QED BY <1>3, <1>5 DEF Owes, ServiceInv

\* The demo data is written to a collection in which nothing is stored: as a batch of which
\* every record is admitted and written.
LEMMA SeedStep ==
    ASSUME ServiceInv, SeedStore
    PROVE  Owes
<1>1. /\ phase = "starting" /\ UNCHANGED <<up, stripe, op>>
      /\ \/ phase' = "seeding"
         \/ phase' = "started" /\ UNCHANGED <<db, families, opened>>
    BY DEF SeedStore
<1>2. CASE phase' = "started" /\ UNCHANGED <<db, families, opened>>
    BY <1>1, <1>2, QuietStep DEF storeVars
<1>3. CASE phase' = "seeding"
  <2>1. PICK collection \in SeedCollections :
          /\ Seeds # NoBatch
          /\ \A k \in Keys : CollectionOf[k] \in SeedCollections => ~ Readable(k)
          /\ db' = Staged(db, Seeds, DOMAIN Seeds)
          /\ GetOrCreateColumnFamily(collection)
      BY <1>3 DEF SeedStore
  <2>2. /\ StoreInv /\ up /\ opened = families
        /\ \A c \in Clients : op[c] = Out
      BY <1>1 DEF ServiceInv, PhasesInv, StoreInv, FamiliesInv
  <2>3. /\ Seeds \in Batches /\ DOMAIN Seeds \subseteq Keys
        /\ \A k \in DOMAIN Seeds : Seeds[k] \in Record /\ CollectionOf[k] = collection
    <3>1. Seeds \in Batches
        BY <2>1, SearchAssumption
    <3>2. \A k \in DOMAIN Seeds : CollectionOf[k] = collection
        BY <2>1, SearchAssumption DEF SeedCollections
    <3> QED BY <3>1, <3>2, BatchFacts
  <2>4. \A k \in DOMAIN Seeds : db[k] = Absent
      BY <2>1, <2>2, <2>3, StoreInvTypes DEF SeedCollections
  <2>5. /\ db' \in [Keys -> Value]
        /\ \A k \in Keys : db'[k] = IF k \in DOMAIN Seeds THEN Seeds[k] ELSE db[k]
    <3>1. db \in [Keys -> Value] /\ \A k \in DOMAIN Seeds : Seeds[k] \in Value
        BY <2>2, <2>3 DEF StoreInv, Types, Value
    <3> HIDE DEF Keys, Value
    <3> QED BY <3>1, <2>1 DEF Staged
  <2>6. /\ families' \subseteq Collections /\ opened' = families'
        /\ families \subseteq families' /\ collection \in families'
    <3>1. collection \in Collections
        BY <2>3, RocksAssumption DEF SeedCollections
    <3> QED BY <3>1, <2>1, <2>2 DEF GetOrCreateColumnFamily, StoreInv, Types
  <2>7. Types' /\ FamiliesInv'
      BY <1>1, <2>2, <2>3, <2>5, <2>6 DEF StoreInv, Types, FamiliesInv
  <2>8. \A c \in Clients : CallInv(c)'
    <3>1. Out.at = "out" /\ Out.fresh = {}
        BY CallType DEF Out
    <3> QED BY <3>1, <1>1, <2>2 DEF CallInv
  <2>9. PhasesInv'
      BY <1>1, <1>3, <2>2 DEF PhasesInv
  <2>10. Map!BatchPut(Seeds)
    <3>1. BatchAdmitted(db, Seeds) /\ ToApply(db, Seeds) = DOMAIN Seeds
        BY <2>4 DEF BatchAdmitted, ToApply, Rejects, Ignores
    <3>2. /\ Map!BatchAdmitted(db, Seeds)
          /\ db' = Map!Staged(db, Seeds, Map!ToApply(db, Seeds))
        BY <3>1, <2>1, SameRules
    <3> QED BY <3>2, <1>1, <2>2 DEF Map!BatchPut, Map!AckOrDie
  <2>11. Map!Next
      BY <2>3, <2>10, SameRules DEF Map!Next
  <2> QED BY <2>7, <2>8, <2>9, <2>11 DEF Owes, ServiceInv, StoreInv
<1> QED BY <1>1, <1>2, <1>3

-----------------------------------------------------------------------------
\* What a request does by itself.
LEMMA RequestSteps ==
    ASSUME ServiceInv, NEW c \in Clients, RequestStep(c)
    PROVE  Owes
<1>1. CASE StoreGoesOn(c)
    BY <1>1, CallStep DEF StoreGoesOn, searchVars
<1>2. CASE EnqueueDocument(c) \/ RemoveDocument(c) \/ EndRecords(c) \/ EndRefused(c)
  <2>1. \E results, at : "out" \notin results /\ Returned(c, results, at)
      BY <1>2 DEF EnqueueDocument, RemoveDocument, EndRecords, EndRefused
  <2> QED BY <2>1, ReturnStep
<1>3. CASE \/ ListTasks(c) \/ TakeTask(c) \/ EndDrain(c) \/ Timeout(c) \/ LookUp(c) \/ Answer(c)
           \/ \E collection \in Collections : SearchIndex(c, collection) \/ KeywordFallback(c, collection)
  <2>1. UNCHANGED storeVars /\ UNCHANGED phase
      BY <1>3 DEF ListTasks, TakeTask, EndDrain, Drains, Timeout, LookUp, Answer, SearchIndex,
                  KeywordFallback, Moves, Goes
  <2> QED BY <2>1, QuietStep
<1> QED BY <1>1, <1>2, <1>3 DEF RequestStep

\* What a client asks for.
LEMMA RequestBegins ==
    ASSUME ServiceInv, NEW c \in Clients,
           \/ Search(c)
           \/ \E k \in DocumentKeys, r \in Documents : UpsertDocument(c, k, r)
           \/ \E batch \in SentBatches : PutKvRecords(c, batch)
           \/ \E k \in DocumentKeys : DeleteDocument(c, k)
           \/ \E k \in Keys : DeleteKvRecord(c, k)
    PROVE  Owes
<1>1. CASE Search(c)
  <2>1. UNCHANGED storeVars /\ UNCHANGED phase
      BY <1>1 DEF Search, Begin
  <2> QED BY <2>1, QuietStep
<1>2. ASSUME NEW k \in DocumentKeys, NEW r \in Documents, UpsertDocument(c, k, r)
      PROVE  Owes
  <2>1. [j \in {k} |-> r] \in Batches
    <3>1. k \in Keys /\ r \in Record
        BY SearchAssumption
    <3>2. {k} \in (SUBSET Keys) \ {{}} /\ [j \in {k} |-> r] \in [{k} -> Record]
        BY <3>1
    <3> QED BY <3>2 DEF Batches
  <2>2. phase = "started" /\ UNCHANGED phase /\ BeginPut(c, [j \in {k} |-> r])
      BY <1>2 DEF UpsertDocument, Begin
  <2> QED BY <2>1, <2>2, BeginStep
<1>3. ASSUME NEW batch \in SentBatches, PutKvRecords(c, batch)
      PROVE  Owes
  <2>1. batch \in Batches
      BY SearchAssumption
  <2>2. phase = "started" /\ UNCHANGED phase /\ BeginPut(c, batch)
      BY <1>3 DEF PutKvRecords, Begin
  <2> QED BY <2>1, <2>2, BeginStep
<1>4. ASSUME NEW k \in Keys, DeleteDocument(c, k) \/ DeleteKvRecord(c, k)
      PROVE  Owes
  <2>1. [j \in {k} |-> Absent] \in Deletions
      BY DEF Deletions
  <2>2. phase = "started" /\ UNCHANGED phase /\ BeginPut(c, [j \in {k} |-> Absent])
      BY <1>4 DEF DeleteDocument, DeleteKvRecord, Begin, BeginDelete
  <2> QED BY <2>1, <2>2, BeginStep
<1>5. DocumentKeys \subseteq Keys
    BY SearchAssumption
<1> QED BY <1>1, <1>2, <1>3, <1>4, <1>5

\* Every step keeps the invariant and is one of the map or leaves it alone.
LEMMA ServiceNext ==
    ASSUME ServiceInv, [Next]_allVars
    PROVE  Owes
<1>1. ASSUME NEW c \in Clients, StoreFails(c) PROVE Owes
    BY <1>1, CallStep DEF StoreFails, searchVars
<1>2. ASSUME NEW c \in Clients, EmbeddingEnds(c) \/ IndexTask(c) PROVE Owes
  <2>1. UNCHANGED storeVars /\ UNCHANGED phase
      BY <1>2 DEF EmbeddingEnds, IndexTask, Moves, Goes
  <2> QED BY <2>1, QuietStep
<1>3. ASSUME (\E k \in Keys : DrainOutbox(k)) \/ TaskLeaves PROVE Owes
  <2>1. UNCHANGED storeVars /\ UNCHANGED phase
      BY <1>3 DEF DrainOutbox, TaskLeaves
  <2> QED BY <2>1, QuietStep
<1>4. CASE SeedOutbox \/ SeedVectors \/ EndSeeding \/ Stop \/ EndStop
    BY <1>4, QuietStep DEF SeedOutbox, SeedVectors, EndSeeding, Stop, EndStop
<1>5. CASE Destroy \/ Crash
    BY <1>5, EndStep DEF Destroy, Crash
<1>6. CASE UNCHANGED allVars
    BY <1>6, QuietStep DEF allVars, searchVars
<1> QED BY <1>1, <1>2, <1>3, <1>4, <1>5, <1>6, RequestSteps, RequestBegins, StartStep, SeedStep DEF Next

\* The store is closed and empty before the first start.
LEMMA ServiceInit == Init => ServiceInv /\ Map!Init
<1> SUFFICES ASSUME Init PROVE ServiceInv /\ Map!Init
    OBVIOUS
<1>1. StoreInv /\ Map!Init
    BY StoreInvInit DEF Init
<1>2. PhasesInv
    BY DEF Init, StoreInit, PhasesInv
<1> QED BY <1>1, <1>2 DEF ServiceInv

-----------------------------------------------------------------------------
\* The store's variables keep their types, and no call has a record to write that is not of
\* its batch.
THEOREM StoreTypeCorrect == Spec => []StoreTypeOK
<1>1. ServiceInv => StoreTypeOK
    BY StoreInvTypes DEF ServiceInv
<1>2. ServiceInv /\ [Next]_allVars => ServiceInv'
    BY ServiceNext DEF Owes
<1> QED BY <1>1, <1>2, ServiceInit, PTL DEF Spec

\* A document that is stored is found by its key whenever the store is open, after any number
\* of restarts: its family has been opened again.
THEOREM StoredStaysReadable == Spec => []StoredIsReadable
<1>1. ServiceInv => StoredIsReadable
    BY StoreInvTypes DEF ServiceInv, StoredIsReadable
<1>2. ServiceInv /\ [Next]_allVars => ServiceInv'
    BY ServiceNext DEF Owes
<1> QED BY <1>1, <1>2, ServiceInit, PTL DEF Spec

\* Get-before-put under key stripes is atomic: whatever other threads do between the reads of
\* a batch and its write, the batch is admitted against what is stored when it is written.
THEOREM StoreImplementsMap == Spec => ImplementsDurableMap
<1>1. ServiceInv /\ [Next]_allVars => ServiceInv' /\ [Map!Next]_(Map!vars)
    BY ServiceNext DEF Owes
<1> QED BY <1>1, ServiceInit, PTL DEF Spec, ImplementsDurableMap, Map!Spec

-----------------------------------------------------------------------------
(***************************************************************************)
(* The vector index: its types, whatever it is recovered from.             *)
(***************************************************************************)
\* A non-empty finite set of ids has a largest one.
LEMMA HasLast ==
    ASSUME NEW T, T \subseteq Nat, IsFiniteSet(T), T # {}
    PROVE  \E i \in T : \A j \in T : j <= i
<1> DEFINE After(i) == {j \in T : i < j}
           R == StrictSubsetOrdering(T)
<1>1. IsWellFoundedOn(R, SUBSET T)
  BY FS_StrictSubsetOrderingWellFounded, FS_FiniteSubsetsOfFinite
<1>2. {After(i) : i \in T} \subseteq SUBSET T /\ {After(i) : i \in T} # {}
  OBVIOUS
<1>3. PICK U \in {After(i) : i \in T} : \A W \in {After(i) : i \in T} : ~ (<<W, U>> \in R)
  <2> HIDE DEF R
  <2> QED
    BY <1>1, <1>2, WFMin
<1>4. PICK i \in T : U = After(i)
  BY <1>3
<1>5. ASSUME NEW j \in T, i < j
      PROVE  FALSE
  <2>1. After(j) \subseteq After(i) /\ j \in After(i) /\ ~ (j \in After(j))
    <3>1. i \in Nat /\ j \in Nat /\ \A m \in T : m \in Nat
      OBVIOUS
    <3>2. \A m \in T : j < m => i < m
      BY <1>5, <3>1
    <3>3. ~ (j < j)
      BY <3>1
    <3> QED
      BY <1>5, <3>2, <3>3, Zenon
  <2>2. <<After(j), After(i)>> \in R
    BY <2>1 DEF StrictSubsetOrdering
  <2> QED
    BY <1>3, <1>4, <2>2
<1> QED
  BY <1>5

\* The id after all those that are taken.
LEMMA NextIdFacts ==
    ASSUME NEW found, DOMAIN found \subseteq Nat \ {0}, IsFiniteSet(DOMAIN found)
    PROVE  NextIdOf(found) \in Nat \ {0} /\ DOMAIN found \subseteq 1..(NextIdOf(found) - 1)
<1> DEFINE S == DOMAIN found
<1>1. S \subseteq Nat \ {0} /\ IsFiniteSet(S)
    OBVIOUS
<1>2. NextIdOf(found) = IF S = {} THEN 1 ELSE 1 + Max(S)
    BY DEF NextIdOf
<1> HIDE DEF S
<1>3. CASE S = {}
    BY <1>2, <1>3 DEF S
<1>4. CASE S # {}
  <2>1. \E x \in S : \A y \in S : y <= x
      BY <1>1, <1>4, HasLast
  <2>2. Max(S) \in S /\ \A y \in S : Max(S) >= y
    <3>1. \E x \in S : \A y \in S : x >= y
        BY <1>1, <2>1
    <3> QED BY <3>1 DEF Max
  <2>3. Max(S) \in Nat \ {0}
      BY <1>1, <2>2
  <2>4. \A y \in S : y \in 1..Max(S)
      BY <1>1, <2>2, <2>3
  <2>5. NextIdOf(found) = 1 + Max(S)
      BY <1>2, <1>4
  <2>6. NextIdOf(found) - 1 = Max(S) /\ NextIdOf(found) \in Nat \ {0}
      BY <2>3, <2>5
  <2> QED BY <2>4, <2>6 DEF S
<1> QED BY <1>3, <1>4

\* The elements of a sequence.
LEMMA ElementsFacts ==
    ASSUME NEW S, NEW s \in Seq(S)
    PROVE  /\ ToSet(s) \subseteq S /\ IsFiniteSet(ToSet(s))
           /\ \A x \in S : /\ Append(s, x) \in Seq(S) /\ Len(Append(s, x)) = Len(s) + 1
                           /\ ToSet(Append(s, x)) = ToSet(s) \cup {x}
<1>1. s \in [1..Len(s) -> S] /\ Len(s) \in Nat /\ DOMAIN s = 1..Len(s)
    OBVIOUS
<1>2. ToSet(s) = {s[i] : i \in 1..Len(s)}
    BY <1>1 DEF ToSet
<1>3. s \in Surjection(1..Len(s), ToSet(s))
    BY <1>1, <1>2 DEF Surjection
<1>4. IsFiniteSet(ToSet(s))
  <2>1. IsFiniteSet(1..Len(s))
      BY <1>1, FS_Interval
  <2> QED BY <1>3, <2>1, FS_Surjection
<1>5. ASSUME NEW x \in S
      PROVE  ToSet(Append(s, x)) = ToSet(s) \cup {x}
  <2>1. /\ Append(s, x) \in Seq(S) /\ DOMAIN Append(s, x) = 1..(Len(s) + 1)
        /\ \A i \in 1..Len(s) : Append(s, x)[i] = s[i]
        /\ Append(s, x)[Len(s) + 1] = x
      BY <1>1
  <2>2. 1..(Len(s) + 1) = 1..Len(s) \cup {Len(s) + 1}
      BY <1>1
  <2> QED BY <1>2, <2>1, <2>2 DEF ToSet
<1>6. \A x \in S : Append(s, x) \in Seq(S) /\ Len(Append(s, x)) = Len(s) + 1
    OBVIOUS
<1> QED BY <1>1, <1>2, <1>4, <1>5, <1>6

VectorSet(vectors) == vectors \subseteq Vectors /\ IsFiniteSet(vectors)

IdSet(ids) == ids \subseteq Nat \ {0} /\ IsFiniteSet(ids)

TypedIndex(ix) == ix \in Indexes /\ VectorSet(ix.vectors)

IndexTyped ==
    /\ next_id \in Nat \ {0}
    /\ key_to_id \in [Keys -> 0..(next_id - 1)]
    /\ DOMAIN entries \subseteq 1..(next_id - 1)
    /\ needs_training \in BOOLEAN
    /\ untrained \in Seq(Vectors) /\ Len(untrained) < TrainingThreshold
    /\ TypedIndex(index) /\ TypedIndex(index_file)
    /\ metadata_file # NoFile => IdSet(DOMAIN metadata_file)

\* The vectors that are kept and the one that is added.
LEMMA VectorSets ==
    /\ VectorSet({})
    /\ \A vectors : VectorSet(vectors) => \A left \in SUBSET vectors : VectorSet(left)
    /\ \A vectors, others : VectorSet(vectors) /\ VectorSet(others) => VectorSet(vectors \cup others)
    /\ \A v \in Vectors : VectorSet({v})
<1>1. VectorSet({})
    BY FS_EmptySet DEF VectorSet
<1>2. ASSUME NEW vectors, VectorSet(vectors), NEW left \in SUBSET vectors PROVE VectorSet(left)
    BY <1>2, FS_Subset DEF VectorSet
<1>3. ASSUME NEW vectors, NEW others, VectorSet(vectors), VectorSet(others)
      PROVE  VectorSet(vectors \cup others)
    BY <1>3, FS_Union DEF VectorSet
<1>4. \A v \in Vectors : VectorSet({v})
    BY FS_Singleton DEF VectorSet
<1> QED BY <1>1, <1>2, <1>3, <1>4

\* What may be left of an index, and what has been added to it, is an index.
LEMMA IndexFacts ==
    /\ TypedIndex(NoIndex)
    /\ IndexTyped => TypedIndex(Index)
    /\ \A ix : TypedIndex(ix) => \A id : \A kept \in Without(ix, id) : TypedIndex(kept)
    /\ \A ix, vectors : TypedIndex(ix) /\ VectorSet(vectors) =>
          /\ TypedIndex(AddAll(ix, vectors))
          /\ AddAll(ix, vectors).kind = ix.kind
          /\ AddAll(ix, vectors).vectors = ix.vectors \cup vectors
<1>1. TypedIndex(NoIndex)
    BY VectorSets DEF TypedIndex, NoIndex, Indexes, Kinds
<1>2. IndexTyped => TypedIndex(Index)
  <2>1. TypedIndex([NoIndex EXCEPT !.kind = "flat"])
    <3>1. [NoIndex EXCEPT !.kind = "flat"] = [kind |-> "flat", vectors |-> {}]
        BY DEF NoIndex
    <3> QED BY <3>1, VectorSets DEF TypedIndex, Indexes, Kinds
  <2> QED BY <2>1 DEF IndexTyped, Index
<1>3. ASSUME NEW ix, TypedIndex(ix), NEW id, NEW kept \in Without(ix, id)
      PROVE  TypedIndex(kept)
  <2> DEFINE others == {v \in ix.vectors : v.id # id}
  <2>1. CASE ix.kind = "shifted"
    <3>1. PICK left \in SUBSET ix.vectors : kept = [ix EXCEPT !.vectors = left]
        BY <1>3, <2>1 DEF Without
    <3>2. VectorSet(left) /\ left \in SUBSET Vectors
        BY <1>3, <3>1, VectorSets DEF TypedIndex, VectorSet
    <3>3. kept \in Indexes /\ kept.vectors = left
        BY <1>3, <3>1, <3>2 DEF TypedIndex, Indexes
    <3> QED BY <3>2, <3>3 DEF TypedIndex
  <2>2. CASE ix.kind # "shifted"
    <3>1. PICK kind \in Kinds : kept = [kind |-> kind, vectors |-> others]
      <4>1. kept = [kind |-> IF ix.kind = "trained" /\ others # ix.vectors THEN "shifted" ELSE ix.kind,
                    vectors |-> others]
          BY <1>3, <2>2 DEF Without
      <4>2. ix.kind \in Kinds /\ "shifted" \in Kinds
          BY <1>3 DEF TypedIndex, Indexes, Kinds
      <4> HIDE DEF others
      <4> QED BY <4>1, <4>2
    <3>2. VectorSet(others)
        BY <1>3, VectorSets DEF TypedIndex
    <3> HIDE DEF others
    <3> QED BY <3>1, <3>2 DEF TypedIndex, Indexes, VectorSet
  <2> QED BY <2>1, <2>2
<1>4. ASSUME NEW ix, NEW vectors, TypedIndex(ix), VectorSet(vectors)
      PROVE  /\ TypedIndex(AddAll(ix, vectors))
             /\ AddAll(ix, vectors).kind = ix.kind
             /\ AddAll(ix, vectors).vectors = ix.vectors \cup vectors
  <2>1. ix \in Indexes /\ VectorSet(ix.vectors \cup vectors)
      BY <1>4, VectorSets DEF TypedIndex
  <2>2. /\ AddAll(ix, vectors) \in Indexes /\ AddAll(ix, vectors).kind = ix.kind
        /\ AddAll(ix, vectors).vectors = ix.vectors \cup vectors
      BY <2>1 DEF AddAll, Indexes, VectorSet
  <2> QED BY <2>1, <2>2 DEF TypedIndex
<1> QED BY <1>1, <1>2, <1>3, <1>4

\* An upsert: the id, what the index keeps, and the two ways a vector is added.
LEMMA UpsertFacts ==
    ASSUME IndexTyped, NEW k \in Keys, NEW r \in Record, UpsertVector(k, r)
    PROVE  \E id \in Nat \ {0} : \E kept \in IF key_to_id[k] # 0 THEN Without(Index, id) ELSE {Index} :
             /\ id = IF key_to_id[k] # 0 THEN key_to_id[k] ELSE next_id
             /\ TypedIndex(kept) /\ Vector(id, k, r) \in Vectors /\ id \in 1..next_id
             /\ \/ NeedsTraining /\ BufferOrTrain(kept, Vector(id, k, r))
                \/ ~ NeedsTraining /\ Add(kept, Vector(id, k, r))
             /\ entries' = [i \in DOMAIN entries \cup {id} |->
                              IF i = id THEN [key |-> k, document |-> r] ELSE entries[i]]
             /\ key_to_id' = [key_to_id EXCEPT ![k] = id]
             /\ next_id' = next_id + 1
             /\ UNCHANGED files
<1> DEFINE id == IF key_to_id[k] # 0 THEN key_to_id[k] ELSE next_id
           left == IF key_to_id[k] # 0 THEN Without(Index, id) ELSE {Index}
<1>1. next_id \in Nat \ {0} /\ key_to_id[k] \in 0..(next_id - 1)
    BY DEF IndexTyped
<1>2. id \in 1..next_id /\ id \in Nat \ {0}
    BY <1>1
<1>3. /\ \E kept \in left :
             IF NeedsTraining THEN BufferOrTrain(kept, Vector(id, k, r)) ELSE Add(kept, Vector(id, k, r))
      /\ entries' = [i \in DOMAIN entries \cup {id} |->
                       IF i = id THEN [key |-> k, document |-> r] ELSE entries[i]]
      /\ key_to_id' = [key_to_id EXCEPT ![k] = id]
      /\ next_id' = next_id + 1
      /\ UNCHANGED files
    BY DEF UpsertVector
<1>4. PICK kept \in left :
         IF NeedsTraining THEN BufferOrTrain(kept, Vector(id, k, r)) ELSE Add(kept, Vector(id, k, r))
    BY <1>3
<1>5. TypedIndex(kept)
    BY <1>4, IndexFacts
<1>6. Vector(id, k, r) \in Vectors
    BY <1>2 DEF Vector, Vectors
<1>7. kept \in IF key_to_id[k] # 0 THEN Without(Index, id) ELSE {Index}
    OBVIOUS
<1>8. id = IF key_to_id[k] # 0 THEN key_to_id[k] ELSE next_id
    OBVIOUS
<1> HIDE DEF id, left
<1> QED BY <1>2, <1>3, <1>4, <1>5, <1>6, <1>7, <1>8

\* An empty buffer does not wait for training, and nothing has no ids.
LEMMA Empties ==
    /\ <<>> \in Seq(Vectors) /\ Len(<<>>) < TrainingThreshold
    /\ DOMAIN [i \in {} |-> Absent] = {} /\ IdSet({})
    /\ \A n \in Nat : IdSet(1..n)
<1>1. TrainingThreshold \in Nat \ {0}
    BY FaissAssumption
<1>2. <<>> \in Seq(Vectors) /\ Len(<<>>) = 0
    OBVIOUS
<1>3. IdSet({})
    BY FS_EmptySet DEF IdSet
<1>4. ASSUME NEW n \in Nat PROVE IdSet(1..n)
  <2>1. 1..n \subseteq Nat \ {0}
      OBVIOUS
  <2>2. IsFiniteSet(1..n)
      BY FS_Interval
  <2> QED BY <2>1, <2>2 DEF IdSet
<1> QED BY <1>1, <1>2, <1>3, <1>4

\* An upsert takes a new id, and trains the index once its buffer is full.
LEMMA UpsertTyped ==
    ASSUME IndexTyped, NEW k \in Keys, NEW r \in Record, UpsertVector(k, r)
    PROVE  IndexTyped'
<1>1. PICK id \in Nat \ {0} :
         \E kept \in IF key_to_id[k] # 0 THEN Without(Index, id) ELSE {Index} :
             /\ id = IF key_to_id[k] # 0 THEN key_to_id[k] ELSE next_id
             /\ TypedIndex(kept) /\ Vector(id, k, r) \in Vectors /\ id \in 1..next_id
             /\ \/ NeedsTraining /\ BufferOrTrain(kept, Vector(id, k, r))
                \/ ~ NeedsTraining /\ Add(kept, Vector(id, k, r))
             /\ entries' = [i \in DOMAIN entries \cup {id} |->
                              IF i = id THEN [key |-> k, document |-> r] ELSE entries[i]]
             /\ key_to_id' = [key_to_id EXCEPT ![k] = id]
             /\ next_id' = next_id + 1
             /\ UNCHANGED files
    BY UpsertFacts
<1> DEFINE v == Vector(id, k, r)
           buffered == Append(untrained, v)
<1>7. PICK kept : /\ TypedIndex(kept)
                  /\ \/ NeedsTraining /\ BufferOrTrain(kept, v)
                     \/ ~ NeedsTraining /\ Add(kept, v)
    BY <1>1
<1>2. v \in Vectors /\ untrained \in Seq(Vectors) /\ Len(untrained) < TrainingThreshold
    BY <1>1 DEF IndexTyped
<1>3. /\ buffered \in Seq(Vectors) /\ Len(buffered) = Len(untrained) + 1
      /\ VectorSet(ToSet(buffered))
  <2>1. buffered \in Seq(Vectors) /\ Len(buffered) = Len(untrained) + 1
      BY <1>2, ElementsFacts
  <2> HIDE DEF buffered
  <2> QED BY <2>1, ElementsFacts DEF VectorSet
<1>4. /\ next_id' \in Nat \ {0} /\ key_to_id' \in [Keys -> 0..(next_id' - 1)]
      /\ DOMAIN entries' \subseteq 1..(next_id' - 1)
  <2>1. next_id \in Nat \ {0} /\ key_to_id \in [Keys -> 0..(next_id - 1)] /\ DOMAIN entries \subseteq 1..(next_id - 1)
      BY DEF IndexTyped
  <2>2. next_id' = next_id + 1 /\ DOMAIN entries' = DOMAIN entries \cup {id} /\ id \in 1..next_id
      BY <1>1
  <2>3. 0..(next_id' - 1) = 0..next_id /\ 1..(next_id' - 1) = 1..next_id
      BY <2>1, <2>2
  <2>4. 0..(next_id - 1) \subseteq 0..next_id /\ 1..(next_id - 1) \subseteq 1..next_id /\ id \in 0..next_id
      BY <2>1, <2>2
  <2>5. key_to_id' \in [Keys -> 0..next_id]
      BY <1>1, <2>1, <2>4
  <2> QED BY <2>1, <2>2, <2>3, <2>4, <2>5
<1>5. /\ needs_training' \in BOOLEAN
      /\ untrained' \in Seq(Vectors) /\ Len(untrained') < TrainingThreshold
      /\ TypedIndex(index')
  <2>1. CASE Add(kept, v)
      BY <1>2, <1>7, <2>1, VectorSets, IndexFacts DEF Add
  <2>2. CASE BufferOrTrain(kept, v)
    <3>1. CASE Len(untrained) + 1 >= TrainingThreshold
      <4>1. Train(kept, buffered)
          BY <2>2, <3>1 DEF BufferOrTrain
      <4>2. TypedIndex(index')
        <5>1. CASE index' = AddAll(kept, ToSet(buffered))
            BY <1>3, <1>7, <5>1, IndexFacts
        <5>2. CASE index' = [kind |-> "trained", vectors |-> ToSet(buffered)]
          <6> HIDE DEF buffered
          <6> QED BY <1>3, <5>2 DEF TypedIndex, Indexes, Kinds, VectorSet
        <5> QED BY <4>1, <5>1, <5>2 DEF Train
      <4>3. untrained' = <<>> /\ needs_training' = FALSE
          BY <4>1 DEF Train
      <4> QED BY <4>2, <4>3, Empties
    <3>2. CASE ~ (Len(untrained) + 1 >= TrainingThreshold)
      <4>1. index' = kept /\ needs_training' = TRUE /\ untrained' = buffered
          BY <2>2, <3>2 DEF BufferOrTrain
      <4>2. Len(buffered) < TrainingThreshold
          BY <1>2, <1>3, <3>2, FaissAssumption
      <4> QED BY <1>3, <1>7, <4>1, <4>2
    <3> QED BY <3>1, <3>2
  <2> QED BY <1>7, <2>1, <2>2
<1>6. TypedIndex(index_file') /\ (metadata_file' # NoFile => IdSet(DOMAIN metadata_file'))
    BY <1>1 DEF files, IndexTyped
<1> QED BY <1>4, <1>5, <1>6 DEF IndexTyped

\* A removal makes no vectors.
LEMMA RemoveTyped ==
    ASSUME IndexTyped, NEW k \in Keys, RemoveVector(k)
    PROVE  IndexTyped'
<1>1. /\ UNCHANGED <<next_id, needs_training, untrained, files>>
      /\ \/ UNCHANGED <<index, entries, key_to_id>>
         \/ /\ index' \in Without(index, key_to_id[k])
            /\ entries' = [i \in DOMAIN entries \ {key_to_id[k]} |-> entries[i]]
            /\ key_to_id' = [key_to_id EXCEPT ![k] = 0]
    BY DEF RemoveVector
<1>2. key_to_id' \in [Keys -> 0..(next_id - 1)] /\ DOMAIN entries' \subseteq 1..(next_id - 1)
  <2>1. 0 \in 0..(next_id - 1)
      BY DEF IndexTyped
  <2> QED BY <1>1, <2>1 DEF IndexTyped
<1>3. TypedIndex(index')
    BY <1>1, IndexFacts DEF IndexTyped
<1> QED BY <1>1, <1>2, <1>3 DEF IndexTyped, files

\* The files are written and read again.
LEMMA FilesTyped ==
    ASSUME IndexTyped, FlushVectors \/ FlushMetadata \/ RecoverIndex \/ IndexEnds
    PROVE  IndexTyped'
<1>1. CASE FlushVectors
    BY <1>1 DEF FlushVectors, memory, IndexTyped
<1>2. CASE FlushMetadata
  <2>1. IsFiniteSet(DOMAIN entries)
    <3>1. IsFiniteSet(1..(next_id - 1))
        BY FS_Interval DEF IndexTyped
    <3> QED BY <3>1, FS_Subset DEF IndexTyped
  <2>2. Cardinality(DOMAIN entries) \in Nat
      BY <2>1, FS_CardinalityType
  <2>3. DOMAIN metadata_file' = 1..Cardinality(DOMAIN entries)
      BY <1>2 DEF FlushMetadata, Ids
  <2>4. IdSet(1..Cardinality(DOMAIN entries))
      BY <2>2, Empties
  <2> QED BY <1>2, <2>3, <2>4 DEF FlushMetadata, memory, IndexTyped
<1>3. CASE RecoverIndex
  <2> DEFINE found == EntriesOf(metadata_file)
  <2>1. IdSet(DOMAIN found)
      BY FS_EmptySet DEF EntriesOf, IdSet, IndexTyped
  <2>2. /\ index' = index_file /\ entries' = found /\ next_id' = NextIdOf(found)
        /\ key_to_id' = [k \in Keys |-> IF \E i \in DOMAIN found : found[i].key = k
                                        THEN CHOOSE i \in DOMAIN found : found[i].key = k ELSE 0]
        /\ needs_training' = FALSE /\ untrained' = <<>> /\ UNCHANGED files
      BY <1>3 DEF RecoverIndex
  <2> HIDE DEF found
  <2>3. next_id' \in Nat \ {0} /\ DOMAIN found \subseteq 1..(next_id' - 1)
      BY <2>1, <2>2, NextIdFacts DEF IdSet
  <2>4. 1..(next_id' - 1) \subseteq 0..(next_id' - 1) /\ 0 \in 0..(next_id' - 1)
    <3> DEFINE n == next_id'
    <3>1. n \in Nat \ {0}
        BY <2>3
    <3> HIDE DEF n
    <3>2. 1..(n - 1) \subseteq 0..(n - 1) /\ 0 \in 0..(n - 1)
        BY <3>1
    <3> QED BY <3>2 DEF n
  <2>5. key_to_id' \in [Keys -> 0..(next_id' - 1)]
    <3> SUFFICES ASSUME NEW k \in Keys
                 PROVE  (IF \E i \in DOMAIN found : found[i].key = k
                         THEN CHOOSE i \in DOMAIN found : found[i].key = k ELSE 0) \in 0..(next_id' - 1)
        BY <2>2
    <3> QED BY <2>3, <2>4
  <2>6. index_file' = index_file /\ metadata_file' = metadata_file
      BY <2>2 DEF files
  <2>7. entries' = found /\ index' = index_file /\ needs_training' = FALSE /\ untrained' = <<>>
      BY <2>2
  <2> QED BY <2>3, <2>5, <2>6, <2>7, Empties DEF IndexTyped
<1>4. CASE IndexEnds
  <2>1. index_file' = index_file /\ metadata_file' = metadata_file
      BY <1>4 DEF IndexEnds, files
  <2>2. /\ index' = NoIndex /\ DOMAIN entries' = {} /\ next_id' = 1 /\ needs_training' = FALSE
        /\ untrained' = <<>> /\ key_to_id' = [k \in Keys |-> 0]
      BY <1>4 DEF IndexEnds
  <2>3. key_to_id' \in [Keys -> 0..(1 - 1)]
      BY <2>2
  <2>4. next_id' \in Nat \ {0} /\ key_to_id' \in [Keys -> 0..(next_id' - 1)]
      BY <2>2, <2>3
  <2>5. DOMAIN entries' \subseteq 1..(next_id' - 1) /\ needs_training' \in BOOLEAN
      BY <2>2
  <2>6. untrained' \in Seq(Vectors) /\ Len(untrained') < TrainingThreshold
      BY <2>2, Empties
  <2> QED BY <2>1, <2>2, <2>4, <2>5, <2>6, IndexFacts DEF IndexTyped
<1> QED BY <1>1, <1>2, <1>3, <1>4

\* The files of an older release have the types FaissAssumption gives them.
LEMMA IndexInitTyped == IndexInit => IndexTyped
<1> SUFFICES ASSUME IndexInit PROVE IndexTyped
    OBVIOUS
<1>1. /\ index = NoIndex /\ DOMAIN entries = {} /\ next_id = 1 /\ needs_training = FALSE
      /\ untrained = <<>> /\ key_to_id = [k \in Keys |-> 0]
      /\ index_file = OldIndex /\ metadata_file = OldMetadata
    BY DEF IndexInit
<1>3. key_to_id \in [Keys -> 0..(1 - 1)]
    BY <1>1
<1>2. /\ TypedIndex(index_file)
      /\ metadata_file # NoFile => IdSet(DOMAIN metadata_file)
    BY <1>1, FaissAssumption DEF TypedIndex, Indexes, VectorSet, IdSet
<1>4. next_id \in Nat \ {0} /\ key_to_id \in [Keys -> 0..(next_id - 1)]
    BY <1>1, <1>3
<1>5. DOMAIN entries \subseteq 1..(next_id - 1) /\ needs_training \in BOOLEAN
    BY <1>1
<1>6. untrained \in Seq(Vectors) /\ Len(untrained) < TrainingThreshold
    BY <1>1, Empties
<1> QED BY <1>1, <1>2, <1>4, <1>5, <1>6, IndexFacts DEF IndexTyped

-----------------------------------------------------------------------------
(***************************************************************************)
(* Which steps touch the index, and when.                                  *)
(***************************************************************************)
\* What is asked of a put document, of a removed one, of a drain, which has a task where it
\* says so, and of references that are looked up;
\* each hit of an answer as long as its references has its own score.
Asked(q) ==
    /\ q.at \in {"idle", "document", "enqueued", "draining", "indexing", "records", "delete",
                 "embedding", "embedded", "found", "keyword", "answered"}
    /\ q.at \in {"draining", "indexing"} => DOMAIN q.batch \subseteq Keys
    /\ q.at = "indexing" => \A k \in FirstTask(DOMAIN q.batch) : q.batch[k] \in Record
    /\ q.at = "document" => q.batch \in Batches
    /\ q.at = "delete" => q.batch \in Deletions
    /\ q.at = "found" =>
         \E n \in Nat, collection \in Collections :
            q.references \in [1..n -> {k \in Keys : CollectionOf[k] = collection}]
    /\ Len(q.hits) = Len(q.references) =>
         \A i \in DOMAIN q.hits : q.hits[i].scored = q.hits[i].key

RequestsInv ==
    /\ request = [c \in Clients |-> request[c]]
    /\ \A c \in Clients : Asked(request[c])

CountsInv ==
    /\ phase \in {"down", "starting", "seeding", "indexing", "flushing seeds", "started",
                  "flushing", "stopped"}
    /\ outbox \in [Keys -> Value]
    /\ pending_tasks \in 0..QueueCapacity
    /\ requests \in 0..MaxRequests /\ starts \in 0..MaxStarts

SearchInv == ServiceInv /\ IndexTyped /\ RequestsInv /\ CountsInv

\* A step of the index or none of it.
IndexMoves ==
    \/ indexVars' = indexVars /\ starts' = starts /\ (phase' = phase \/ (phase # "down" /\ phase' # "down"))
    \/ /\ starts' = starts /\ phase' = phase
       /\ \/ \E k \in Keys, r \in Record : UpsertVector(k, r)
          \/ \E k \in Keys : RemoveVector(k)
    \/ /\ starts' = starts /\ phase # "down" /\ phase' # "down"
       /\ FlushVectors \/ FlushMetadata
    \/ phase = "down" /\ phase' # "down" /\ starts' = starts + 1 /\ RecoverIndex
    \/ phase # "down" /\ phase' = "down" /\ starts' = starts /\ IndexEnds

\* What a client waits for, and what else it leaves alone.
LEMMA WaitingSteps ==
    ASSUME SearchInv, NEW c \in Clients,
           \/ StoreGoesOn(c) \/ EnqueueDocument(c) \/ EndRecords(c) \/ EndRefused(c)
           \/ ListTasks(c) \/ TakeTask(c) \/ EndDrain(c)
           \/ Timeout(c) \/ LookUp(c) \/ Answer(c) \/ StoreFails(c) \/ EmbeddingEnds(c) \/ Search(c)
           \/ \E collection \in Collections : SearchIndex(c, collection) \/ KeywordFallback(c, collection)
           \/ \E k \in DocumentKeys, r \in Documents : UpsertDocument(c, k, r)
           \/ \E batch \in SentBatches : PutKvRecords(c, batch)
           \/ \E k \in DocumentKeys : DeleteDocument(c, k)
           \/ \E k \in Keys : DeleteKvRecord(c, k)
    PROVE  indexVars' = indexVars /\ starts' = starts /\ phase' = phase
<1>1. CASE StoreGoesOn(c) \/ StoreFails(c)
    BY <1>1 DEF StoreGoesOn, StoreFails, searchVars
<1>2. CASE EnqueueDocument(c) \/ EndRecords(c) \/ EndRefused(c)
    BY <1>2 DEF EnqueueDocument, EndRecords, EndRefused, Returned
<1>3. CASE \/ ListTasks(c) \/ TakeTask(c) \/ EndDrain(c)
           \/ Timeout(c) \/ LookUp(c) \/ Answer(c) \/ EmbeddingEnds(c)
    BY <1>3 DEF ListTasks, TakeTask, EndDrain, Drains, Timeout, LookUp, Answer, EmbeddingEnds, Moves, Goes
<1>4. CASE \E collection \in Collections : SearchIndex(c, collection) \/ KeywordFallback(c, collection)
    BY <1>4 DEF SearchIndex, KeywordFallback, Goes
<1>5. CASE Search(c)
    BY <1>5 DEF Search, Begin
<1>6. ASSUME NEW k, NEW r, UpsertDocument(c, k, r)
      PROVE  indexVars' = indexVars /\ starts' = starts /\ phase' = phase
    BY <1>6 DEF UpsertDocument, Begin
<1>7. ASSUME NEW batch, PutKvRecords(c, batch)
      PROVE  indexVars' = indexVars /\ starts' = starts /\ phase' = phase
    BY <1>7 DEF PutKvRecords, Begin
<1>8. ASSUME NEW k, DeleteDocument(c, k) \/ DeleteKvRecord(c, k)
      PROVE  indexVars' = indexVars /\ starts' = starts /\ phase' = phase
    BY <1>8 DEF DeleteDocument, DeleteKvRecord, Begin
<1> QED BY <1>1, <1>2, <1>3, <1>4, <1>5, <1>6, <1>7, <1>8

\* A document is removed from the index by its key.
LEMMA RemovalStep ==
    ASSUME SearchInv, NEW c \in Clients, RemoveDocument(c)
    PROVE  /\ starts' = starts /\ phase' = phase
           /\ \E k \in Keys : RemoveVector(k)
<1>1. /\ request[c].at = "delete" /\ Returned(c, {"ok"}, "idle")
      /\ \E k \in DOMAIN request[c].batch : RemoveVector(k)
    BY DEF RemoveDocument
<1>2. request[c].batch \in Deletions
    BY <1>1 DEF SearchInv, RequestsInv, Asked
<1>3. DOMAIN request[c].batch \subseteq Keys
    BY <1>2, DeletionFacts
<1>4. starts' = starts /\ phase' = phase
    BY <1>1 DEF Returned
<1> QED BY <1>1, <1>3, <1>4

\* A task of the outbox becomes a vector.
LEMMA DrainStep ==
    ASSUME SearchInv, NEW k \in Keys, DrainOutbox(k)
    PROVE  /\ starts' = starts /\ phase' = phase
           /\ \E r \in Record : UpsertVector(k, r)
<1>1. outbox[k] \in Record
    BY DEF SearchInv, CountsInv, DrainOutbox, Value
<1> QED BY <1>1 DEF DrainOutbox

\* So does the copy a request has made of one, unless its embedding fails.
LEMMA IndexTaskStep ==
    ASSUME SearchInv, NEW c \in Clients, IndexTask(c)
    PROVE  /\ starts' = starts /\ phase' = phase
           /\ indexVars' = indexVars \/ \E k \in Keys, r \in Record : UpsertVector(k, r)
<1> DEFINE batch == request[c].batch
<1>1. /\ request[c].at = "indexing" /\ starts' = starts /\ phase' = phase
      /\ \E k \in FirstTask(DOMAIN batch) : UpsertVector(k, batch[k]) \/ UNCHANGED indexVars
    BY DEF IndexTask
<1>2. DOMAIN batch \subseteq Keys /\ \A k \in FirstTask(DOMAIN batch) : batch[k] \in Record
    BY <1>1 DEF SearchInv, RequestsInv, Asked
<1>3. FirstTask(DOMAIN batch) \subseteq Keys
    BY <1>2 DEF FirstTask
<1> HIDE DEF batch
<1> QED BY <1>1, <1>2, <1>3

\* The steps of the process.
LEMMA ProcessSteps ==
    ASSUME SearchInv,
           \/ TaskLeaves \/ Start \/ SeedStore \/ SeedOutbox \/ SeedVectors \/ EndSeeding
           \/ Stop \/ EndStop \/ Destroy \/ Crash
    PROVE  IndexMoves
<1>1. CASE TaskLeaves
    BY <1>1 DEF TaskLeaves, IndexMoves
<1>2. CASE Start
    BY <1>2 DEF Start, IndexMoves
<1>3. CASE SeedStore
    BY <1>3 DEF SeedStore, IndexMoves
<1>4. CASE SeedOutbox
    BY <1>4 DEF SeedOutbox, IndexMoves
<1>5. CASE SeedVectors \/ EndSeeding
    BY <1>5 DEF SeedVectors, EndSeeding, IndexMoves
<1>6. CASE Stop \/ EndStop
    BY <1>6 DEF Stop, EndStop, IndexMoves
<1>7. CASE Destroy \/ Crash
    BY <1>7 DEF Destroy, Crash, Ends, IndexMoves
<1> QED BY <1>1, <1>2, <1>3, <1>4, <1>5, <1>6, <1>7

\* Whatever the service does, its index takes one of its own steps or none.
LEMMA IndexNext ==
    ASSUME SearchInv, [Next]_allVars
    PROVE  IndexMoves
<1>1. ASSUME NEW c \in Clients, RemoveDocument(c) PROVE IndexMoves
    BY <1>1, RemovalStep DEF IndexMoves
<1>2. ASSUME NEW k \in Keys, DrainOutbox(k) PROVE IndexMoves
    BY <1>2, DrainStep DEF IndexMoves
<1>5. ASSUME NEW c \in Clients, IndexTask(c) PROVE IndexMoves
    BY <1>5, IndexTaskStep DEF IndexMoves
<1>3. CASE UNCHANGED allVars
    BY <1>3 DEF allVars, searchVars, IndexMoves
<1>4. ASSUME indexVars' = indexVars, starts' = starts, phase' = phase PROVE IndexMoves
    BY <1>4 DEF IndexMoves
<1> QED BY <1>1, <1>2, <1>3, <1>4, <1>5, WaitingSteps, ProcessSteps DEF Next, RequestStep

\* The steps of the index keep its types, recovery and the end of the process included.
LEMMA MovesTyped ==
    ASSUME IndexTyped, IndexMoves
    PROVE  IndexTyped'
<1>1. CASE indexVars' = indexVars
    BY <1>1 DEF indexVars, memory, files, IndexTyped
<1>2. CASE indexVars' # indexVars
  <2>1. \/ \E k \in Keys, r \in Record : UpsertVector(k, r)
        \/ \E k \in Keys : RemoveVector(k)
        \/ FlushVectors \/ FlushMetadata \/ RecoverIndex \/ IndexEnds
      BY <1>2 DEF IndexMoves
  <2> QED BY <2>1, UpsertTyped, RemoveTyped, FilesTyped
<1> QED BY <1>1, <1>2

-----------------------------------------------------------------------------
(***************************************************************************)
(* What is answered.                                                       *)
(***************************************************************************)
\* As scores may order them, the elements of a finite set make a sequence.
LEMMA RankingFacts ==
    ASSUME NEW E, IsFiniteSet(E), NEW size \in Nat, NEW s \in Rankings(E, size)
    PROVE  \E n \in Nat : s \in [1..n -> E]
<1> DEFINE n == IF Cardinality(E) < size THEN Cardinality(E) ELSE size
<1>1. n \in Nat
    BY FS_CardinalityType
<1>2. s \in [1..n -> E]
    BY DEF Rankings
<1> HIDE DEF n
<1> QED BY <1>1, <1>2

\* The references of finitely many vectors are finitely many.
LEMMA FiniteFound ==
    ASSUME NEW label, IsFiniteSet(DOMAIN label), NEW documents
    PROVE  IsFiniteSet(Found(label, documents))
<1> DEFINE W == {w \in DOMAIN label : label[w] \in DOMAIN documents}
           f == [v \in W |-> Reference(documents[label[v]].key, v)]
<1>1. IsFiniteSet(W)
    BY FS_Subset
<1>2. f \in Surjection(W, Found(label, documents))
    BY DEF Surjection, Found
<1> HIDE DEF W, f
<1> QED BY <1>1, <1>2, FS_Surjection

\* The buffer holds finitely many vectors.
LEMMA FiniteBuffered == IndexTyped => IsFiniteSet(Buffered)
<1> SUFFICES ASSUME IndexTyped PROVE IsFiniteSet(Buffered)
    OBVIOUS
<1> DEFINE W == ToSet(untrained)
           f == [v \in W |-> Reference(v.key, v)]
<1>1. IsFiniteSet(W)
    BY ElementsFacts DEF IndexTyped
<1>2. f \in Surjection(W, Buffered)
    BY DEF Surjection, Buffered
<1> HIDE DEF W, f
<1> QED BY <1>1, <1>2, FS_Surjection

\* A search returns a sequence of references to documents of its collection.
LEMMA ResultsFacts ==
    ASSUME IndexTyped, NEW keys, NEW references \in SearchResults(keys, TopK)
    PROVE  \E n \in Nat : [i \in DOMAIN references |-> references[i].key] \in [1..n -> keys]
<1>1. PICK label \in UNION {Labels(index, ToSet(asked)) : asked \in Best(TopK)} :
         references \in Rankings({r \in Found(label, entries) \cup Buffered : r.key \in keys}, TopK)
    BY DEF SearchResults
<1>7. PICK asked \in Best(TopK) : label \in Labels(index, ToSet(asked))
    OBVIOUS
<1>8. PICK vectors \in Visited(index) : asked \in Rankings(vectors, Oversampling * TopK)
    BY DEF Best
<1> DEFINE E == {r \in Found(label, entries) \cup Buffered : r.key \in keys}
<1>2. IsFiniteSet(vectors)
  <2>1. vectors \in SUBSET index.vectors /\ IsFiniteSet(index.vectors)
      BY <1>8 DEF Visited, IndexTyped, TypedIndex, VectorSet
  <2> QED BY <2>1, FS_Subset
<1>3. Oversampling * TopK \in Nat /\ TopK \in Nat
    BY FaissAssumption, SearchAssumption
<1>4. IsFiniteSet(ToSet(asked))
  <2>1. PICK n \in Nat : asked \in [1..n -> vectors]
      BY <1>2, <1>3, <1>8, RankingFacts
  <2>2. asked \in Seq(vectors)
      BY <2>1
  <2> QED BY <2>2, ElementsFacts
<1>5. IsFiniteSet(E)
  <2>1. DOMAIN label = ToSet(asked)
      BY <1>7 DEF Labels
  <2>2. IsFiniteSet(Found(label, entries) \cup Buffered)
      BY <1>4, <2>1, FiniteFound, FiniteBuffered, FS_Union
  <2>3. E \in SUBSET (Found(label, entries) \cup Buffered)
      OBVIOUS
  <2> QED BY <2>2, <2>3, FS_Subset
<1>6. \A r \in E : r.key \in keys
    OBVIOUS
<1>9. references \in Rankings(E, TopK)
    BY <1>1
<1> HIDE DEF E
<1>10. PICK n \in Nat : references \in [1..n -> E]
    BY <1>3, <1>5, <1>9, RankingFacts
<1> QED BY <1>6, <1>10

\* When all the references of one collection are found, they are looked up place by place.
LEMMA LookUpFacts ==
    ASSUME NEW n \in Nat, NEW collection \in Collections,
           NEW keys \in [1..n -> {k \in Keys : CollectionOf[k] = collection}],
           NEW m \in Nat, DOMAIN MultiGet(keys) = 1..m
    PROVE  m = n => \A i \in 1..n : MultiGet(keys)[i] = keys[i]
<1> DEFINE found == {i \in 1..n : Readable(keys[i])}
<1>1. /\ MultiGet(keys) =
           [l \in 1..Cardinality(found) |->
              keys[CHOOSE i \in found : Cardinality({j \in found : NotAfter(keys, j, i)}) = l]]
    BY DEF MultiGet
<1>2. IsFiniteSet(1..n) /\ Cardinality(1..n) = n
    BY FS_Interval
<1>3. IsFiniteSet(found) /\ Cardinality(found) \in Nat /\ (Cardinality(found) = n => found = 1..n)
  <2>1. found \in SUBSET (1..n)
      OBVIOUS
  <2> QED BY <1>2, <2>1, FS_Subset, FS_CardinalityType
<1> SUFFICES ASSUME m = n, NEW i \in 1..n
             PROVE  MultiGet(keys)[i] = keys[i]
    OBVIOUS
<1> HIDE DEF found
<1>4. Cardinality(found) = n
  <2>1. 1..Cardinality(found) = 1..n
      BY <1>1
  <2>2. n \in 1..n
      OBVIOUS
  <2> QED BY <1>3, <2>1, <2>2
<1>5. found = 1..n
    BY <1>3, <1>4
<1>6. ASSUME NEW j \in 1..n
      PROVE  Cardinality({l \in 1..n : NotAfter(keys, l, j)}) = j
  <2>1. \A l \in 1..n : CollectionOf[keys[l]] = collection /\ collection \in Int
      BY DEF Collections
  <2>2. \A l \in 1..n : NotAfter(keys, l, j) <=> l <= j
      BY <2>1 DEF NotAfter
  <2>3. {l \in 1..n : NotAfter(keys, l, j)} = 1..j
      BY <2>2
  <2>4. Cardinality(1..j) = j
    <3>1. j \in Int /\ 1 \in Int /\ ~ (1 > j) /\ j - 1 + 1 = j
        OBVIOUS
    <3> QED BY <3>1, FS_Interval
  <2> QED BY <2>3, <2>4
<1>7. (CHOOSE j \in 1..n : Cardinality({l \in 1..n : NotAfter(keys, l, j)}) = i) = i
    BY <1>6
<1>8. MultiGet(keys) =
         [l \in 1..n |->
            keys[CHOOSE j \in 1..n : Cardinality({h \in 1..n : NotAfter(keys, h, j)}) = l]]
    BY <1>1, <1>4, <1>5
<1> QED BY <1>7, <1>8

-----------------------------------------------------------------------------
(***************************************************************************)
(* The requests and the counts of the service, step by step.               *)
(***************************************************************************)
\* A request with no references yet.
LEMMA PlainRequest ==
    ASSUME NEW at, NEW batch,
           at \in {"idle", "document", "enqueued", "records", "delete", "embedding", "embedded",
                   "keyword", "answered"},
           at = "document" => batch \in Batches, at = "delete" => batch \in Deletions
    PROVE  Asked(Request(at, batch, <<>>, <<>>))
BY DEF Request, Asked

\* A step of one client leaves the requests of the others.
LEMMA RequestMoves ==
    ASSUME RequestsInv, NEW c \in Clients, NEW q, Asked(q), request' = [request EXCEPT ![c] = q]
    PROVE  RequestsInv'
<1> DEFINE f == request
<1>1. f = [d \in Clients |-> f[d]] /\ \A d \in Clients : Asked(f[d])
    BY DEF RequestsInv
<1>2. request' = [f EXCEPT ![c] = q]
    OBVIOUS
<1> HIDE DEF f
<1>3. request' = [d \in Clients |-> IF d = c THEN q ELSE f[d]]
    BY <1>1, <1>2
<1>4. request' = [d \in Clients |-> request'[d]]
    BY <1>3
<1>5. \A d \in Clients : Asked(request'[d])
    BY <1>1, <1>3
<1> QED BY <1>4, <1>5 DEF RequestsInv, Asked

\* A request begins.
LEMMA BeginMoves ==
    ASSUME SearchInv, NEW c \in Clients, NEW at, NEW batch, Begin(c, at, batch),
           at \in {"document", "records", "delete", "embedding", "keyword"},
           at = "document" => batch \in Batches, at = "delete" => batch \in Deletions
    PROVE  /\ RequestsInv' /\ requests' \in 0..MaxRequests
           /\ phase' = phase /\ starts' = starts
<1>1. RequestsInv'
  <2>1. Asked(Request(at, batch, <<>>, <<>>))
      BY PlainRequest
  <2>2. request' = [request EXCEPT ![c] = Request(at, batch, <<>>, <<>>)]
      BY DEF Begin
  <2> QED BY <2>1, <2>2, RequestMoves DEF SearchInv
<1>2. requests' = requests + 1 /\ requests < MaxRequests /\ requests \in 0..MaxRequests
    BY DEF Begin, SearchInv, CountsInv
<1>3. requests' \in 0..MaxRequests
    BY <1>2, SearchAssumption
<1> QED BY <1>1, <1>3 DEF Begin

\* It goes on to where it has no references.
LEMMA PlainMoves ==
    ASSUME SearchInv, NEW c \in Clients, NEW at, Moves(c, at),
           at \in {"idle", "keyword", "embedded"}
    PROVE  RequestsInv' /\ CountsInv'
<1>1. Asked(Request(at, NoBatch, <<>>, <<>>))
    BY PlainRequest
<1>2. request' = [request EXCEPT ![c] = Request(at, NoBatch, <<>>, <<>>)]
    BY DEF Moves, Goes
<1>3. RequestsInv'
    BY <1>1, <1>2, RequestMoves DEF SearchInv
<1>4. UNCHANGED <<phase, outbox, requests, starts, pending_tasks>>
    BY DEF Moves, Goes
<1> QED BY <1>3, <1>4 DEF SearchInv, CountsInv

\* Its call returns.
LEMMA ReturnMoves ==
    ASSUME SearchInv, NEW c \in Clients, NEW results, NEW at \in {"idle", "enqueued"},
           Returned(c, results, at), outbox' \in [Keys -> Value]
    PROVE  RequestsInv' /\ CountsInv'
<1>1. Asked(Request(at, NoBatch, <<>>, <<>>))
    BY PlainRequest
<1>2. request' = [request EXCEPT ![c] = Request(at, NoBatch, <<>>, <<>>)]
    BY DEF Returned
<1>3. RequestsInv'
    BY <1>1, <1>2, RequestMoves DEF SearchInv
<1>4. UNCHANGED <<phase, pending_tasks, requests, starts>>
    BY DEF Returned
<1> QED BY <1>3, <1>4 DEF SearchInv, CountsInv

\* The records of a batch become tasks.
LEMMA TasksStaged ==
    ASSUME NEW tasks \in [Keys -> Value], NEW batch \in Batches
    PROVE  Staged(tasks, batch, DOMAIN batch) \in [Keys -> Value]
<1>1. \A k \in DOMAIN batch : batch[k] \in Value
    BY BatchFacts DEF Value
<1> HIDE DEF Keys, Value
<1> QED BY <1>1 DEF Staged

\* The index and the store answer.
LEMMA AnswerMoves ==
    ASSUME SearchInv, NEW c \in Clients,
           \/ LookUp(c)
           \/ \E collection \in Collections : SearchIndex(c, collection) \/ KeywordFallback(c, collection)
    PROVE  RequestsInv' /\ CountsInv'
<1>1. ASSUME NEW q, Asked(q), Goes(c, q), UNCHANGED pending_tasks
      PROVE  RequestsInv' /\ CountsInv'
  <2>1. RequestsInv'
      BY <1>1, RequestMoves DEF SearchInv, Goes
  <2> QED BY <1>1, <2>1 DEF SearchInv, CountsInv, Goes
<1>2. ASSUME LookUp(c)
      PROVE  RequestsInv' /\ CountsInv'
  <2> DEFINE keys == request[c].references
             q == Request("answered", NoBatch, keys,
                          [i \in DOMAIN MultiGet(keys) |-> Hit(MultiGet(keys)[i], keys[i])])
  <2>1. Goes(c, q) /\ UNCHANGED pending_tasks /\ request[c].at = "found"
      BY <1>2 DEF LookUp
  <2>2. PICK n \in Nat, collection \in Collections :
           keys \in [1..n -> {k \in Keys : CollectionOf[k] = collection}]
      BY <2>1 DEF SearchInv, RequestsInv, Asked
  <2> HIDE DEF keys
  <2>3. PICK m \in Nat : DOMAIN MultiGet(keys) = 1..m
    <3> DEFINE found == {i \in 1..n : Readable(keys[i])}
    <3>1. found \in SUBSET (1..n) /\ DOMAIN MultiGet(keys) = 1..Cardinality(found)
        BY <2>2 DEF MultiGet
    <3>2. IsFiniteSet(1..n)
        BY FS_Interval
    <3> HIDE DEF found
    <3>3. IsFiniteSet(found)
        BY <3>1, <3>2, FS_Subset
    <3>4. Cardinality(found) \in Nat
        BY <3>3, FS_CardinalityType
    <3> QED BY <3>1, <3>4
  <2> DEFINE hits == [i \in DOMAIN MultiGet(keys) |-> Hit(MultiGet(keys)[i], keys[i])]
  <2>4. Len(hits) = m /\ DOMAIN hits = 1..m /\ Len(keys) = n
      BY <2>2, <2>3
  <2>5. ASSUME Len(hits) = Len(keys), NEW i \in DOMAIN hits
        PROVE  hits[i].scored = hits[i].key
    <3>1. m = n /\ i \in 1..n
        BY <2>4, <2>5
    <3>2. MultiGet(keys)[i] = keys[i]
        BY <2>2, <2>3, <3>1, LookUpFacts
    <3>3. hits[i] = Hit(MultiGet(keys)[i], keys[i])
        BY <2>5
    <3> QED BY <3>2, <3>3 DEF Hit
  <2>6. Asked(q)
    <3> HIDE DEF hits
    <3>1. q = Request("answered", NoBatch, keys, hits)
        BY DEF hits
    <3>2. q.at = "answered" /\ q.references = keys /\ q.hits = hits
        BY <3>1 DEF Request
    <3> HIDE DEF q
    <3> QED BY <2>5, <3>2 DEF Asked
  <2> HIDE DEF q, hits
  <2> QED BY <1>1, <2>1, <2>6
<1>3. ASSUME NEW collection \in Collections, SearchIndex(c, collection)
      PROVE  RequestsInv' /\ CountsInv'
  <2> DEFINE keys == {k \in Keys : CollectionOf[k] = collection}
  <2>1. PICK references \in SearchResults(keys, TopK) :
           Goes(c, Request("found", NoBatch, [i \in DOMAIN references |-> references[i].key], <<>>))
      BY <1>3 DEF SearchIndex
  <2> DEFINE found == [i \in DOMAIN references |-> references[i].key]
             q == Request("found", NoBatch, found, <<>>)
  <2>2. \E n \in Nat : found \in [1..n -> keys]
      BY <2>1, ResultsFacts DEF SearchInv
  <2>3. q.at = "found" /\ q.references = found /\ q.hits = <<>>
      BY DEF Request
  <2>4. Goes(c, q) /\ UNCHANGED pending_tasks
      BY <1>3, <2>1 DEF SearchIndex
  <2> HIDE DEF q, found
  <2>5. Asked(q)
      BY <2>2, <2>3 DEF Asked
  <2> QED BY <1>1, <2>4, <2>5
<1>4. ASSUME NEW collection \in Collections, KeywordFallback(c, collection)
      PROVE  RequestsInv' /\ CountsInv'
  <2>1. PICK documents :
           /\ Goes(c, Request("answered", NoBatch, documents,
                              [i \in DOMAIN documents |-> Hit(documents[i], documents[i])]))
           /\ UNCHANGED pending_tasks
      BY <1>4 DEF KeywordFallback
  <2> DEFINE hits == [i \in DOMAIN documents |-> Hit(documents[i], documents[i])]
             q == Request("answered", NoBatch, documents, hits)
  <2>2. \A i \in DOMAIN hits : hits[i].scored = hits[i].key
      BY DEF Hit
  <2>3. q.at = "answered" /\ q.hits = hits
      BY DEF Request
  <2>4. Goes(c, q) /\ UNCHANGED pending_tasks
      BY <2>1
  <2> HIDE DEF q, hits
  <2>5. Asked(q)
      BY <2>2, <2>3 DEF Asked
  <2> QED BY <1>1, <2>4, <2>5
<1> QED BY <1>2, <1>3, <1>4

\* What a client asks for.
LEMMA AskMoves ==
    ASSUME SearchInv, NEW c \in Clients,
           \/ Search(c)
           \/ \E k \in DocumentKeys, r \in Documents : UpsertDocument(c, k, r)
           \/ \E batch \in SentBatches : PutKvRecords(c, batch)
           \/ \E k \in DocumentKeys : DeleteDocument(c, k)
           \/ \E k \in Keys : DeleteKvRecord(c, k)
    PROVE  RequestsInv' /\ CountsInv'
<1>1. CASE Search(c)
  <2>1. /\ Begin(c, "keyword", NoBatch) \/ Begin(c, "embedding", NoBatch)
        /\ outbox' = outbox
      BY <1>1 DEF Search
  <2>2. pending_tasks' \in 0..QueueCapacity
    <3>1. pending_tasks \in 0..QueueCapacity /\ QueueCapacity \in Nat
        BY SearchAssumption DEF SearchInv, CountsInv
    <3>2. pending_tasks' = pending_tasks
          \/ (~ (pending_tasks >= QueueCapacity) /\ pending_tasks' = pending_tasks + 1)
        BY <1>1 DEF Search, PoolRefuses
    <3> QED BY <3>1, <3>2
  <2>3. /\ RequestsInv' /\ requests' \in 0..MaxRequests
        /\ phase' = phase /\ starts' = starts
      BY <2>1, BeginMoves
  <2> QED BY <2>1, <2>2, <2>3 DEF SearchInv, CountsInv
<1>2. ASSUME NEW k \in DocumentKeys, NEW r \in Documents, UpsertDocument(c, k, r)
      PROVE  RequestsInv' /\ CountsInv'
  <2>1. [j \in {k} |-> r] \in Batches
    <3>1. k \in Keys /\ r \in Record
        BY SearchAssumption
    <3>2. {k} \in (SUBSET Keys) \ {{}} /\ [j \in {k} |-> r] \in [{k} -> Record]
        BY <3>1
    <3> QED BY <3>2 DEF Batches
  <2>2. Begin(c, "document", [j \in {k} |-> r]) /\ UNCHANGED <<outbox, pending_tasks>>
      BY <1>2 DEF UpsertDocument
  <2> QED BY <2>1, <2>2, BeginMoves DEF SearchInv, CountsInv
<1>3. ASSUME NEW batch \in SentBatches, PutKvRecords(c, batch)
      PROVE  RequestsInv' /\ CountsInv'
  <2>1. Begin(c, "records", batch) /\ UNCHANGED <<outbox, pending_tasks>>
      BY <1>3 DEF PutKvRecords
  <2> QED BY <2>1, BeginMoves DEF SearchInv, CountsInv
<1>4. ASSUME NEW k \in DocumentKeys, DeleteDocument(c, k)
      PROVE  RequestsInv' /\ CountsInv'
  <2>1. k \in Keys
      BY SearchAssumption
  <2>2. [j \in {k} |-> Absent] \in Deletions
      BY <2>1 DEF Deletions
  <2>3. /\ Begin(c, "delete", [j \in {k} |-> Absent])
        /\ outbox' = [outbox EXCEPT ![k] = Absent] /\ pending_tasks' = pending_tasks
      BY <1>4 DEF DeleteDocument
  <2>4. outbox' \in [Keys -> Value]
    <3>1. Absent \in Value /\ outbox \in [Keys -> Value]
        BY DEF SearchInv, CountsInv, Value
    <3> HIDE DEF Keys, Value
    <3> QED BY <2>3, <3>1
  <2> QED BY <2>2, <2>3, <2>4, BeginMoves DEF SearchInv, CountsInv
<1>5. ASSUME NEW k \in Keys, DeleteKvRecord(c, k)
      PROVE  RequestsInv' /\ CountsInv'
  <2>1. Begin(c, "records", [j \in {k} |-> Absent]) /\ UNCHANGED <<outbox, pending_tasks>>
      BY <1>5 DEF DeleteKvRecord
  <2> QED BY <2>1, BeginMoves DEF SearchInv, CountsInv
<1> QED BY <1>1, <1>2, <1>3, <1>4, <1>5

\* A drain lists the tasks, takes one, indexes it or passes it over.
LEMMA DrainMoves ==
    ASSUME SearchInv, NEW c \in Clients, ListTasks(c) \/ TakeTask(c) \/ IndexTask(c)
    PROVE  RequestsInv' /\ CountsInv'
<1> DEFINE batch == request[c].batch
<1>1. outbox \in [Keys -> Value] /\ Value = Record \cup {Absent}
    BY DEF SearchInv, CountsInv, Value
<1>2. request[c].at \in {"draining", "indexing"} => DOMAIN batch \subseteq Keys
    BY DEF SearchInv, RequestsInv, Asked
<1>3. ASSUME NEW tasks, DOMAIN tasks \subseteq Keys, NEW at \in {"draining", "indexing"},
             at = "indexing" => \A k \in FirstTask(DOMAIN tasks) : tasks[k] \in Record,
             request' = [request EXCEPT ![c] = Request(at, tasks, <<>>, <<>>)],
             outbox' \in [Keys -> Value], UNCHANGED <<phase, pending_tasks, requests, starts>>
      PROVE  RequestsInv' /\ CountsInv'
  <2>1. Asked(Request(at, tasks, <<>>, <<>>))
      BY <1>3 DEF Request, Asked
  <2>2. RequestsInv'
      BY <1>3, <2>1, RequestMoves DEF SearchInv
  <2> QED BY <1>3, <2>2 DEF SearchInv, CountsInv
<1>4. CASE ListTasks(c)
  <2> DEFINE tasks == [k \in Stored(outbox) |-> Absent]
  <2>1. DOMAIN tasks \subseteq Keys
      BY DEF Stored
  <2>2. /\ request' = [request EXCEPT ![c] = Request("draining", tasks, <<>>, <<>>)]
        /\ UNCHANGED <<outbox, phase, pending_tasks, requests, starts>>
      BY <1>4 DEF ListTasks, Drains, Goes
  <2> HIDE DEF tasks
  <2> QED BY <1>1, <1>3, <2>1, <2>2
<1>5. CASE TakeTask(c)
  <2>1. request[c].at = "draining" /\ UNCHANGED <<outbox, phase, pending_tasks, requests, starts>>
      BY <1>5 DEF TakeTask, Drains, Goes
  <2>2. PICK k \in FirstTask(DOMAIN batch) :
          \/ /\ outbox[k] # Absent
             /\ request' = [request EXCEPT ![c] = Request("indexing", [batch EXCEPT ![k] = outbox[k]], <<>>, <<>>)]
          \/ request' = [request EXCEPT ![c] = Request("draining", Rest(batch, k), <<>>, <<>>)]
      BY <1>5 DEF TakeTask, Drains, Goes
  <2>3. k \in DOMAIN batch /\ k \in Keys
      BY <1>2, <2>1 DEF FirstTask
  <2>4. CASE request' = [request EXCEPT ![c] = Request("draining", Rest(batch, k), <<>>, <<>>)]
    <3>1. DOMAIN Rest(batch, k) \subseteq Keys
        BY <1>2, <2>1 DEF Rest
    <3> QED BY <1>1, <1>3, <2>1, <2>4, <3>1
  <2>5. CASE /\ outbox[k] # Absent
             /\ request' = [request EXCEPT ![c] = Request("indexing", [batch EXCEPT ![k] = outbox[k]], <<>>, <<>>)]
    <3> DEFINE tasks == [batch EXCEPT ![k] = outbox[k]]
    <3>1. DOMAIN tasks = DOMAIN batch /\ tasks[k] = outbox[k] /\ outbox[k] \in Record
        BY <1>1, <2>3, <2>5
    <3>2. \A j \in FirstTask(DOMAIN batch) : j = k
      <4>1. \A j \in DOMAIN batch : j \in Int /\ CollectionOf[j] \in Int
        <5>1. \A j \in Keys : j \in Int /\ CollectionOf[j] \in Int
            BY RocksAssumption, KvRecordAssumption DEF Keys, Collections
        <5> QED BY <1>2, <2>1, <5>1
      <4> QED BY <4>1 DEF FirstTask
    <3> HIDE DEF tasks
    <3>3. \A j \in FirstTask(DOMAIN tasks) : tasks[j] \in Record
        BY <3>1, <3>2
    <3>4. request' = [request EXCEPT ![c] = Request("indexing", tasks, <<>>, <<>>)]
        BY <2>5 DEF tasks
    <3> QED BY <1>1, <1>2, <1>3, <2>1, <3>1, <3>3, <3>4
  <2> QED BY <2>2, <2>4, <2>5
<1>6. CASE IndexTask(c)
  <2>1. request[c].at = "indexing" /\ UNCHANGED <<phase, pending_tasks, requests, starts>>
      BY <1>6 DEF IndexTask
  <2>2. PICK k \in FirstTask(DOMAIN batch) :
          /\ request' = [request EXCEPT ![c] = Request("draining", Rest(batch, k), <<>>, <<>>)]
          /\ outbox' = [outbox EXCEPT ![k] = Absent] \/ outbox' = outbox
      BY <1>6 DEF IndexTask
  <2>3. DOMAIN Rest(batch, k) \subseteq Keys
      BY <1>2, <2>1 DEF Rest
  <2>4. outbox' \in [Keys -> Value]
    <3>1. Absent \in Value
        BY <1>1
    <3> HIDE DEF Keys, Value
    <3> QED BY <1>1, <2>2, <3>1
  <2> QED BY <1>3, <2>1, <2>2, <2>3, <2>4
<1> QED BY <1>4, <1>5, <1>6

\* What a request does by itself.
LEMMA StepMoves ==
    ASSUME SearchInv, NEW c \in Clients,
           RequestStep(c) \/ StoreFails(c) \/ IndexTask(c) \/ EmbeddingEnds(c)
    PROVE  RequestsInv' /\ CountsInv'
<1>1. CASE StoreGoesOn(c) \/ StoreFails(c)
  <2>1. UNCHANGED <<phase, request, outbox, pending_tasks, requests, starts>>
      BY <1>1 DEF StoreGoesOn, StoreFails, searchVars
  <2> QED BY <2>1 DEF SearchInv, RequestsInv, CountsInv
<1>2. CASE EnqueueDocument(c)
  <2>1. /\ request[c].at = "document" /\ Returned(c, {"ok"}, "enqueued")
        /\ outbox' = Staged(outbox, request[c].batch, DOMAIN request[c].batch)
      BY <1>2 DEF EnqueueDocument
  <2>2. request[c].batch \in Batches
      BY <2>1 DEF SearchInv, RequestsInv, Asked
  <2>3. outbox' \in [Keys -> Value]
      BY <2>1, <2>2, TasksStaged DEF SearchInv, CountsInv
  <2> QED BY <2>1, <2>3, ReturnMoves
<1>3. CASE RemoveDocument(c) \/ EndRecords(c) \/ EndRefused(c)
  <2>1. (\E results : Returned(c, results, "idle")) /\ outbox' = outbox
      BY <1>3 DEF RemoveDocument, EndRecords, EndRefused
  <2>2. outbox' \in [Keys -> Value]
      BY <2>1 DEF SearchInv, CountsInv
  <2> QED BY <2>1, <2>2, ReturnMoves
<1>4. CASE EndDrain(c) \/ Timeout(c) \/ Answer(c) \/ EmbeddingEnds(c)
    BY <1>4, PlainMoves DEF EndDrain, Timeout, Answer, EmbeddingEnds
<1> QED BY <1>1, <1>2, <1>3, <1>4, DrainMoves, AnswerMoves DEF RequestStep

\* What the process does.
LEMMA ProcessMoves ==
    ASSUME SearchInv,
           \/ \E k \in Keys : DrainOutbox(k)
           \/ TaskLeaves
           \/ Start \/ SeedStore \/ SeedOutbox \/ SeedVectors \/ EndSeeding
           \/ Stop \/ EndStop \/ Destroy \/ Crash
    PROVE  RequestsInv' /\ CountsInv'
<1>1. ASSUME request' = request PROVE RequestsInv'
    BY <1>1 DEF SearchInv, RequestsInv
<1>2. ASSUME NEW k \in Keys, DrainOutbox(k)
      PROVE  RequestsInv' /\ CountsInv'
  <2>1. outbox' = [outbox EXCEPT ![k] = Absent] /\ UNCHANGED <<phase, request, pending_tasks, requests, starts>>
      BY <1>2 DEF DrainOutbox
  <2>2. outbox' \in [Keys -> Value]
    <3>1. Absent \in Value /\ outbox \in [Keys -> Value]
        BY DEF SearchInv, CountsInv, Value
    <3> HIDE DEF Keys, Value
    <3> QED BY <2>1, <3>1
  <2> QED BY <1>1, <2>1, <2>2 DEF SearchInv, CountsInv
<1>3. CASE TaskLeaves
  <2>1. IsFiniteSet(Searching)
      BY SearchAssumption, FS_Subset DEF Searching
  <2>2. Cardinality(Searching) \in Nat
      BY <2>1, FS_CardinalityType
  <2>3. /\ pending_tasks > Cardinality(Searching) /\ pending_tasks' = pending_tasks - 1
        /\ UNCHANGED <<phase, request, outbox, requests, starts>>
      BY <1>3 DEF TaskLeaves
  <2>4. pending_tasks' \in 0..QueueCapacity
    <3>1. pending_tasks \in 0..QueueCapacity /\ QueueCapacity \in Nat
        BY SearchAssumption DEF SearchInv, CountsInv
    <3> QED BY <2>2, <2>3, <3>1
  <2> QED BY <1>1, <2>3, <2>4 DEF SearchInv, CountsInv
<1>4. CASE Start
  <2>1. /\ starts < MaxStarts /\ starts' = starts + 1 /\ phase' = "starting"
        /\ UNCHANGED <<request, outbox, pending_tasks, requests>>
      BY <1>4 DEF Start
  <2>2. starts' \in 0..MaxStarts
    <3>1. starts \in 0..MaxStarts /\ MaxStarts \in Nat
        BY SearchAssumption DEF SearchInv, CountsInv
    <3> QED BY <2>1, <3>1
  <2> QED BY <1>1, <2>1, <2>2 DEF SearchInv, CountsInv
<1>5. CASE SeedStore
  <2>1. phase' \in {"seeding", "started"} /\ UNCHANGED <<request, outbox, pending_tasks, requests, starts>>
      BY <1>5 DEF SeedStore
  <2> QED BY <1>1, <2>1 DEF SearchInv, CountsInv
<1>6. CASE SeedOutbox
  <2>1. /\ phase = "seeding" /\ phase' = "indexing" /\ outbox' = Staged(outbox, Seeds, DOMAIN Seeds)
        /\ UNCHANGED <<request, pending_tasks, requests, starts>>
      BY <1>6 DEF SeedOutbox
  <2>2. outbox \in [Keys -> Value]
      BY DEF SearchInv, CountsInv
  <2>3. outbox' \in [Keys -> Value]
    <3>1. CASE Seeds \in Batches
        BY <2>1, <2>2, <3>1, TasksStaged
    <3>2. CASE Seeds = NoBatch
      <4>1. DOMAIN Seeds = {}
          BY <3>2 DEF NoBatch
      <4> HIDE DEF Keys, Value
      <4> QED BY <2>1, <2>2, <4>1 DEF Staged
    <3> QED BY <3>1, <3>2, SearchAssumption
  <2> QED BY <1>1, <2>1, <2>3 DEF SearchInv, CountsInv
<1>7. CASE SeedVectors \/ EndSeeding \/ Stop \/ EndStop
  <2>1. /\ phase' \in {"flushing seeds", "started", "flushing", "stopped"}
        /\ UNCHANGED <<request, outbox, pending_tasks, requests, starts>>
      BY <1>7 DEF SeedVectors, EndSeeding, Stop, EndStop
  <2> QED BY <1>1, <2>1 DEF SearchInv, CountsInv
<1>8. CASE Destroy \/ Crash
  <2>1. /\ phase' = "down" /\ request' = [c \in Clients |-> Idle] /\ pending_tasks' = 0
        /\ UNCHANGED <<outbox, requests, starts>>
      BY <1>8 DEF Destroy, Crash, Ends
  <2>2. Asked(Idle)
      BY PlainRequest DEF Idle
  <2>3. RequestsInv'
      BY <2>1, <2>2 DEF RequestsInv, Asked
  <2>4. pending_tasks' \in 0..QueueCapacity
      BY <2>1, SearchAssumption
  <2> QED BY <2>1, <2>3, <2>4 DEF SearchInv, CountsInv
<1> QED BY <1>2, <1>3, <1>4, <1>5, <1>6, <1>7, <1>8

\* The types, the requests and the counts are inductive.
LEMMA SearchNext == SearchInv /\ [Next]_allVars => SearchInv'
<1> SUFFICES ASSUME SearchInv, [Next]_allVars PROVE SearchInv'
    OBVIOUS
<1>1. ServiceInv'
    BY ServiceNext DEF SearchInv, Owes
<1>2. IndexTyped'
    BY IndexNext, MovesTyped DEF SearchInv
<1>3. ASSUME UNCHANGED allVars PROVE RequestsInv' /\ CountsInv'
  <2>1. UNCHANGED searchVars /\ RequestsInv /\ CountsInv
      BY <1>3 DEF allVars, SearchInv
  <2>2. UNCHANGED <<phase, request, outbox, pending_tasks, requests, starts>>
      BY <2>1 DEF searchVars
  <2>3. RequestsInv'
      BY <2>1, <2>2 DEF RequestsInv
  <2>4. CountsInv'
      BY <2>1, <2>2 DEF CountsInv
  <2> QED BY <2>3, <2>4
<1>4. RequestsInv' /\ CountsInv'
    BY <1>3, AskMoves, StepMoves, ProcessMoves DEF Next
<1> QED BY <1>1, <1>2, <1>4 DEF SearchInv

\* They hold when no process has started.
LEMMA SearchInit == Init => SearchInv
<1> SUFFICES ASSUME Init PROVE SearchInv
    OBVIOUS
<1>1. ServiceInv /\ IndexTyped
    BY ServiceInit, IndexInitTyped DEF Init
<1>2. Asked(Idle)
    BY PlainRequest DEF Idle
<1>3. RequestsInv
  <2>1. request = [c \in Clients |-> Idle]
      BY DEF Init
  <2> QED BY <1>2, <2>1 DEF RequestsInv
<1>4. CountsInv
  <2>1. outbox \in [Keys -> Value]
      BY DEF Init, Nothing, Value
  <2> QED BY <2>1, SearchAssumption DEF Init, CountsInv
<1> QED BY <1>1, <1>3, <1>4 DEF SearchInv

-----------------------------------------------------------------------------
\* Every variable keeps its type: ids stay below the next one to be taken, the training buffer
\* never reaches its threshold, and the tasks counted in the pool are between none and its
\* capacity, however late embeddings end.
THEOREM SearchTypeCorrect == Spec => []TypeOK
<1>1. SearchInv => TypeOK
  <2> SUFFICES ASSUME SearchInv PROVE TypeOK
      OBVIOUS
  <2>1. StoreTypeOK
      BY StoreInvTypes DEF SearchInv, ServiceInv
  <2>2. IndexTypeOK
      BY DEF SearchInv, IndexTyped, TypedIndex, IndexTypeOK
  <2> QED BY <2>1, <2>2 DEF SearchInv, RequestsInv, Asked, CountsInv, TypeOK
<1> QED BY <1>1, SearchNext, SearchInit, PTL DEF Spec

\* As long as no document of a search's references is gone when they are looked up, each hit
\* has its own score: MultiGet returns the documents in the order of their references, all of
\* one collection, whatever is written or deleted between the search and the lookup.
THEOREM HitsKeepTheirScores == Spec => []ScoresAreOwn
<1>1. SearchInv => ScoresAreOwn
    BY DEF SearchInv, RequestsInv, Asked, ScoresAreOwn
<1> QED BY <1>1, SearchNext, SearchInit, PTL DEF Spec

-----------------------------------------------------------------------------
(***************************************************************************)
(* What the index keeps of the documents it knows, until the second start. *)
(* Keys and ids name each other; the vector of the last upsert is in the   *)
(* index or in the buffer, as long as none was taken out of a trained one; *)
(* and an index that is to be trained is still flat and empty, so that     *)
(* nothing is lost when it is replaced.                                    *)
(***************************************************************************)
Known ==
    /\ \A i \in DOMAIN entries : entries[i].key \in Keys /\ key_to_id[entries[i].key] = i
    /\ \A k \in Keys : key_to_id[k] # 0 =>
         /\ key_to_id[k] \in DOMAIN entries
         /\ entries[key_to_id[k]].key = k
         /\ index.kind # "shifted" =>
              Vector(key_to_id[k], k, entries[key_to_id[k]].document) \in Kept
    /\ NeedsTraining => Index.kind = "flat" /\ Index.vectors = {}
    /\ index.kind = "none" => index.vectors = {}

KnownInv ==
    /\ SearchInv
    /\ starts = 0 => index_file = OldIndex /\ metadata_file = OldMetadata
    /\ starts = 0 => phase = "down"
    /\ starts <= 1 => Known

\* The files of an older release are of one flush: each document of the metadata has a key of
\* its own and, in the index, its vector.
OldFilesAgree ==
    OldMetadata # NoFile =>
        /\ \A i \in DOMAIN OldMetadata :
             /\ OldMetadata[i].key \in Keys
             /\ Vector(i, OldMetadata[i].key, OldMetadata[i].document) \in OldIndex.vectors
        /\ \A i, j \in DOMAIN OldMetadata : OldMetadata[i].key = OldMetadata[j].key => i = j

\* What is kept after a vector is added: all that was, and the vector.
LEMMA AddedIsKept ==
    ASSUME IndexTyped, NEW kept, TypedIndex(kept), NEW v \in Vectors,
           NeedsTraining => kept.kind = "flat" /\ kept.vectors = {},
           \/ NeedsTraining /\ BufferOrTrain(kept, v)
           \/ ~ NeedsTraining /\ Add(kept, v)
    PROVE  /\ kept.vectors \cup ToSet(untrained) \cup {v} \subseteq Kept'
           /\ index'.kind # "shifted" => kept.kind # "shifted"
           /\ index'.kind = "none" => kept.kind = "none"
           /\ NeedsTraining' => Index'.kind = "flat" /\ Index'.vectors = {}
<1> DEFINE buffered == Append(untrained, v)
<1>1. ToSet(buffered) = ToSet(untrained) \cup {v} /\ VectorSet(ToSet(buffered))
  <2>1. buffered \in Seq(Vectors) /\ ToSet(buffered) = ToSet(untrained) \cup {v}
      BY ElementsFacts DEF IndexTyped
  <2> HIDE DEF buffered
  <2> QED BY <2>1, ElementsFacts DEF VectorSet
<1> HIDE DEF buffered
<1>2. Kept' = index'.vectors \cup ToSet(untrained')
    BY DEF Kept
<1>3. /\ index'.kind = "none" => Index'.kind = "flat" /\ Index'.vectors = {}
      /\ index'.kind # "none" => NeedsTraining' = needs_training' /\ Index' = index'
    BY DEF NeedsTraining, Index, NoIndex
<1>4. CASE ~ NeedsTraining /\ Add(kept, v)
  <2>1. index' = AddAll(kept, {v}) /\ needs_training' = FALSE /\ untrained' = untrained
      BY <1>4 DEF Add
  <2>2. index'.kind = kept.kind /\ index'.vectors = kept.vectors \cup {v}
      BY <2>1, VectorSets, IndexFacts
  <2> QED BY <1>2, <1>3, <2>1, <2>2
<1>5. CASE NeedsTraining /\ BufferOrTrain(kept, v)
  <2>1. kept.kind = "flat" /\ kept.vectors = {}
      BY <1>5
  <2>2. CASE Len(untrained) + 1 >= TrainingThreshold
    <3>1. Train(kept, buffered)
        BY <1>5, <2>2 DEF BufferOrTrain, buffered
    <3>2. index'.vectors = ToSet(buffered) /\ needs_training' = FALSE
      <4>1. AddAll(kept, ToSet(buffered)).vectors = ToSet(buffered)
          BY <1>1, <2>1, IndexFacts
      <4> QED BY <3>1, <4>1 DEF Train
    <3>3. index'.kind \in {"trained", "flat"}
      <4>1. AddAll(kept, ToSet(buffered)).kind = "flat"
          BY <1>1, <2>1, IndexFacts
      <4> QED BY <3>1, <4>1 DEF Train
    <3>4. NeedsTraining' => Index'.kind = "flat" /\ Index'.vectors = {}
        BY <1>3, <3>2, <3>3
    <3>5. kept.vectors \cup ToSet(untrained) \cup {v} \subseteq Kept'
        BY <1>1, <1>2, <2>1, <3>2
    <3> QED BY <2>1, <3>3, <3>4, <3>5
  <2>3. CASE ~ (Len(untrained) + 1 >= TrainingThreshold)
    <3>1. index' = kept /\ untrained' = buffered
        BY <1>5, <2>3 DEF BufferOrTrain, buffered
    <3>2. NeedsTraining' => Index'.kind = "flat" /\ Index'.vectors = {}
        BY <1>3, <2>1, <3>1
    <3>3. Kept' = {} \cup ToSet(buffered)
        BY <1>2, <2>1, <3>1
    <3> QED BY <1>1, <2>1, <3>1, <3>2, <3>3
  <2> QED BY <2>2, <2>3
<1> QED BY <1>4, <1>5

\* As long as a removal does not move the others, it leaves them; nothing comes of it.
LEMMA WithoutFacts ==
    ASSUME NEW ix, TypedIndex(ix), NEW id, NEW kept \in Without(ix, id)
    PROVE  /\ kept.kind # "shifted" => /\ ix.kind # "shifted"
                                       /\ {v \in ix.vectors : v.id # id} \subseteq kept.vectors
           /\ ix.kind = "flat" /\ ix.vectors = {} => kept.kind = "flat" /\ kept.vectors = {}
           /\ kept.kind = "none" => ix.kind = "none"
<1> DEFINE others == {v \in ix.vectors : v.id # id}
<1>1. CASE ix.kind = "shifted"
  <2>1. PICK left \in SUBSET ix.vectors : kept = [ix EXCEPT !.vectors = left]
      BY <1>1 DEF Without
  <2>2. kept.kind = "shifted"
      BY <1>1, <2>1 DEF TypedIndex, Indexes
  <2> QED BY <1>1, <2>2
<1>2. CASE ix.kind # "shifted"
  <2>1. kept = [kind |-> IF ix.kind = "trained" /\ others # ix.vectors THEN "shifted" ELSE ix.kind,
                vectors |-> others]
      BY <1>2 DEF Without
  <2>2. ix.vectors = {} => others = {}
      OBVIOUS
  <2> HIDE DEF others
  <2>3. kept.vectors = others /\ (ix.kind = "flat" => kept.kind = "flat") /\ (kept.kind = "none" => ix.kind = "none")
      BY <2>1
  <2>4. others \subseteq kept.vectors
      BY <2>3
  <2> QED BY <1>2, <2>2, <2>3, <2>4 DEF others
<1> QED BY <1>1, <1>2

\* After an upsert the key has its new id and vector, the other keys theirs.
LEMMA UpsertKnown ==
    ASSUME IndexTyped, Known, NEW k \in Keys, NEW r \in Record, UpsertVector(k, r)
    PROVE  Known'
<1>1. PICK id \in Nat \ {0} : \E kept \in IF key_to_id[k] # 0 THEN Without(Index, id) ELSE {Index} :
         /\ id = IF key_to_id[k] # 0 THEN key_to_id[k] ELSE next_id
         /\ TypedIndex(kept) /\ Vector(id, k, r) \in Vectors /\ id \in 1..next_id
         /\ \/ NeedsTraining /\ BufferOrTrain(kept, Vector(id, k, r))
            \/ ~ NeedsTraining /\ Add(kept, Vector(id, k, r))
         /\ entries' = [i \in DOMAIN entries \cup {id} |->
                          IF i = id THEN [key |-> k, document |-> r] ELSE entries[i]]
         /\ key_to_id' = [key_to_id EXCEPT ![k] = id]
         /\ next_id' = next_id + 1
         /\ UNCHANGED files
    BY UpsertFacts
<1>2. PICK kept \in IF key_to_id[k] # 0 THEN Without(Index, id) ELSE {Index} :
         /\ TypedIndex(kept) /\ Vector(id, k, r) \in Vectors
         /\ \/ NeedsTraining /\ BufferOrTrain(kept, Vector(id, k, r))
            \/ ~ NeedsTraining /\ Add(kept, Vector(id, k, r))
    BY <1>1
<1> DEFINE v == Vector(id, k, r)
<1>3. /\ kept.kind # "shifted" => /\ Index.kind # "shifted"
                                  /\ {w \in Index.vectors : w.id # id} \subseteq kept.vectors
      /\ NeedsTraining => kept.kind = "flat" /\ kept.vectors = {}
      /\ kept.kind # "none"
  <2>1. TypedIndex(Index) /\ Index.kind # "none"
      BY IndexFacts DEF Index, NoIndex
  <2>2. CASE kept \in Without(Index, id)
      BY <2>1, <2>2, WithoutFacts DEF Known
  <2>3. CASE kept = Index
      BY <2>1, <2>3 DEF Known
  <2> QED BY <1>2, <2>2, <2>3
<1>4. /\ kept.vectors \cup ToSet(untrained) \cup {v} \subseteq Kept'
      /\ index'.kind # "shifted" => kept.kind # "shifted"
      /\ index'.kind # "none"
      /\ NeedsTraining' => Index'.kind = "flat" /\ Index'.vectors = {}
    BY <1>2, <1>3, AddedIsKept
<1>5. /\ DOMAIN entries' = DOMAIN entries \cup {id}
      /\ entries'[id] = [key |-> k, document |-> r]
      /\ \A i \in DOMAIN entries : i # id => entries'[i] = entries[i]
    BY <1>1
<1>6. key_to_id'[k] = id /\ \A j \in Keys : j # k => key_to_id'[j] = key_to_id[j]
    BY <1>1 DEF IndexTyped
<1>7. next_id \notin DOMAIN entries
  <2>1. next_id \in Nat /\ next_id \notin 1..(next_id - 1)
      BY DEF IndexTyped
  <2> QED BY <2>1 DEF IndexTyped
<1>8. \A j \in Keys : j # k /\ key_to_id[j] # 0 => key_to_id[j] # id
    BY <1>1, <1>7 DEF Known
<1>9. ASSUME NEW i \in DOMAIN entries'
      PROVE  entries'[i].key \in Keys /\ key_to_id'[entries'[i].key] = i
  <2>1. CASE i = id
      BY <1>5, <1>6, <2>1
  <2>2. CASE i # id
    <3>1. i \in DOMAIN entries /\ entries'[i] = entries[i]
        BY <1>5, <2>2
    <3>2. entries[i].key \in Keys /\ key_to_id[entries[i].key] = i
        BY <3>1 DEF Known
    <3>3. i # 0
      <4>1. 0 \notin 1..(next_id - 1)
          BY DEF IndexTyped
      <4> QED BY <3>1, <4>1 DEF IndexTyped
    <3>4. entries[i].key # k
        BY <1>1, <2>2, <3>2, <3>3
    <3> QED BY <1>6, <3>1, <3>2, <3>4
  <2> QED BY <2>1, <2>2
<1>10. ASSUME NEW j \in Keys, key_to_id'[j] # 0
       PROVE  /\ key_to_id'[j] \in DOMAIN entries'
              /\ entries'[key_to_id'[j]].key = j
              /\ index'.kind # "shifted" =>
                   Vector(key_to_id'[j], j, entries'[key_to_id'[j]].document) \in Kept'
  <2>1. CASE j = k
      BY <1>4, <1>5, <1>6, <2>1
  <2>2. CASE j # k
    <3> DEFINE i == key_to_id[j]
    <3>1. key_to_id'[j] = i /\ i # 0 /\ i # id
        BY <1>6, <1>8, <1>10, <2>2
    <3>2. /\ i \in DOMAIN entries /\ entries[i].key = j
          /\ index.kind # "shifted" => Vector(i, j, entries[i].document) \in Kept
        BY <3>1 DEF Known
    <3>3. i \in DOMAIN entries' /\ entries'[i] = entries[i]
        BY <1>5, <3>1, <3>2
    <3>4. ASSUME index'.kind # "shifted" PROVE Vector(i, j, entries[i].document) \in Kept'
      <4>1. Vector(i, j, entries[i].document).id = i
          BY DEF Vector
      <4>2. Index.kind # "shifted" /\ {w \in Index.vectors : w.id # id} \subseteq kept.vectors
          BY <1>3, <1>4, <3>4
      <4>3. index.kind # "shifted" /\ index.vectors \subseteq Index.vectors
        <5>1. index.kind = "none" \/ Index = index
            BY DEF Index
        <5>2. index.kind = "none" => index.vectors = {}
            BY DEF Known
        <5> QED BY <4>2, <5>1, <5>2
      <4>4. Vector(i, j, entries[i].document) \in Index.vectors \cup ToSet(untrained)
          BY <3>2, <4>3 DEF Kept
      <4> QED BY <1>4, <3>1, <4>1, <4>2, <4>4
    <3> QED BY <3>1, <3>2, <3>3, <3>4
  <2> QED BY <2>1, <2>2
<1> QED BY <1>4, <1>9, <1>10 DEF Known

\* After a removal the other keys keep their ids and, if they are not moved, their vectors.
LEMMA RemoveKnown ==
    ASSUME IndexTyped, Known, NEW k \in Keys, RemoveVector(k)
    PROVE  Known'
<1>1. CASE UNCHANGED <<index, entries, key_to_id>>
    BY <1>1 DEF RemoveVector, Known, Kept, Index, NeedsTraining
<1>2. CASE ~ UNCHANGED <<index, entries, key_to_id>>
  <2> DEFINE id == key_to_id[k]
  <2>1. /\ id # 0 /\ index.kind # "none" /\ index' \in Without(index, id)
        /\ entries' = [i \in DOMAIN entries \ {id} |-> entries[i]]
        /\ key_to_id' = [key_to_id EXCEPT ![k] = 0]
        /\ untrained' = untrained /\ needs_training' = needs_training
      BY <1>2 DEF RemoveVector
  <2>2. /\ index'.kind # "shifted" => /\ index.kind # "shifted"
                                      /\ {w \in index.vectors : w.id # id} \subseteq index'.vectors
        /\ index.kind = "flat" /\ index.vectors = {} => index'.kind = "flat" /\ index'.vectors = {}
        /\ index'.kind # "none"
      BY <2>1, WithoutFacts DEF IndexTyped
  <2>3. NeedsTraining' => Index'.kind = "flat" /\ Index'.vectors = {}
    <3>1. NeedsTraining = needs_training /\ NeedsTraining' = needs_training
        BY <2>1, <2>2 DEF NeedsTraining
    <3>2. Index = index /\ Index' = index'
        BY <2>1, <2>2 DEF Index
    <3> QED BY <2>2, <3>1, <3>2 DEF Known
  <2>4. key_to_id'[k] = 0 /\ \A j \in Keys : j # k => key_to_id'[j] = key_to_id[j]
      BY <2>1 DEF IndexTyped
  <2>5. id \in DOMAIN entries /\ entries[id].key = k
      BY <2>1 DEF Known
  <2> HIDE DEF id
  <2>6. ASSUME NEW i \in DOMAIN entries'
        PROVE  entries'[i].key \in Keys /\ key_to_id'[entries'[i].key] = i
    <3>1. i \in DOMAIN entries /\ i # id /\ entries'[i] = entries[i]
        BY <2>1
    <3>2. entries[i].key \in Keys /\ key_to_id[entries[i].key] = i
        BY <3>1 DEF Known
    <3>3. entries[i].key # k
        BY <3>1, <3>2 DEF id
    <3> QED BY <2>4, <3>1, <3>2, <3>3
  <2>7. ASSUME NEW j \in Keys, key_to_id'[j] # 0
        PROVE  /\ key_to_id'[j] \in DOMAIN entries'
               /\ entries'[key_to_id'[j]].key = j
               /\ index'.kind # "shifted" =>
                    Vector(key_to_id'[j], j, entries'[key_to_id'[j]].document) \in Kept'
    <3> DEFINE i == key_to_id[j]
    <3>1. j # k /\ key_to_id'[j] = i /\ i # 0
        BY <2>4, <2>7
    <3>2. /\ i \in DOMAIN entries /\ entries[i].key = j
          /\ index.kind # "shifted" => Vector(i, j, entries[i].document) \in Kept
        BY <3>1 DEF Known
    <3>3. i # id
        BY <2>5, <3>1, <3>2
    <3>4. i \in DOMAIN entries' /\ entries'[i] = entries[i]
        BY <2>1, <3>2, <3>3
    <3>5. index'.kind # "shifted" => Vector(i, j, entries[i].document) \in Kept'
      <4>1. Vector(i, j, entries[i].document).id = i
          BY DEF Vector
      <4>2. Kept = index.vectors \cup ToSet(untrained) /\ Kept' = index'.vectors \cup ToSet(untrained)
          BY <2>1 DEF Kept
      <4> QED BY <2>2, <3>2, <3>3, <4>1, <4>2
    <3> QED BY <3>1, <3>2, <3>4, <3>5
  <2> QED BY <2>2, <2>3, <2>6, <2>7 DEF Known
<1> QED BY <1>1, <1>2

\* The index is recovered from the files of an older release, or is none.
LEMMA FirstStartKnown ==
    ASSUME OldFilesAgree, index_file = OldIndex, metadata_file = OldMetadata, RecoverIndex
    PROVE  Known'
<1> DEFINE found == EntriesOf(metadata_file)
<1>1. /\ index' = OldIndex /\ entries' = found /\ needs_training' = FALSE /\ untrained' = <<>>
      /\ key_to_id' = [k \in Keys |-> IF \E i \in DOMAIN found : found[i].key = k
                                      THEN CHOOSE i \in DOMAIN found : found[i].key = k ELSE 0]
    BY DEF RecoverIndex
<1>2. /\ \A i \in DOMAIN found : /\ found[i].key \in Keys
                                 /\ Vector(i, found[i].key, found[i].document) \in OldIndex.vectors
      /\ \A i, j \in DOMAIN found : found[i].key = found[j].key => i = j
    BY DEF OldFilesAgree, EntriesOf
<1> HIDE DEF found
<1>3. \A i \in DOMAIN found : key_to_id'[found[i].key] = i
    BY <1>1, <1>2
<1>4. \A k \in Keys : key_to_id'[k] # 0 => key_to_id'[k] \in DOMAIN found /\ found[key_to_id'[k]].key = k
    BY <1>1
<1>5. /\ NeedsTraining' => Index'.kind = "flat" /\ Index'.vectors = {}
      /\ index'.kind = "none" => index'.vectors = {}
    BY <1>1, FaissAssumption DEF NeedsTraining, Index, NoIndex
<1>6. ASSUME NEW k \in Keys, key_to_id'[k] # 0
      PROVE  Vector(key_to_id'[k], k, found[key_to_id'[k]].document) \in Kept'
    BY <1>1, <1>2, <1>4, <1>6 DEF Kept
<1> QED BY <1>1, <1>2, <1>3, <1>4, <1>5, <1>6 DEF Known

\* Until the second start every step of the service keeps what is known.
LEMMA KnownNext ==
    ASSUME OldFilesAgree, KnownInv, [Next]_allVars
    PROVE  KnownInv'
<1>1. SearchInv'
    BY SearchNext DEF KnownInv
<1>2. starts \in Nat /\ starts' \in Nat
  <2>1. starts \in 0..MaxStarts /\ starts' \in 0..MaxStarts
      BY <1>1 DEF KnownInv, SearchInv, CountsInv
  <2> QED BY <2>1, SearchAssumption
<1>3. IndexMoves
    BY IndexNext DEF KnownInv
<1>4. IndexTyped
    BY DEF KnownInv, SearchInv
<1>5. CASE /\ indexVars' = indexVars /\ starts' = starts
           /\ phase' = phase \/ (phase # "down" /\ phase' # "down")
  <2>1. UNCHANGED <<index, entries, key_to_id, next_id, needs_training, untrained, index_file, metadata_file>>
      BY <1>5 DEF indexVars, memory, files
  <2>2. Known => Known'
      BY <2>1 DEF Known, Kept, Index, NeedsTraining
  <2> QED BY <1>1, <1>5, <2>1, <2>2 DEF KnownInv
<1>6. CASE /\ starts' = starts /\ phase' = phase
           /\ \/ \E k \in Keys, r \in Record : UpsertVector(k, r)
              \/ \E k \in Keys : RemoveVector(k)
  <2>1. Known => Known'
      BY <1>4, <1>6, UpsertKnown, RemoveKnown
  <2>2. index_file' = index_file /\ metadata_file' = metadata_file
      BY <1>6 DEF UpsertVector, RemoveVector, files
  <2> QED BY <1>1, <1>6, <2>1, <2>2 DEF KnownInv
<1>7. CASE starts' = starts /\ phase # "down" /\ (FlushVectors \/ FlushMetadata)
  <2>1. UNCHANGED <<index, entries, key_to_id, next_id, needs_training, untrained>>
      BY <1>7 DEF FlushVectors, FlushMetadata, memory
  <2>2. Known => Known'
      BY <2>1 DEF Known, Kept, Index, NeedsTraining
  <2> QED BY <1>1, <1>7, <2>2 DEF KnownInv
<1>8. CASE starts' = starts + 1 /\ RecoverIndex
  <2>1. starts' <= 1 => starts = 0
      BY <1>2, <1>8
  <2>2. starts' # 0
      BY <1>2, <1>8
  <2>3. starts' <= 1 => Known'
      BY <1>8, <2>1, FirstStartKnown DEF KnownInv
  <2> QED BY <1>1, <2>2, <2>3 DEF KnownInv
<1>9. CASE phase # "down" /\ starts' = starts /\ IndexEnds
  <2>1. DOMAIN entries' = {} /\ key_to_id' = [k \in Keys |-> 0] /\ index' = NoIndex
      BY <1>9 DEF IndexEnds
  <2>2. Known'
      BY <2>1 DEF Known, Index, NoIndex
  <2> QED BY <1>1, <1>9, <2>2 DEF KnownInv
<1> QED BY <1>3, <1>5, <1>6, <1>7, <1>8, <1>9 DEF IndexMoves

\* Until the process starts for the second time, if the files it started with were of one
\* flush: keys and ids name each other, and the vector of each document's last upsert is kept
\* under its id until one is removed from a trained index; whatever is upserted, drained by
\* requests and by the outbox's thread, removed, buffered and trained, with any list count and
\* threshold.
THEOREM KnownIsKeptAlways ==
    ASSUME OldFilesAgree
    PROVE  Spec => []KnownIsKept
<1>1. Init => KnownInv
  <2> SUFFICES ASSUME Init PROVE KnownInv
      OBVIOUS
  <2>1. DOMAIN entries = {} /\ key_to_id = [k \in Keys |-> 0] /\ index = NoIndex
      BY DEF Init, IndexInit
  <2>2. Known
      BY <2>1 DEF Known, Index, NoIndex
  <2> QED BY <2>1, <2>2, SearchInit DEF KnownInv, Init, IndexInit
<1>2. KnownInv /\ [Next]_allVars => KnownInv'
    BY KnownNext
<1>3. KnownInv => KnownIsKept
    BY DEF KnownInv, Known, KnownIsKept
<1> QED BY <1>1, <1>2, <1>3, PTL DEF Spec
=============================================================================
