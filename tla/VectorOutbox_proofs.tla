------------------------ MODULE VectorOutbox_proofs ------------------------
(***************************************************************************)
(* Theorems about VectorOutbox: its types, that its file follows its tasks *)
(* and that re-indexing repairs the index, for everything that may happen; *)
(* and that no document is forgotten as long as documents are only put.    *)
(***************************************************************************)
EXTENDS VectorOutbox, TLAPS

\* A thread's state that TypeOK allows.
Sound(state) ==
    /\ state \in ThreadState
    /\ state.at \in {"enqueue", "index"} => state.record # Absent

\* What a file of records may hold.
LEMMA FileTyped ==
    ASSUME NEW map \in [Keys -> Value]
    PROVE  /\ WholeSnapshot(map) \in SnapshotFile
           /\ CutSnapshots(map) \subseteq SnapshotFile
<1>1. \A cut : Below(cut, map) \in [Keys -> Value]
  BY DEF Below, Value
<1>2. \A file \in [Keys -> Value] : WholeSnapshot(file) \in SnapshotFile
  BY DEF WholeSnapshot, SnapshotFile
<1>3. \A cut : [content |-> Below(cut, map), torn |-> TRUE] \in SnapshotFile
  BY <1>1 DEF SnapshotFile
<1> QED
  BY <1>1, <1>2, <1>3 DEF CutSnapshots

\* Maps of records stay maps of records when one is put or erased.
LEMMA MapsTyped ==
    ASSUME NEW map \in [Keys -> Value]
    PROVE  /\ Nothing \in [Keys -> Value]
           /\ \A k \in Keys : Without(map, k) \in [Keys -> Value]
           /\ \A k \in Keys, r \in Value : [map EXCEPT ![k] = r] \in [Keys -> Value]
           /\ Stored(map) \in SUBSET Keys
BY DEF Nothing, Without, Value, Stored

\* Key 1 exists.
LEMMA IdleIsSound == Sound(Idle)
BY KvRecordAssumption DEF Sound, Idle, ThreadState, Stages, Keys, Value

\* A thread goes on, the other threads stay.
LEMMA BecomeTyped ==
    ASSUME TypeOK, NEW t \in Threads, NEW state, Sound(state), Become(t, state)
    PROVE  /\ thread' \in [Threads -> ThreadState]
           /\ \A u \in Threads : thread'[u].at \in {"enqueue", "index"} => thread'[u].record # Absent
           /\ thread'[t] = state
           /\ \A u \in Threads \ {t} : thread'[u] = thread[u]
BY DEF TypeOK, Become, Sound

\* Every thread is in a sound state.
LEMMA ThreadIsSound ==
    ASSUME TypeOK, NEW t \in Threads
    PROVE  Sound(thread[t])
BY DEF TypeOK, Sound

\* The states threads go on to.
LEMMA StatesSound ==
    ASSUME TypeOK, NEW t \in Threads
    PROVE  /\ \A stage \in Stages \ {"enqueue", "index"} : Sound([Idle EXCEPT !.at = stage])
           /\ \A stage \in Stages \ {"enqueue", "index"}, k \in Keys :
                 Sound([Idle EXCEPT !.at = stage, !.key = k])
           /\ \A stage \in Stages \ {"enqueue", "index"}, todo \in SUBSET Keys :
                 Sound([Idle EXCEPT !.at = stage, !.todo = todo])
           /\ \A todo \in SUBSET Keys : Sound([thread[t] EXCEPT !.todo = todo])
           /\ \A stage \in Stages \ {"enqueue", "index"} : Sound([thread[t] EXCEPT !.at = stage])
           /\ Sound(AfterDrain(t))
<1>1. Sound(Idle) /\ Sound(thread[t])
  BY IdleIsSound, ThreadIsSound
<1>2. Sound([Idle EXCEPT !.at = "join"])
  BY <1>1 DEF Sound, ThreadState, Stages
<1>3. Sound(AfterDrain(t))
  BY <1>1, <1>2 DEF AfterDrain
<1> QED
  BY <1>1, <1>3 DEF Sound, ThreadState, Idle

\* The first start finds no files.
LEMMA InitTyped == Init => TypeOK
<1> SUFFICES ASSUME Init PROVE TypeOK
  OBVIOUS
<1>1. Nothing \in [Keys -> Value]
  BY DEF Nothing, Value
<1>2. WholeSnapshot(Nothing) \in SnapshotFile
  BY <1>1, FileTyped
<1>3. Sound(Idle)
  BY IdleIsSound
<1> QED
  BY <1>1, <1>2, <1>3, VectorOutboxAssumption DEF Init, TypeOK, Sound, Idle

\* The part of TypeOK that speaks of the threads.
ThreadsTyped ==
    /\ thread \in [Threads -> ThreadState]
    /\ \A t \in Threads : thread[t].at \in {"enqueue", "index"} => thread[t].record # Absent

\* Operations keep the types.
LEMMA RequestTyped ==
    ASSUME TypeOK, NEW t \in Requests, Request(t)
    PROVE  TypeOK'
<1> USE DEF files
<1>1. t \in Threads
  BY DEF Threads
<1>2. PICK k \in Keys :
          (\E r \in Sent : Upsert(t, k, r) \/ PutKv(t, k, r)) \/ Delete(t, k) \/ EraseKv(t, k)
  BY DEF Request
<1>3. ASSUME NEW operation, Begin(t, operation)
      PROVE  ops' \in 0..MaxOps
  BY <1>3, VectorOutboxAssumption DEF TypeOK, Begin
<1>4. ASSUME NEW r \in Sent
      PROVE  r \in Record /\ r \in Value /\ r # Absent
  BY <1>4, VectorOutboxAssumption, KvRecordAssumption DEF Value
<1>5. CASE \E r \in Sent : Upsert(t, k, r)
  <2>1. PICK r \in Sent : Upsert(t, k, r)
    BY <1>5
  <2>2. Sound([at |-> "enqueue", key |-> k, record |-> r, todo |-> {}])
    BY <1>4 DEF Sound, ThreadState, Stages
  <2>3. ThreadsTyped'
    BY <1>1, <2>1, <2>2, BecomeTyped DEF Upsert, ThreadsTyped
  <2>4. kv' \in [Keys -> Value]
    BY <1>4, <2>1, MapsTyped DEF Upsert, TypeOK
  <2> QED
    BY <1>3, <2>1, <2>3, <2>4 DEF Upsert, TypeOK, ThreadsTyped
<1>6. CASE \E r \in Sent : PutKv(t, k, r)
  <2>1. PICK r \in Sent : PutKv(t, k, r)
    BY <1>6
  <2>2. kv' \in [Keys -> Value]
    BY <1>4, <2>1, MapsTyped DEF PutKv, TypeOK
  <2> QED
    BY <1>3, <2>1, <2>2 DEF PutKv, TypeOK
<1>7. CASE Delete(t, k)
  <2> DEFINE next == [Idle EXCEPT !.at = "erase", !.key = k]
  <2>1. Sound(next) /\ Sound(Idle)
    BY <1>1, IdleIsSound, StatesSound DEF Stages
  <2>2. Become(t, next) \/ Become(t, Idle)
    BY <1>7 DEF Delete, SetPending
  <2>3. ThreadsTyped'
    BY <1>1, <2>1, <2>2, BecomeTyped DEF ThreadsTyped
  <2>4. pending' \in [Keys -> Value]
    BY <1>7, MapsTyped DEF Delete, SetPending, TypeOK
  <2>5. tasks' \in SnapshotFile
    BY <1>7, <2>4, FileTyped DEF Delete, SetPending, Rewrite, TypeOK
  <2> QED
    BY <1>3, <1>7, <2>3, <2>4, <2>5 DEF Delete, TypeOK, ThreadsTyped
<1>8. CASE EraseKv(t, k)
  <2>1. kv' \in [Keys -> Value]
    BY <1>8, MapsTyped DEF EraseKv, TypeOK
  <2> QED
    BY <1>3, <1>8, <2>1 DEF EraseKv, TypeOK
<1> QED
  BY <1>2, <1>5, <1>6, <1>7, <1>8

\* The steps of a call keep the types.
LEMMA CallTyped ==
    ASSUME TypeOK, NEW t \in Threads, Step(t)
    PROVE  TypeOK'
<1> USE DEF files
<1>1. thread[t].key \in Keys /\ thread[t].record \in Value /\ thread[t].todo \in SUBSET Keys
  BY DEF TypeOK, ThreadState
<1> DEFINE drains == [Idle EXCEPT !.at = "take", !.todo = thread[t].todo]
<1>2. /\ Sound(Idle) /\ Sound([Idle EXCEPT !.at = "list"]) /\ Sound(AfterDrain(t))
      /\ Sound([thread[t] EXCEPT !.at = "unindex"]) /\ Sound([thread[t] EXCEPT !.at = "settle"])
      /\ Sound(drains)
  BY <1>1, IdleIsSound, StatesSound DEF Stages
<1>3. CASE Enqueue(t)
  <2>1. ThreadsTyped'
    BY <1>2, <1>3, BecomeTyped DEF Enqueue, SetPending, ThreadsTyped
  <2>2. pending' \in [Keys -> Value]
    BY <1>1, <1>3, MapsTyped DEF Enqueue, SetPending, TypeOK
  <2>3. tasks' \in SnapshotFile
    BY <1>3, <2>2, FileTyped DEF Enqueue, SetPending, Rewrite, TypeOK
  <2> QED
    BY <1>3, <2>1, <2>2, <2>3 DEF Enqueue, TypeOK, ThreadsTyped
<1>4. CASE Erase(t)
  <2>1. ThreadsTyped'
    BY <1>2, <1>4, BecomeTyped DEF Erase, ThreadsTyped
  <2>2. kv' \in [Keys -> Value]
    BY <1>1, <1>4, MapsTyped DEF Erase, TypeOK
  <2> QED
    BY <1>4, <2>1, <2>2 DEF Erase, TypeOK, ThreadsTyped
<1>5. CASE Unindex(t)
  <2>1. ThreadsTyped'
    BY <1>2, <1>5, BecomeTyped DEF Unindex, ThreadsTyped
  <2>2. index' \in [Keys -> Value]
    BY <1>1, <1>5, MapsTyped DEF Unindex, TypeOK
  <2> QED
    BY <1>5, <2>1, <2>2 DEF Unindex, TypeOK, ThreadsTyped
<1>6. CASE List(t)
  <2>1. Stored(pending) \in SUBSET Keys
    BY DEF Stored
  <2>2. Sound([Idle EXCEPT !.at = "take", !.todo = Stored(pending)])
    BY <2>1, StatesSound DEF Stages
  <2>3. ThreadsTyped'
    BY <1>6, <2>2, BecomeTyped DEF List, ThreadsTyped
  <2> QED
    BY <1>6, <2>3 DEF List, TypeOK, ThreadsTyped
<1>7. CASE Take(t)
  <2>1. PICK k \in First(thread[t].todo) :
            Become(t, IF pending[k] = Absent
                      THEN [thread[t] EXCEPT !.todo = @ \ {k}]
                      ELSE [at |-> "index", key |-> k, record |-> pending[k],
                            todo |-> thread[t].todo \ {k}])
    BY <1>7 DEF Take
  <2>2. k \in Keys /\ pending[k] \in Value /\ thread[t].todo \ {k} \in SUBSET Keys
    BY <1>1 DEF First, TypeOK
  <2>3. Sound([thread[t] EXCEPT !.todo = @ \ {k}])
    BY <2>2, StatesSound
  <2>4. pending[k] # Absent =>
            Sound([at |-> "index", key |-> k, record |-> pending[k], todo |-> thread[t].todo \ {k}])
    BY <2>2 DEF Sound, ThreadState, Stages
  <2>5. ThreadsTyped'
    BY <2>1, <2>3, <2>4, BecomeTyped DEF ThreadsTyped
  <2> QED
    BY <1>7, <2>5 DEF Take, TypeOK, ThreadsTyped
<1>8. CASE Index(t)
  <2>1. ThreadsTyped'
    BY <1>2, <1>8, BecomeTyped DEF Index, ThreadsTyped
  <2>2. index' \in [Keys -> Value]
    BY <1>1, <1>8, MapsTyped DEF Index, TypeOK
  <2> QED
    BY <1>8, <2>1, <2>2 DEF Index, TypeOK, ThreadsTyped
<1>9. CASE FailToIndex(t)
  <2>1. ThreadsTyped'
    BY <1>2, <1>9, BecomeTyped DEF FailToIndex, ThreadsTyped
  <2> QED
    BY <1>9, <2>1 DEF FailToIndex, TypeOK, ThreadsTyped
<1>10. CASE Settle(t)
  <2>1. ThreadsTyped'
    BY <1>2, <1>10, BecomeTyped DEF Settle, SetPending, ThreadsTyped
  <2>2. pending' \in [Keys -> Value]
    BY <1>1, <1>10, MapsTyped DEF Settle, SetPending, TypeOK
  <2>3. tasks' \in SnapshotFile
    BY <1>10, <2>2, FileTyped DEF Settle, SetPending, Rewrite, TypeOK
  <2> QED
    BY <1>10, <2>1, <2>2, <2>3 DEF Settle, TypeOK, ThreadsTyped
<1>11. CASE EndDrain(t)
  <2>1. ThreadsTyped'
    BY <1>2, <1>11, BecomeTyped DEF EndDrain, ThreadsTyped
  <2> QED
    BY <1>11, <2>1 DEF EndDrain, TypeOK, ThreadsTyped
<1> QED
  BY <1>3, <1>4, <1>5, <1>6, <1>7, <1>8, <1>9, <1>10, <1>11 DEF Step

\* The end of the process keeps the types.
LEMMA VanishTyped ==
    ASSUME Vanish
    PROVE  /\ mode' \in {"down", "serving", "reindexing", "stopping"}
           /\ pending' \in [Keys -> Value]
           /\ index' \in [Keys -> Value]
           /\ ThreadsTyped'
<1>1. Sound(Idle)
  BY IdleIsSound
<1>2. ThreadsTyped'
  BY <1>1 DEF Vanish, ThreadsTyped, Sound
<1> QED
  BY <1>2 DEF Vanish, Nothing, Value

\* What the node does as a whole keeps the types.
LEMMA NodeTyped ==
    ASSUME TypeOK,
           Wake \/ BeginStop \/ Stop \/ EndInStop \/ Crash \/ EndInRewrite \/ Start \/ FailedStart
    PROVE  TypeOK'
<1> USE DEF files
<1>1. Main \in Threads /\ Worker \in Threads
  BY DEF Threads
<1>2. Sound([Idle EXCEPT !.at = "list"])
  BY <1>1, StatesSound DEF Stages
<1>3. crashes < MaxCrashes /\ crashes' = crashes + 1 => crashes' \in 0..MaxCrashes
  BY VectorOutboxAssumption DEF TypeOK
<1>4. CASE Wake
  <2>1. ThreadsTyped'
    BY <1>1, <1>2, <1>4, BecomeTyped DEF Wake, ThreadsTyped
  <2> QED
    BY <1>4, <2>1 DEF Wake, TypeOK, ThreadsTyped
<1>5. CASE BeginStop
  <2>1. ThreadsTyped'
    BY <1>1, <1>2, <1>5, BecomeTyped DEF BeginStop, ThreadsTyped
  <2>2. ops' \in 0..MaxOps
    BY <1>5, VectorOutboxAssumption DEF BeginStop, Begin, TypeOK
  <2> QED
    BY <1>5, <2>1, <2>2 DEF BeginStop, TypeOK, ThreadsTyped
<1>6. CASE Stop
  <2>1. snapshot' \in SnapshotFile
    BY <1>6, FileTyped DEF Stop, TypeOK
  <2>2. Vanish
    BY <1>6 DEF Stop
  <2> QED
    BY <1>6, <2>1, <2>2, VanishTyped DEF Stop, TypeOK, ThreadsTyped
<1>7. CASE EndInStop
  <2>1. snapshot' \in SnapshotFile
    BY <1>7, FileTyped DEF EndInStop, TypeOK
  <2>2. Vanish
    BY <1>7 DEF EndInStop
  <2> QED
    BY <1>3, <1>7, <2>1, <2>2, VanishTyped DEF EndInStop, TypeOK, ThreadsTyped
<1>8. CASE Crash
  <2>1. Vanish
    BY <1>8 DEF Crash
  <2> QED
    BY <1>3, <1>8, <2>1, VanishTyped DEF Crash, TypeOK, ThreadsTyped
<1>9. CASE EndInRewrite
  <2>1. PICK map \in BeingWritten : tasks' \in CutSnapshots(map)
    BY <1>9 DEF EndInRewrite
  <2>2. map \in [Keys -> Value]
    <3>1. pending \in [Keys -> Value]
      BY DEF TypeOK
    <3>2. \A t \in Threads : thread[t].key \in Keys /\ thread[t].record \in Value
      BY DEF TypeOK, ThreadState
    <3>3. \A t \in Threads : [pending EXCEPT ![thread[t].key] = thread[t].record] \in [Keys -> Value]
      BY <3>1, <3>2
    <3>4. \A k \in Keys : Without(pending, k) \in [Keys -> Value]
      BY <3>1, MapsTyped
    <3>5. \/ \E t \in Threads : map = [pending EXCEPT ![thread[t].key] = thread[t].record]
          \/ \E t \in Threads : map = Without(pending, thread[t].key)
          \/ \E k \in Keys : map = Without(pending, k)
      BY <2>1, Zenon DEF BeingWritten
    <3> QED
      BY <3>2, <3>3, <3>4, <3>5
  <2>3. tasks' \in SnapshotFile
    BY <2>1, <2>2, FileTyped
  <2>4. Vanish
    BY <1>9 DEF EndInRewrite
  <2> QED
    BY <1>3, <1>9, <2>3, <2>4, VanishTyped DEF EndInRewrite, TypeOK, ThreadsTyped
<1>10. CASE Start
  BY <1>10 DEF Start, TypeOK, SnapshotFile
<1>11. CASE FailedStart
  <2>1. Nothing \in [Keys -> Value]
    BY DEF Nothing, Value
  <2>2. snapshot' \in SnapshotFile
    BY <1>11, <2>1, FileTyped DEF FailedStart
  <2> QED
    BY <1>11, <2>2 DEF FailedStart, TypeOK
<1> QED
  BY <1>4, <1>5, <1>6, <1>7, <1>8, <1>9, <1>10, <1>11

\* Re-indexing keeps the types.
LEMMA ReindexTyped ==
    ASSUME TypeOK, Reindex
    PROVE  TypeOK'
<1> USE DEF files
<1>1. Main \in Threads
  BY DEF Threads
<1>2. Sound([Idle EXCEPT !.at = "list"])
  BY <1>1, StatesSound DEF Stages
<1>3. CASE StartReindex
  <2>1. Stored(kv) \in SUBSET Keys
    BY DEF Stored
  <2>2. Sound([Idle EXCEPT !.at = "copy", !.todo = Stored(kv)])
    BY <1>1, <2>1, StatesSound DEF Stages
  <2>3. ThreadsTyped'
    BY <1>1, <1>3, <2>2, BecomeTyped DEF StartReindex, ThreadsTyped
  <2>4. ops' \in 0..MaxOps
    BY <1>3, VectorOutboxAssumption DEF StartReindex, TypeOK
  <2> QED
    BY <1>3, <2>3, <2>4 DEF StartReindex, TypeOK, ThreadsTyped, SnapshotFile
<1>4. CASE ReindexNext
  <2>1. PICK k \in First(thread[Main].todo) :
            /\ index' = [index EXCEPT ![k] = kv[k]]
            /\ Become(Main, [thread[Main] EXCEPT !.todo = @ \ {k}])
    BY <1>4 DEF ReindexNext
  <2>2. k \in Keys /\ kv[k] \in Value /\ thread[Main].todo \ {k} \in SUBSET Keys
    BY <1>1 DEF First, TypeOK, ThreadState
  <2>3. index' \in [Keys -> Value]
    BY <2>1, <2>2, MapsTyped DEF TypeOK
  <2>4. Sound([thread[Main] EXCEPT !.todo = @ \ {k}])
    BY <1>1, <2>2, StatesSound
  <2>5. ThreadsTyped'
    BY <1>1, <2>1, <2>4, BecomeTyped DEF ThreadsTyped
  <2> QED
    BY <1>4, <2>3, <2>5 DEF ReindexNext, TypeOK, ThreadsTyped
<1>5. CASE ReindexFails
  <2>1. ThreadsTyped'
    BY <1>1, <1>2, <1>5, BecomeTyped DEF ReindexFails, ThreadsTyped
  <2> QED
    BY <1>5, <2>1 DEF ReindexFails, TypeOK, ThreadsTyped
<1>6. CASE ReindexFlush
  <2>1. ThreadsTyped'
    BY <1>1, <1>2, <1>6, BecomeTyped DEF ReindexFlush, ThreadsTyped
  <2>2. snapshot' \in SnapshotFile
    BY <1>6, FileTyped DEF ReindexFlush, TypeOK
  <2> QED
    BY <1>6, <2>1, <2>2 DEF ReindexFlush, TypeOK, ThreadsTyped
<1> QED
  BY <1>3, <1>4, <1>5, <1>6 DEF Reindex

\* The types are inductive, whatever happens.
LEMMA StepTyped == TypeOK /\ [Next]_vars => TypeOK'
<1> SUFFICES ASSUME TypeOK, [Next]_vars PROVE TypeOK'
  OBVIOUS
<1>1. CASE UNCHANGED vars
  BY <1>1 DEF vars, files, TypeOK
<1>2. CASE Next
  BY <1>2, RequestTyped, CallTyped, NodeTyped, ReindexTyped DEF Next
<1> QED
  BY <1>1, <1>2

\* The types hold whatever fails and whatever is asked of the node.
THEOREM OutboxTypeCorrect == Spec => []TypeOK
<1>1. Init => TypeOK
  BY InitTyped
<1>2. TypeOK /\ [Next]_vars => TypeOK'
  BY StepTyped
<1> QED
  BY <1>1, <1>2, PTL DEF Spec
-----------------------------------------------------------------------------
\* Documents are put, nothing is deleted behind the outbox's back, and embeddings are
\* what may fail.
OnlyUpserts ==
    /\ Operations \subseteq {"upsert", "stop", "reindex"}
    /\ Faults \subseteq {"embed"}

\* Who is where: requests end before the node stops, only they enqueue, the main thread
\* drains and re-indexes while none is served, and what is settled is in the index.
CallsInOrder ==
    /\ \A t \in Threads :
          /\ thread[t].at \notin {"erase", "unindex"}
          /\ At(t, "enqueue") => t \in Requests
          /\ At(t, "settle") => index[thread[t].key] # Absent
          /\ At(t, "copy") => thread[t].todo \subseteq Stored(kv)
          /\ mode = "down" => At(t, "idle")
    /\ \A t \in Requests : mode # "serving" => At(t, "idle")
    /\ ~ At(Main, "idle") => mode # "serving"

\* The inductive invariant.
IInv ==
    /\ TypeOK
    /\ ~ snapshot.torn /\ ~ tasks.torn
    /\ TasksOnDisk
    /\ CallsInOrder
    /\ UpsertedIsFindable

\* At first nothing is stored, so nothing is forgotten.
LEMMA InitKept == Init => IInv
<1> SUFFICES ASSUME Init PROVE IInv
  OBVIOUS
<1>1. TypeOK
  BY InitTyped
<1>2. CallsInOrder
  BY DEF Init, CallsInOrder, At, Idle, Threads
<1> QED
  BY <1>1, <1>2 DEF Init, IInv, TasksOnDisk, UpsertedIsFindable, Stored, Nothing, WholeSnapshot

\* A thread goes on and neither store, index nor tasks change.
LEMMA QuietStepKeeps ==
    ASSUME IInv, TypeOK', NEW t \in Threads, NEW state, Become(t, state),
           UNCHANGED <<kv, pending, index, tasks>>, ~ snapshot'.torn,
           mode' = mode \/ (mode = "serving" /\ mode' = "stopping" /\ t = Main
                            /\ \A u \in Requests : At(u, "idle"))
                        \/ (mode = "reindexing" /\ mode' = "stopping" /\ t = Main),
           mode # "down",
           ~ At(t, "enqueue"),
           state.at \in {"idle", "list", "take", "index", "settle", "join"},
           state.at = "settle" => index[state.key] # Absent,
           state.at # "idle" /\ t = Main => mode' # "serving",
           state.at # "idle" /\ t \in Requests => mode' = "serving"
    PROVE  IInv'
<1> USE DEF files
<1>1. Main \notin Requests
  BY VectorOutboxAssumption
<1>2. thread'[t] = state /\ \A u \in Threads \ {t} : thread'[u] = thread[u]
  BY DEF Become, IInv, TypeOK
<1>3. TasksOnDisk' /\ ~ snapshot'.torn /\ ~ tasks'.torn
  BY DEF IInv, TasksOnDisk
<1>4. CallsInOrder'
  BY <1>1, <1>2 DEF IInv, CallsInOrder, At, Stored, Threads
<1>5. \A u \in Requests, k \in Keys :
          At(u, "enqueue") /\ thread[u].key = k => (At(u, "enqueue") /\ thread[u].key = k)'
  BY <1>2 DEF At, Threads
<1>6. UpsertedIsFindable'
  <2> SUFFICES ASSUME NEW k \in Keys, kv[k] # Absent
               PROVE  \/ index[k] # Absent
                      \/ pending[k] # Absent
                      \/ \E u \in Requests : (At(u, "enqueue") /\ thread[u].key = k)'
    BY DEF UpsertedIsFindable, Stored, IInv
  <2>1. \/ index[k] # Absent
        \/ pending[k] # Absent
        \/ \E u \in Requests : At(u, "enqueue") /\ thread[u].key = k
    BY DEF IInv, UpsertedIsFindable, Stored
  <2> QED
    BY <1>5, <2>1
<1> QED
  BY <1>3, <1>4, <1>6 DEF IInv

\* Only upserts are served.
LEMMA RequestKeeps ==
    ASSUME OnlyUpserts, IInv, TypeOK', NEW t \in Requests, Request(t)
    PROVE  IInv'
<1> USE DEF files
<1>1. t \in Threads /\ t # Main
  BY VectorOutboxAssumption DEF Threads
<1>2. PICK k \in Keys, r \in Sent : Upsert(t, k, r)
  BY DEF Request, OnlyUpserts, PutKv, Delete, EraseKv, Begin
<1> DEFINE next == [at |-> "enqueue", key |-> k, record |-> r, todo |-> {}]
<1>3. mode = "serving" /\ Become(t, next)
  BY <1>2 DEF Upsert, Begin
<1>4. thread'[t] = next /\ \A u \in Threads \ {t} : thread'[u] = thread[u]
  BY <1>1, <1>3 DEF Become, IInv, TypeOK
<1>5. \A j \in Keys : kv'[j] = kv[j] \/ (j = k /\ kv'[j] = r)
  BY <1>2 DEF Upsert, IInv, TypeOK
<1>6. r # Absent
  BY VectorOutboxAssumption, KvRecordAssumption
<1>7. Stored(kv) \subseteq Stored(kv')
  BY <1>5, <1>6 DEF Stored
<1>8. UNCHANGED <<pending, index, files, mode>>
  BY <1>2 DEF Upsert
<1>9. TasksOnDisk' /\ ~ snapshot'.torn /\ ~ tasks'.torn
  BY <1>8 DEF IInv, TasksOnDisk
<1>10. CallsInOrder'
  <2>1. \A u \in Threads : At(u, "copy")' => (thread[u].todo \subseteq Stored(kv))'
    BY <1>4, <1>7 DEF IInv, CallsInOrder, At, Stored
  <2> QED
    BY <1>1, <1>3, <1>4, <1>8, <2>1 DEF IInv, CallsInOrder, At, Threads
<1>11. UpsertedIsFindable'
  <2> SUFFICES ASSUME NEW j \in Keys, kv'[j] # Absent
               PROVE  \/ index[j] # Absent
                      \/ pending[j] # Absent
                      \/ \E u \in Requests : (At(u, "enqueue") /\ thread[u].key = j)'
    BY <1>3, <1>8 DEF UpsertedIsFindable, Stored
  <2>1. CASE j = k
    BY <1>4, <2>1 DEF At
  <2>2. CASE j # k
    <3>1. kv[j] # Absent
      BY <1>5, <2>2
    <3>2. \/ index[j] # Absent
          \/ pending[j] # Absent
          \/ \E u \in Requests : At(u, "enqueue") /\ thread[u].key = j
      BY <1>3, <3>1 DEF IInv, UpsertedIsFindable, Stored
    <3>3. \A u \in Requests : At(u, "enqueue") => u # t
      BY <1>2 DEF Upsert, Begin, At
    <3> QED
      BY <1>4, <3>2, <3>3 DEF At, Threads
  <2> QED
    BY <2>1, <2>2
<1> QED
  BY <1>9, <1>10, <1>11 DEF IInv

\* The request's document becomes a task, in memory and on disk.
LEMMA EnqueueKeeps ==
    ASSUME OnlyUpserts, IInv, TypeOK', NEW t \in Threads, Enqueue(t)
    PROVE  IInv'
<1> USE DEF files
<1> DEFINE k == thread[t].key
           next == [Idle EXCEPT !.at = "list"]
<1>1. t \in Requests /\ t # Main /\ thread[t].record # Absent /\ k \in Keys
  BY VectorOutboxAssumption DEF Enqueue, At, IInv, CallsInOrder, TypeOK, ThreadState
<1>2. /\ pending' = [pending EXCEPT ![k] = thread[t].record]
      /\ tasks' = WholeSnapshot(pending')
      /\ Become(t, next)
      /\ UNCHANGED <<kv, index, snapshot, mode>>
  BY DEF Enqueue, SetPending, Rewrite, OnlyUpserts
<1>3. thread'[t] = next /\ \A u \in Threads \ {t} : thread'[u] = thread[u]
  BY <1>2 DEF Become, IInv, TypeOK
<1>4. mode = "serving"
  BY <1>1 DEF Enqueue, At, IInv, CallsInOrder
<1>5. \A j \in Keys : j # k => pending'[j] = pending[j]
  BY <1>2 DEF IInv, TypeOK
<1>6. pending'[k] # Absent
  BY <1>1, <1>2 DEF IInv, TypeOK
<1>7. TasksOnDisk' /\ ~ snapshot'.torn /\ ~ tasks'.torn
  BY <1>2 DEF IInv, TasksOnDisk, WholeSnapshot
<1>8. CallsInOrder'
  BY <1>1, <1>2, <1>3, <1>4 DEF IInv, CallsInOrder, At, Stored, Threads, Idle
<1>9. UpsertedIsFindable'
  <2> SUFFICES ASSUME NEW j \in Keys, kv[j] # Absent
               PROVE  \/ index[j] # Absent
                      \/ pending'[j] # Absent
                      \/ \E u \in Requests : (At(u, "enqueue") /\ thread[u].key = j)'
    BY <1>2, <1>4 DEF UpsertedIsFindable, Stored
  <2>1. CASE j = k
    BY <1>6, <2>1
  <2>2. CASE j # k
    <3>1. \/ index[j] # Absent
          \/ pending[j] # Absent
          \/ \E u \in Requests : At(u, "enqueue") /\ thread[u].key = j
      BY <1>4 DEF IInv, UpsertedIsFindable, Stored
    <3> QED
      BY <1>3, <1>5, <2>2, <3>1 DEF At, Threads
  <2> QED
    BY <2>1, <2>2
<1> QED
  BY <1>7, <1>8, <1>9 DEF IInv

\* A document is indexed: the entries stay and there is one more.
LEMMA IndexKeeps ==
    ASSUME IInv, TypeOK', NEW t \in Threads, NEW k \in Keys, NEW r, r # Absent,
           NEW state, Become(t, state), ~ At(t, "enqueue"), ~ At(t, "idle"),
           index' = [index EXCEPT ![k] = r],
           UNCHANGED <<kv, pending, files, mode>>,
           state.at \in {"settle", "copy"},
           state.at = "settle" => state.key = k,
           state.at = "copy" => state.todo \subseteq Stored(kv)
    PROVE  IInv'
<1> USE DEF files
<1>1. thread'[t] = state /\ \A u \in Threads \ {t} : thread'[u] = thread[u]
  BY DEF Become, IInv, TypeOK
<1>2. \A j \in Keys : index[j] # Absent => index'[j] # Absent
  BY DEF IInv, TypeOK
<1>3. index'[k] # Absent /\ mode # "down" /\ mode' # "down"
  BY DEF IInv, TypeOK, CallsInOrder, At
<1>4. \A u \in Threads : thread[u].key \in Keys
  BY DEF IInv, TypeOK, ThreadState
<1>5. TasksOnDisk' /\ ~ snapshot'.torn /\ ~ tasks'.torn
  BY DEF IInv, TasksOnDisk
<1>6. CallsInOrder'
  <2>1. \A u \in Threads : At(u, "settle")' => (index[thread[u].key] # Absent)'
    BY <1>1, <1>2, <1>3, <1>4 DEF IInv, CallsInOrder, At
  <2>2. \A u \in Threads : At(u, "copy")' => (thread[u].todo \subseteq Stored(kv))'
    BY <1>1 DEF IInv, CallsInOrder, At, Stored
  <2> QED
    BY <1>1, <1>3, <2>1, <2>2 DEF IInv, CallsInOrder, At, Threads
<1>7. UpsertedIsFindable'
  <2> SUFFICES ASSUME NEW j \in Keys, kv[j] # Absent
               PROVE  \/ index'[j] # Absent
                      \/ pending[j] # Absent
                      \/ \E u \in Requests : (At(u, "enqueue") /\ thread[u].key = j)'
    BY <1>3 DEF UpsertedIsFindable, Stored
  <2>1. \/ index[j] # Absent
        \/ pending[j] # Absent
        \/ \E u \in Requests : At(u, "enqueue") /\ thread[u].key = j
    BY <1>3 DEF IInv, UpsertedIsFindable, Stored
  <2> QED
    BY <1>1, <1>2, <2>1 DEF At, Threads
<1> QED
  BY <1>5, <1>6, <1>7 DEF IInv

\* The task of an indexed document is erased.
LEMMA SettleKeeps ==
    ASSUME OnlyUpserts, IInv, TypeOK', NEW t \in Threads, Settle(t)
    PROVE  IInv'
<1> USE DEF files
<1> DEFINE k == thread[t].key
           next == [Idle EXCEPT !.at = "take", !.todo = thread[t].todo]
<1>1. At(t, "settle") /\ index[k] # Absent /\ k \in Keys /\ mode # "down"
  BY DEF Settle, At, IInv, CallsInOrder, TypeOK, ThreadState
<1>2. /\ pending' = Without(pending, k)
      /\ tasks' = WholeSnapshot(pending')
      /\ Become(t, next)
      /\ UNCHANGED <<kv, index, snapshot, mode>>
  BY DEF Settle, SetPending, Rewrite, OnlyUpserts
<1>3. thread'[t] = next /\ \A u \in Threads \ {t} : thread'[u] = thread[u]
  BY <1>2 DEF Become, IInv, TypeOK
<1>4. \A j \in Keys : j # k => pending'[j] = pending[j]
  BY <1>2 DEF IInv, TypeOK, Without
<1>5. TasksOnDisk' /\ ~ snapshot'.torn /\ ~ tasks'.torn
  BY <1>2 DEF IInv, TasksOnDisk, WholeSnapshot
<1>6. CallsInOrder'
  BY <1>1, <1>2, <1>3 DEF IInv, CallsInOrder, At, Stored, Threads, Idle
<1>7. UpsertedIsFindable'
  <2> SUFFICES ASSUME NEW j \in Keys, kv[j] # Absent, j # k
               PROVE  \/ index[j] # Absent
                      \/ pending[j] # Absent
                      \/ \E u \in Requests : (At(u, "enqueue") /\ thread[u].key = j)'
    BY <1>1, <1>2, <1>4 DEF UpsertedIsFindable, Stored
  <2>1. \/ index[j] # Absent
        \/ pending[j] # Absent
        \/ \E u \in Requests : At(u, "enqueue") /\ thread[u].key = j
    BY <1>1 DEF IInv, UpsertedIsFindable, Stored
  <2> QED
    BY <1>1, <1>3, <2>1 DEF At, Threads
<1> QED
  BY <1>5, <1>6, <1>7 DEF IInv

\* The next step of a request, the worker or the main thread forgets no document.
LEMMA CallKeeps ==
    ASSUME OnlyUpserts, IInv, TypeOK', NEW t \in Threads, Step(t)
    PROVE  IInv'
<1> USE DEF files
<1>1. ~ (Erase(t) \/ Unindex(t))
  BY DEF Erase, Unindex, At, IInv, CallsInOrder
<1>2. ~ At(t, "idle") /\ mode # "down"
  BY DEF Step, At, Enqueue, Erase, Unindex, List, Take, Index, FailToIndex, Settle, EndDrain,
         IInv, CallsInOrder
<1>3. /\ t = Main => mode # "serving"
      /\ t \in Requests => mode = "serving"
      /\ thread[t].key \in Keys
  BY <1>2 DEF IInv, CallsInOrder, TypeOK, ThreadState
<1>4. AfterDrain(t).at \in {"idle", "join"} /\ (AfterDrain(t).at # "idle" => t = Main)
  BY DEF AfterDrain, Idle
<1>5. Main \notin Requests
  BY VectorOutboxAssumption
<1>6. CASE Enqueue(t)
  BY <1>6, EnqueueKeeps
<1>7. CASE List(t)
  <2> DEFINE next == [Idle EXCEPT !.at = "take", !.todo = Stored(pending)]
  <2>1. next.at = "take" /\ Become(t, next) /\ ~ At(t, "enqueue")
    BY <1>7 DEF List, At, Idle
  <2>2. UNCHANGED <<kv, pending, index, tasks, mode>> /\ ~ snapshot'.torn
    BY <1>7 DEF List, IInv
  <2> HIDE DEF next
  <2> QED
    BY <1>2, <1>3, <2>1, <2>2, QuietStepKeeps
<1>8. CASE Take(t)
  <2>1. PICK k \in First(thread[t].todo) :
            Become(t, IF pending[k] = Absent
                      THEN [thread[t] EXCEPT !.todo = @ \ {k}]
                      ELSE [at |-> "index", key |-> k, record |-> pending[k],
                            todo |-> thread[t].todo \ {k}])
    BY <1>8 DEF Take
  <2> DEFINE next == IF pending[k] = Absent
                     THEN [thread[t] EXCEPT !.todo = @ \ {k}]
                     ELSE [at |-> "index", key |-> k, record |-> pending[k],
                           todo |-> thread[t].todo \ {k}]
  <2>2. next.at \in {"take", "index"} /\ Become(t, next) /\ ~ At(t, "enqueue")
    BY <1>8, <2>1 DEF Take, At, IInv, TypeOK, ThreadState
  <2>3. UNCHANGED <<kv, pending, index, tasks, mode>> /\ ~ snapshot'.torn
    BY <1>8 DEF Take, IInv
  <2> HIDE DEF next
  <2> QED
    BY <1>2, <1>3, <2>2, <2>3, QuietStepKeeps
<1>9. CASE Index(t)
  <2> DEFINE next == [thread[t] EXCEPT !.at = "settle"]
  <2>1. next.at = "settle" /\ next.key = thread[t].key
    BY DEF IInv, TypeOK, ThreadState
  <2>2. thread[t].record # Absent /\ ~ At(t, "enqueue")
    BY <1>9 DEF Index, At, IInv, TypeOK
  <2>3. /\ Become(t, next)
        /\ index' = [index EXCEPT ![thread[t].key] = thread[t].record]
        /\ UNCHANGED <<kv, pending, files, mode>>
    BY <1>9 DEF Index
  <2> HIDE DEF next
  <2> QED
    BY <1>2, <1>3, <2>1, <2>2, <2>3, IndexKeeps
<1>10. CASE FailToIndex(t)
  <2> DEFINE next == [Idle EXCEPT !.at = "take", !.todo = thread[t].todo]
  <2>1. next.at = "take" /\ Become(t, next) /\ ~ At(t, "enqueue")
    BY <1>10 DEF FailToIndex, At, Idle
  <2>2. UNCHANGED <<kv, pending, index, tasks, mode>> /\ ~ snapshot'.torn
    BY <1>10 DEF FailToIndex, IInv
  <2> HIDE DEF next
  <2> QED
    BY <1>2, <1>3, <2>1, <2>2, QuietStepKeeps
<1>11. CASE Settle(t)
  BY <1>11, SettleKeeps
<1>12. CASE EndDrain(t)
  <2>1. Become(t, AfterDrain(t)) /\ ~ At(t, "enqueue")
    BY <1>12 DEF EndDrain, At
  <2>2. UNCHANGED <<kv, pending, index, tasks, mode>> /\ ~ snapshot'.torn
    BY <1>12 DEF EndDrain, IInv
  <2> QED
    BY <1>2, <1>3, <1>4, <1>5, <2>1, <2>2, QuietStepKeeps
<1> QED
  BY <1>1, <1>6, <1>7, <1>8, <1>9, <1>10, <1>11, <1>12 DEF Step

\* The life of the process, from start to stop or crash, forgets no document.
LEMMA NodeKeeps ==
    ASSUME OnlyUpserts, IInv, TypeOK',
           Wake \/ BeginStop \/ Stop \/ EndInStop \/ Crash \/ EndInRewrite \/ Start \/ FailedStart
    PROVE  IInv'
<1> USE DEF files
<1>1. Main \in Threads /\ Worker \in Threads /\ Worker \notin Requests /\ Worker # Main
  BY VectorOutboxAssumption DEF Threads
<1> DEFINE lists == [Idle EXCEPT !.at = "list"]
<1>2. lists.at = "list"
  BY DEF Idle
<1>3. ~ (EndInStop \/ Crash \/ EndInRewrite \/ FailedStart)
  BY DEF EndInStop, Crash, EndInRewrite, FailedStart, OnlyUpserts, IInv
<1>4. CASE Wake
  <2>1. Become(Worker, lists) /\ ~ At(Worker, "enqueue") /\ mode # "down"
    BY <1>4 DEF Wake, At
  <2>2. UNCHANGED <<kv, pending, index, tasks, mode>> /\ ~ snapshot'.torn
    BY <1>4 DEF Wake, IInv
  <2> HIDE DEF lists
  <2> QED
    BY <1>1, <1>2, <2>1, <2>2, QuietStepKeeps
<1>5. CASE BeginStop
  <2>1. /\ Become(Main, lists) /\ ~ At(Main, "enqueue")
        /\ mode = "serving" /\ mode' = "stopping" /\ \A u \in Requests : At(u, "idle")
    BY <1>5 DEF BeginStop, Begin, At
  <2>2. UNCHANGED <<kv, pending, index, tasks>> /\ ~ snapshot'.torn
    BY <1>5 DEF BeginStop, IInv
  <2>3. Main \notin Requests
    BY VectorOutboxAssumption
  <2> HIDE DEF lists
  <2> QED
    BY <1>1, <1>2, <2>1, <2>2, <2>3, QuietStepKeeps
<1>6. CASE Stop
  <2>1. mode # "serving" /\ mode # "down" /\ \A u \in Requests : At(u, "idle")
    BY <1>1, <1>6 DEF Stop, At, IInv, CallsInOrder
  <2>2. snapshot' = WholeSnapshot(index) /\ Vanish /\ UNCHANGED <<kv, tasks>>
    BY <1>6 DEF Stop
  <2>3. tasks = WholeSnapshot(pending)
    BY <2>1 DEF IInv, TasksOnDisk
  <2>4. TasksOnDisk' /\ ~ snapshot'.torn /\ ~ tasks'.torn
    BY <2>2 DEF Vanish, TasksOnDisk, WholeSnapshot, IInv
  <2>5. CallsInOrder'
    BY <1>1, <2>2 DEF Vanish, CallsInOrder, At, Idle, Threads
  <2>6. UpsertedIsFindable'
    <3> SUFFICES ASSUME NEW k \in Keys, kv[k] # Absent
                 PROVE  index[k] # Absent \/ pending[k] # Absent
      BY <2>2, <2>3 DEF Vanish, UpsertedIsFindable, Stored, WholeSnapshot
    <3> QED
      BY <2>1 DEF IInv, UpsertedIsFindable, Stored, At
  <2> QED
    BY <2>4, <2>5, <2>6 DEF IInv
<1>7. CASE Start
  <2>1. /\ mode = "down" /\ mode' = "serving"
        /\ index' = snapshot.content /\ pending' = tasks.content
        /\ UNCHANGED <<kv, files, thread>>
    BY <1>7 DEF Start
  <2>2. \A t \in Threads : At(t, "idle")
    BY <2>1 DEF IInv, CallsInOrder
  <2>3. tasks = WholeSnapshot(tasks.content)
    BY DEF IInv, TypeOK, SnapshotFile, WholeSnapshot
  <2>4. TasksOnDisk' /\ ~ snapshot'.torn /\ ~ tasks'.torn
    BY <2>1, <2>3 DEF TasksOnDisk, WholeSnapshot, IInv
  <2>5. CallsInOrder'
    BY <1>1, <2>1, <2>2 DEF CallsInOrder, At, Threads
  <2>6. UpsertedIsFindable'
    BY <2>1 DEF IInv, UpsertedIsFindable, Stored
  <2> QED
    BY <2>4, <2>5, <2>6 DEF IInv
<1> QED
  BY <1>3, <1>4, <1>5, <1>6, <1>7

\* A re-indexing forgets no document.
LEMMA ReindexKeeps ==
    ASSUME IInv, TypeOK', Reindex
    PROVE  IInv'
<1> USE DEF files
<1>1. Main \in Threads /\ Main \notin Requests
  BY VectorOutboxAssumption DEF Threads
<1> DEFINE lists == [Idle EXCEPT !.at = "list"]
<1>2. lists.at = "list"
  BY DEF Idle
<1>3. CASE StartReindex
  <2> DEFINE next == [Idle EXCEPT !.at = "copy", !.todo = Stored(kv)]
  <2>1. /\ mode = "down" /\ mode' = "reindexing"
        /\ index' = snapshot.content /\ pending' = tasks.content
        /\ UNCHANGED <<kv, files>>
        /\ Become(Main, next)
    BY <1>3 DEF StartReindex
  <2>2. \A t \in Threads : At(t, "idle")
    BY <2>1 DEF IInv, CallsInOrder
  <2>3. thread'[Main] = next /\ \A u \in Threads \ {Main} : thread'[u] = thread[u]
    BY <1>1, <2>1 DEF Become, IInv, TypeOK
  <2>4. tasks = WholeSnapshot(tasks.content)
    BY DEF IInv, TypeOK, SnapshotFile, WholeSnapshot
  <2>5. TasksOnDisk' /\ ~ snapshot'.torn /\ ~ tasks'.torn
    BY <2>1, <2>4 DEF TasksOnDisk, WholeSnapshot, IInv
  <2>6. CallsInOrder'
    <3>1. next.at = "copy" /\ next.todo = Stored(kv) /\ Stored(kv)' = Stored(kv)
      BY <2>1 DEF Idle, Stored
    <3> HIDE DEF next
    <3>2. \A t \in Threads \ {Main} : thread'[t].at = "idle"
      BY <2>2, <2>3 DEF At
    <3>3. thread'[Main].at = "copy" /\ thread'[Main].todo = Stored(kv)'
      BY <2>3, <3>1
    <3> QED
      BY <1>1, <2>1, <3>2, <3>3 DEF CallsInOrder, At, Threads
  <2>7. UpsertedIsFindable'
    BY <2>1 DEF IInv, UpsertedIsFindable, Stored
  <2> QED
    BY <2>5, <2>6, <2>7 DEF IInv
<1>4. CASE ReindexNext
  <2>1. PICK k \in First(thread[Main].todo) :
            /\ index' = [index EXCEPT ![k] = kv[k]]
            /\ Become(Main, [thread[Main] EXCEPT !.todo = @ \ {k}])
    BY <1>4 DEF ReindexNext
  <2> DEFINE next == [thread[Main] EXCEPT !.todo = @ \ {k}]
  <2>2. At(Main, "copy") /\ thread[Main].todo \subseteq Stored(kv)
    BY <1>1, <1>4 DEF ReindexNext, IInv, CallsInOrder
  <2>3. k \in Keys /\ kv[k] # Absent
    BY <2>2 DEF First, Stored
  <2>4. next.at = "copy" /\ next.todo \subseteq Stored(kv)
    BY <1>1, <2>2 DEF At, IInv, TypeOK, ThreadState
  <2>5. ~ At(Main, "enqueue") /\ ~ At(Main, "idle") /\ UNCHANGED <<kv, pending, files, mode>>
    BY <1>4 DEF ReindexNext, At
  <2>6. Become(Main, next)
    BY <2>1
  <2> HIDE DEF next
  <2> QED
    BY <1>1, <2>1, <2>3, <2>4, <2>5, <2>6, IndexKeeps
<1>5. CASE ReindexFails \/ ReindexFlush
  <2>1. Become(Main, lists) /\ At(Main, "copy") /\ mode' = "stopping"
    BY <1>5 DEF ReindexFails, ReindexFlush
  <2>2. ~ At(Main, "enqueue") /\ mode # "down" /\ mode # "serving"
    BY <1>1, <2>1 DEF At, IInv, CallsInOrder
  <2>3. mode \in {"reindexing", "stopping"}
    BY <2>2 DEF IInv, TypeOK
  <2>4. UNCHANGED <<kv, pending, index, tasks>> /\ ~ snapshot'.torn
    BY <1>5 DEF ReindexFails, ReindexFlush, IInv, WholeSnapshot
  <2> HIDE DEF lists
  <2> QED
    BY <1>1, <1>2, <2>1, <2>2, <2>3, <2>4, QuietStepKeeps
<1> QED
  BY <1>3, <1>4, <1>5 DEF Reindex

\* No document is forgotten: as long as documents are only put, a stored document always
\* has an entry in the index, a task for one, or a request that is about to enqueue it,
\* however many requests and documents there are and however often embeddings fail and
\* the node is stopped, started and re-indexed.
THEOREM DocumentsStayFindable == OnlyUpserts /\ Spec => [](UpsertedIsFindable /\ TasksOnDisk)
<1>1. Init => IInv
  BY InitKept
<1>2. OnlyUpserts /\ IInv /\ [Next]_vars => IInv'
  <2> SUFFICES ASSUME OnlyUpserts, IInv, [Next]_vars PROVE IInv'
    OBVIOUS
  <2>1. TypeOK'
    BY StepTyped DEF IInv
  <2>2. CASE UNCHANGED vars
    BY <2>2, <2>1 DEF vars, files, IInv, TasksOnDisk, CallsInOrder, UpsertedIsFindable, At,
                      Stored
  <2>3. CASE Next
    BY <2>1, <2>3, RequestKeeps, CallKeeps, NodeKeeps, ReindexKeeps DEF Next
  <2> QED
    BY <2>2, <2>3
<1>3. IInv => UpsertedIsFindable /\ TasksOnDisk
  BY DEF IInv
<1>4. CASE OnlyUpserts
  <2>1. IInv /\ [Next]_vars => IInv'
    BY <1>2, <1>4
  <2> QED
    BY <1>1, <1>3, <2>1, PTL DEF Spec
<1> QED
  BY <1>4
-----------------------------------------------------------------------------
\* While the main thread re-indexes no request is served, and a stored record it has
\* already copied is in the index: the worker replaces entries and removes none.
CopyKept ==
    /\ \A t \in Threads :
          /\ thread[t].at \in {"enqueue", "erase", "unindex"} => t \in Requests
          /\ At(t, "copy") => t = Main
          /\ mode = "down" => At(t, "idle")
    /\ \A t \in Requests : mode # "serving" => At(t, "idle")
    /\ ~ At(Main, "idle") => mode # "serving"
    /\ At(Main, "copy") => \A k \in Stored(kv) : k \in thread[Main].todo \/ index[k] # Absent

\* A thread goes on; while the main thread copies the store stays and the index loses
\* nothing.
LEMMA GoOnKeepsCopy ==
    ASSUME TypeOK, CopyKept, NEW t \in Threads, NEW state, Become(t, state),
           mode # "down", mode' = mode \/ (mode' # "down" /\ \A u \in Requests : At(u, "idle")),
           mode' = "serving" => mode = "serving",
           state.at \in {"enqueue", "erase", "unindex"} => t \in Requests,
           state.at # "copy",
           state.at # "idle" /\ t = Main => mode' # "serving",
           state.at # "idle" /\ t \in Requests => mode' = "serving",
           At(Main, "copy") =>
               kv' = kv /\ \A k \in Keys : index[k] # Absent => index'[k] # Absent
    PROVE  CopyKept'
<1>1. Main \notin Requests /\ Main \in Threads /\ Requests \subseteq Threads
  BY VectorOutboxAssumption DEF Threads
<1>2. thread'[t] = state /\ \A u \in Threads \ {t} : thread'[u] = thread[u]
  BY DEF Become, TypeOK
<1>3. At(Main, "copy")' => t # Main /\ At(Main, "copy") /\ thread'[Main] = thread[Main]
  BY <1>1, <1>2 DEF At
<1>4. At(Main, "copy")' =>
          \A k \in Stored(kv)' : k \in (thread[Main].todo)' \/ index'[k] # Absent
  BY <1>3 DEF CopyKept, Stored
<1>5. \A u \in Threads :
          /\ thread'[u].at \in {"enqueue", "erase", "unindex"} => u \in Requests
          /\ At(u, "copy")' => u = Main
          /\ mode' = "down" => At(u, "idle")'
  BY <1>2 DEF CopyKept, At
<1>6. \A u \in Requests : mode' # "serving" => At(u, "idle")'
  BY <1>1, <1>2 DEF CopyKept, At
<1>7. ~ At(Main, "idle")' => mode' # "serving"
  BY <1>1, <1>2 DEF CopyKept, At
<1> QED
  BY <1>4, <1>5, <1>6, <1>7 DEF CopyKept

\* Requests are made while the main thread does not re-index.
LEMMA RequestKeepsCopy ==
    ASSUME TypeOK, CopyKept, NEW t \in Requests, Request(t)
    PROVE  CopyKept'
<1> USE DEF files
<1>1. t \in Threads /\ t # Main /\ Main \in Threads
  BY VectorOutboxAssumption DEF Threads
<1>2. PICK k \in Keys :
          (\E r \in Sent : Upsert(t, k, r) \/ PutKv(t, k, r)) \/ Delete(t, k) \/ EraseKv(t, k)
  BY DEF Request
<1>3. mode = "serving" /\ mode' = mode /\ ~ At(Main, "copy")
  BY <1>2 DEF Upsert, PutKv, Delete, EraseKv, Begin, CopyKept, At
<1>4. CASE UNCHANGED thread
  BY <1>1, <1>3, <1>4 DEF CopyKept, At
<1>5. ASSUME NEW state, Become(t, state), state.at \in {"enqueue", "erase", "idle"}
      PROVE  CopyKept'
  BY <1>1, <1>3, <1>5, GoOnKeepsCopy
<1>6. CASE \E r \in Sent : Upsert(t, k, r)
  <2>1. PICK r \in Sent : Upsert(t, k, r)
    BY <1>6
  <2>2. Become(t, [at |-> "enqueue", key |-> k, record |-> r, todo |-> {}])
    BY <2>1 DEF Upsert
  <2> QED
    BY <1>5, <2>2
<1>7. CASE Delete(t, k)
  <2>1. Become(t, [Idle EXCEPT !.at = "erase", !.key = k]) \/ Become(t, Idle)
    BY <1>7 DEF Delete, SetPending
  <2>2. [Idle EXCEPT !.at = "erase", !.key = k].at = "erase" /\ Idle.at = "idle"
    BY DEF Idle
  <2> QED
    BY <1>5, <2>1, <2>2
<1>8. CASE EraseKv(t, k) \/ \E r \in Sent : PutKv(t, k, r)
  BY <1>4, <1>8 DEF EraseKv, PutKv
<1> QED
  BY <1>2, <1>6, <1>7, <1>8

\* A thread that goes on takes no entry from a re-indexing.
LEMMA CallKeepsCopy ==
    ASSUME TypeOK, CopyKept, NEW t \in Threads, Step(t)
    PROVE  CopyKept'
<1> USE DEF files
<1>1. ~ At(t, "idle") /\ ~ At(t, "copy") /\ mode' = mode
  BY DEF Step, Enqueue, Erase, Unindex, List, Take, Index, FailToIndex, Settle, EndDrain, At
<1>2. mode # "down"
  BY <1>1 DEF CopyKept
<1>3. t \in Requests => mode = "serving"
  BY <1>1 DEF CopyKept
<1>4. t = Main => mode # "serving"
  BY <1>1 DEF CopyKept
<1>5. At(t, "enqueue") \/ At(t, "erase") \/ At(t, "unindex") => t \in Requests
  BY DEF CopyKept, At
<1>6. Main \notin Requests /\ Main \in Threads
  BY VectorOutboxAssumption DEF Threads
<1>7. t \in Requests => ~ At(Main, "copy")
  BY <1>3, <1>6 DEF CopyKept, At
<1>8. /\ Idle.at = "idle" /\ AfterDrain(t).at \in {"idle", "join"}
      /\ (AfterDrain(t).at = "join" => t = Main)
      /\ [Idle EXCEPT !.at = "list"].at = "list"
      /\ [Idle EXCEPT !.at = "take", !.todo = thread[t].todo].at = "take"
      /\ [Idle EXCEPT !.at = "take", !.todo = Stored(pending)].at = "take"
      /\ [thread[t] EXCEPT !.at = "unindex"].at = "unindex"
      /\ [thread[t] EXCEPT !.at = "settle"].at = "settle"
  BY DEF Idle, AfterDrain, TypeOK, ThreadState
<1>9. ASSUME NEW state, Become(t, state), state.at \notin {"enqueue", "erase", "unindex", "copy"},
             \/ UNCHANGED <<kv, index>>
             \/ t \in Requests
             \/ kv' = kv /\ \A k \in Keys : index[k] # Absent => index'[k] # Absent
      PROVE  CopyKept'
  BY <1>1, <1>2, <1>3, <1>4, <1>7, <1>9, GoOnKeepsCopy
<1>10. CASE Enqueue(t)
  <2>1. Become(t, [Idle EXCEPT !.at = "list"]) \/ Become(t, Idle)
    BY <1>10 DEF Enqueue, SetPending
  <2> QED
    BY <1>8, <1>9, <1>10, <2>1 DEF Enqueue
<1>11. CASE Erase(t)
  <2>1. Become(t, [thread[t] EXCEPT !.at = "unindex"]) /\ t \in Requests
    BY <1>5, <1>11 DEF Erase
  <2> DEFINE next == [thread[t] EXCEPT !.at = "unindex"]
  <2>2. next.at = "unindex" /\ Become(t, next)
    BY <1>8, <2>1
  <2> HIDE DEF next
  <2> QED
    BY <1>1, <1>2, <1>3, <1>4, <1>6, <1>7, <2>1, <2>2, GoOnKeepsCopy
<1>12. CASE Unindex(t)
  <2>1. Become(t, Idle) /\ t \in Requests
    BY <1>5, <1>12 DEF Unindex
  <2> QED
    BY <1>8, <1>9, <2>1
<1>13. CASE List(t) \/ FailToIndex(t) \/ EndDrain(t)
  <2>1. \/ Become(t, [Idle EXCEPT !.at = "take", !.todo = Stored(pending)])
        \/ Become(t, [Idle EXCEPT !.at = "take", !.todo = thread[t].todo])
        \/ Become(t, AfterDrain(t))
    BY <1>13 DEF List, FailToIndex, EndDrain
  <2>2. UNCHANGED <<kv, index>>
    BY <1>13 DEF List, FailToIndex, EndDrain
  <2> QED
    BY <1>8, <1>9, <2>1, <2>2
<1>14. CASE Take(t)
  <2>1. PICK k \in First(thread[t].todo) :
            \/ Become(t, [thread[t] EXCEPT !.todo = @ \ {k}])
            \/ Become(t, [at |-> "index", key |-> k, record |-> pending[k],
                          todo |-> thread[t].todo \ {k}])
    BY <1>14 DEF Take
  <2>2. [thread[t] EXCEPT !.todo = @ \ {k}].at = "take"
    BY <1>14 DEF Take, At, TypeOK, ThreadState
  <2>3. UNCHANGED <<kv, index>>
    BY <1>14 DEF Take
  <2> QED
    BY <1>9, <2>1, <2>2, <2>3
<1>15. CASE Index(t)
  <2>1. thread[t].record # Absent /\ thread[t].key \in Keys
    BY <1>15 DEF Index, At, TypeOK, ThreadState
  <2>2. kv' = kv /\ \A k \in Keys : index[k] # Absent => index'[k] # Absent
    BY <1>15, <2>1 DEF Index, TypeOK
  <2> QED
    BY <1>8, <1>9, <1>15, <2>2 DEF Index
<1>16. CASE Settle(t)
  <2>1. \/ Become(t, [Idle EXCEPT !.at = "take", !.todo = thread[t].todo])
        \/ Become(t, AfterDrain(t))
    BY <1>16 DEF Settle, SetPending
  <2> QED
    BY <1>8, <1>9, <1>16, <2>1 DEF Settle
<1> QED
  BY <1>10, <1>11, <1>12, <1>13, <1>14, <1>15, <1>16 DEF Step

\* No re-indexing survives a start, a stop or a crash.
LEMMA NodeKeepsCopy ==
    ASSUME TypeOK, CopyKept,
           Wake \/ BeginStop \/ Stop \/ EndInStop \/ Crash \/ EndInRewrite \/ Start \/ FailedStart
    PROVE  CopyKept'
<1> USE DEF files
<1>1. /\ Main \in Threads /\ Worker \in Threads /\ Worker \notin Requests
      /\ Main \notin Requests /\ Worker # Main
  BY VectorOutboxAssumption DEF Threads
<1>2. Idle.at = "idle" /\ [Idle EXCEPT !.at = "list"].at = "list"
  BY DEF Idle
<1>3. CASE Wake
  BY <1>1, <1>2, <1>3, GoOnKeepsCopy DEF Wake
<1>4. CASE BeginStop
  <2>1. /\ mode = "serving" /\ ~ At(Main, "copy")
        /\ \A u \in Requests : At(u, "idle")
    BY <1>4 DEF BeginStop, Begin, At
  <2> QED
    BY <1>1, <1>2, <1>4, <2>1, GoOnKeepsCopy DEF BeginStop
<1>5. CASE Stop \/ EndInStop \/ Crash \/ EndInRewrite
  <2>1. mode' = "down" /\ \A t \in Threads : thread'[t] = Idle
    BY <1>5 DEF Stop, EndInStop, Crash, EndInRewrite, Vanish
  <2> QED
    BY <1>1, <1>2, <2>1 DEF CopyKept, At, Threads
<1>6. CASE Start \/ FailedStart
  <2>1. UNCHANGED thread /\ \A t \in Threads : At(t, "idle")
    BY <1>6 DEF Start, FailedStart, CopyKept
  <2>2. \A t \in Threads : thread'[t].at = "idle"
    BY <2>1 DEF At
  <2> QED
    BY <1>1, <2>2 DEF CopyKept, At, Threads
<1> QED
  BY <1>3, <1>4, <1>5, <1>6

\* A re-indexing copies record by record what it found in the store.
LEMMA ReindexKeepsCopy ==
    ASSUME TypeOK, CopyKept, Reindex
    PROVE  CopyKept'
<1> USE DEF files
<1>1. Main \in Threads /\ Main \notin Requests
  BY VectorOutboxAssumption DEF Threads
<1>2. CASE StartReindex
  <2> DEFINE next == [Idle EXCEPT !.at = "copy", !.todo = Stored(kv)]
  <2>1. next.at = "copy" /\ next.todo = Stored(kv)
    BY DEF Idle
  <2>2. \A t \in Threads : At(t, "idle")
    BY <1>2 DEF StartReindex, CopyKept
  <2>3. Become(Main, next) /\ mode' = "reindexing" /\ kv' = kv
    BY <1>2 DEF StartReindex
  <2> HIDE DEF next
  <2>4. thread'[Main] = next /\ \A u \in Threads \ {Main} : thread'[u].at = "idle"
    BY <1>1, <2>2, <2>3 DEF Become, TypeOK, At
  <2>5. Stored(kv)' = Stored(kv)
    BY <2>3 DEF Stored
  <2> QED
    BY <1>1, <2>1, <2>3, <2>4, <2>5 DEF CopyKept, At, Threads
<1>3. CASE ReindexNext
  <2>1. PICK k \in First(thread[Main].todo) :
            /\ index' = [index EXCEPT ![k] = kv[k]]
            /\ Become(Main, [thread[Main] EXCEPT !.todo = @ \ {k}])
    BY <1>3 DEF ReindexNext
  <2> DEFINE next == [thread[Main] EXCEPT !.todo = @ \ {k}]
  <2>2. At(Main, "copy") /\ UNCHANGED <<kv, mode>>
    BY <1>3 DEF ReindexNext
  <2>3. next.at = "copy" /\ next.todo = thread[Main].todo \ {k}
    BY <1>1, <2>2 DEF At, TypeOK, ThreadState
  <2>4. Become(Main, next)
    BY <2>1
  <2>5. k \in Keys
    BY <1>1, <2>1 DEF First, TypeOK, ThreadState
  <2> HIDE DEF next
  <2>6. thread'[Main] = next /\ \A u \in Threads \ {Main} : thread'[u] = thread[u]
    BY <1>1, <2>4 DEF Become, TypeOK
  <2>7. \A j \in Stored(kv)' : j \in (thread[Main].todo)' \/ index'[j] # Absent
    <3> SUFFICES ASSUME NEW j \in Keys, kv[j] # Absent
                 PROVE  j \in next.todo \/ index'[j] # Absent
      BY <2>2, <2>6 DEF Stored
    <3>1. j \in thread[Main].todo \/ index[j] # Absent
      BY <2>2 DEF CopyKept, Stored
    <3>2. index'[k] = kv[k] /\ \A i \in Keys \ {k} : index'[i] = index[i]
      BY <2>1, <2>5 DEF TypeOK
    <3> QED
      BY <2>3, <3>1, <3>2
  <2>8. /\ \A t \in Threads : thread'[t].at = thread[t].at
        /\ At(Main, "copy")'
    BY <1>1, <2>2, <2>3, <2>6 DEF At
  <2> QED
    BY <2>2, <2>7, <2>8 DEF CopyKept, At, Threads
<1>4. CASE ReindexFails \/ ReindexFlush
  <2>1. /\ At(Main, "copy") /\ mode' = "stopping" /\ UNCHANGED <<kv, index>>
        /\ Become(Main, [Idle EXCEPT !.at = "list"])
    BY <1>4 DEF ReindexFails, ReindexFlush
  <2>2. mode # "down" /\ mode # "serving" /\ \A u \in Requests : At(u, "idle")
    BY <1>1, <2>1 DEF CopyKept, At
  <2>3. [Idle EXCEPT !.at = "list"].at = "list"
    BY DEF Idle
  <2> QED
    BY <1>1, <2>1, <2>2, <2>3, GoOnKeepsCopy
<1> QED
  BY <1>2, <1>3, <1>4 DEF Reindex

\* At first nobody re-indexes.
LEMMA InitCopyKept == Init => TypeOK /\ CopyKept
<1> SUFFICES ASSUME Init PROVE CopyKept
  BY InitTyped
<1>1. \A t \in Threads : thread[t].at = "idle"
  BY DEF Init, Idle
<1> QED
  BY <1>1 DEF CopyKept, At, Threads

\* What re-indexing relies on is inductive, for every operation and fault.
LEMMA StepKeepsCopy == TypeOK /\ CopyKept /\ [Next]_vars => TypeOK' /\ CopyKept'
<1> SUFFICES ASSUME TypeOK, CopyKept, [Next]_vars PROVE CopyKept'
  BY StepTyped
<1>1. CASE UNCHANGED vars
  BY <1>1 DEF vars, files, CopyKept, At, Stored
<1>2. CASE Next
  BY <1>2, RequestKeepsCopy, CallKeepsCopy, NodeKeepsCopy, ReindexKeepsCopy DEF Next
<1> QED
  BY <1>1, <1>2

\* Re-indexing repairs whatever crashes and deletions left out of the index: when it is
\* done every stored record is in the snapshot, although the worker indexes its tasks
\* meanwhile; for every operation, fault and number of documents.
THEOREM ReindexingRepairs == Spec => ReindexRepairs
<1> DEFINE Inv == TypeOK /\ CopyKept
<1>1. Init => Inv
  BY InitCopyKept
<1>2. Inv /\ [Next]_vars => Inv'
  BY StepKeepsCopy
<1>3. Inv /\ [Next]_vars => [ReindexFlush => \A k \in Stored(kv) : snapshot'.content[k] # Absent]_vars
  <2> SUFFICES ASSUME Inv, ReindexFlush, NEW k \in Stored(kv)
               PROVE  snapshot'.content[k] # Absent
    OBVIOUS
  <2>1. k \in thread[Main].todo \/ index[k] # Absent
    BY DEF ReindexFlush, CopyKept
  <2> QED
    BY <2>1 DEF ReindexFlush, WholeSnapshot
<1> QED
  BY <1>1, <1>2, <1>3, PTL DEF Spec, ReindexRepairs
-----------------------------------------------------------------------------
\* The file follows the tasks in memory in every call that changes them, as long as it
\* can be opened.
LEMMA CallKeepsFile ==
    ASSUME "open" \notin Faults, TasksOnDisk, NEW t \in Threads, Step(t)
    PROVE  TasksOnDisk'
<1> USE DEF files, TasksOnDisk
<1>1. CASE Enqueue(t) \/ Settle(t)
  BY <1>1 DEF Enqueue, Settle, SetPending, Rewrite
<1>2. CASE Erase(t) \/ Unindex(t) \/ List(t) \/ Take(t) \/ Index(t) \/ FailToIndex(t) \/ EndDrain(t)
  BY <1>2 DEF Erase, Unindex, List, Take, Index, FailToIndex, EndDrain
<1> QED
  BY <1>1, <1>2 DEF Step

\* The tasks in memory are those on disk as long as the outbox file can be opened: for
\* every operation, through crashes, files cut short and embeddings that fail, and
\* whichever threads enqueue, settle and delete.
THEOREM FileFollowsMemory ==
    ASSUME "open" \notin Faults
    PROVE  Spec => []TasksOnDisk
<1> DEFINE Inv == TypeOK /\ CopyKept /\ TasksOnDisk
<1>1. Init => Inv
  BY InitCopyKept DEF Init, TasksOnDisk
<1>2. Inv /\ [Next]_vars => Inv'
  <2> SUFFICES ASSUME Inv, [Next]_vars PROVE TasksOnDisk'
    BY StepKeepsCopy
  <2> USE DEF files, TasksOnDisk
  <2>1. CASE UNCHANGED vars
    BY <2>1 DEF vars
  <2>2. ASSUME NEW t \in Requests, NEW k \in Keys, NEW r \in Sent, Upsert(t, k, r) \/ PutKv(t, k, r)
        PROVE  TasksOnDisk'
    BY <2>2 DEF Upsert, PutKv
  <2>8. ASSUME NEW t \in Requests, NEW k \in Keys, Delete(t, k) \/ EraseKv(t, k)
        PROVE  TasksOnDisk'
    BY <2>8 DEF Delete, EraseKv, SetPending, Rewrite
  <2>3. ASSUME NEW t \in Threads, Step(t) PROVE TasksOnDisk'
    BY <2>3, CallKeepsFile
  <2>4. CASE Wake \/ BeginStop \/ FailedStart
    BY <2>4 DEF Wake, BeginStop, Begin, FailedStart
  <2>5. CASE Stop \/ EndInStop \/ Crash \/ EndInRewrite
    BY <2>5 DEF Stop, EndInStop, Crash, EndInRewrite, Vanish
  <2>6. CASE Start \/ StartReindex
    <3>1. ~ tasks.torn => tasks = WholeSnapshot(tasks.content)
      BY DEF TypeOK, SnapshotFile, WholeSnapshot
    <3> QED
      BY <2>6, <3>1 DEF Start, StartReindex
  <2>7. CASE ReindexNext \/ ReindexFails \/ ReindexFlush
    BY <2>7 DEF ReindexNext, ReindexFails, ReindexFlush, CopyKept, At, Threads
  <2> QED
    <3> HIDE DEF files, TasksOnDisk
    <3>1. ASSUME NEW t \in Requests, Request(t) PROVE TasksOnDisk'
      BY <2>2, <2>8, <3>1 DEF Request
    <3>2. CASE Next
      <4>1. CASE \E t \in Requests : Request(t)
        BY <3>1, <4>1
      <4>2. CASE \E t \in Threads : Step(t)
        BY <2>3, <4>2
      <4> QED
        BY <2>4, <2>5, <2>6, <2>7, <3>2, <4>1, <4>2, Zenon DEF Next, Reindex
    <3> QED
      BY <2>1, <3>2
<1>3. Inv => TasksOnDisk
  OBVIOUS
<1> QED
  BY <1>1, <1>2, <1>3, PTL DEF Spec
=============================================================================
