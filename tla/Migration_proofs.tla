--------------------------- MODULE Migration_proofs ---------------------------
(***************************************************************************)
(* What TLAPS proves of Migration: its types, for any number of nodes,     *)
(* keys and changes of the ring and whatever fails; that one change of the *)
(* ring loses nothing as long as clients only put; and that only what a    *)
(* client has sent is ever stored.                                         *)
(***************************************************************************)
EXTENDS Migration, TLAPS

-----------------------------------------------------------------------------
(***************************************************************************)
(* The types.  A worker that works a list off finds a task under each key  *)
(* of it, and a post that is awaited is the one its sender is at.          *)
(***************************************************************************)
Sound(state, map) ==
    /\ state \in WorkerState
    /\ state.at = "scan" => state.todo \subseteq Stored(state.page)
    /\ state.at \in {"take", "post", "settle"} => \A k \in state.todo : map[k] # NoTask
    /\ state.at \in {"post", "settle"} =>
          state.task # NoTask /\ map[state.key] # NoTask /\ state.key \notin state.todo

WorkersSound ==
    \A n \in Nodes : Sound(worker[n], pending[n]) /\ (n \notin up => worker[n].at = "wait")

OnePost ==
    \A m \in wire : m.awaited =>
        /\ worker[m.from].at = "post" /\ worker[m.from].key = m.key
        /\ \A q \in wire : q.awaited /\ q.from = m.from => q = m

TInv == TypeOK /\ WorkersSound /\ OnePost

\* The tasks of a node, and none of them.
LEMMA TasksTyped ==
    /\ NoTasks.pending \in Pending /\ NoTasks.delayed = {}
    /\ \A k \in Keys : NoTasks.pending[k] = NoTask
    /\ \A map \in Pending, k \in Keys, t \in Task \cup {NoTask} : [map EXCEPT ![k] = t] \in Pending
    /\ NoTasks \in [pending : Pending, delayed : SUBSET Keys]
BY DEF NoTasks, Pending

\* Key 1 exists.
LEMMA WaitingSound ==
    /\ Waiting \in WorkerState /\ Waiting.at = "wait"
    /\ \A map : Sound(Waiting, map)
BY KvRecordAssumption DEF Waiting, WorkerState, Stages, Keys, Nothing, Value, Sound

\* Where GoTo leads.
LEMMA GoToSound ==
    ASSUME NEW stage \in Stages, NEW todo \in SUBSET Keys, NEW map, stage \notin {"post", "settle"},
           stage = "scan" => todo = {},
           stage = "take" => \A k \in todo : map[k] # NoTask
    PROVE  /\ Sound([Waiting EXCEPT !.at = stage, !.todo = todo], map)
           /\ [Waiting EXCEPT !.at = stage, !.todo = todo].at = stage
           /\ [Waiting EXCEPT !.at = stage, !.todo = todo].todo = todo
           /\ [Waiting EXCEPT !.at = stage, !.todo = todo].ok = FALSE
           /\ [Waiting EXCEPT !.at = stage, !.todo = todo].page = Nothing
BY WaitingSound DEF Waiting, WorkerState, Sound

\* One worker goes on.
LEMMA BecomeTyped ==
    ASSUME TypeOK, NEW n \in Nodes, NEW state \in WorkerState, Become(n, state)
    PROVE  /\ worker' \in [Nodes -> WorkerState]
           /\ worker'[n] = state
           /\ \A u \in Nodes \ {n} : worker'[u] = worker[u]
BY DEF TypeOK, Become

\* A worker that does not wait for an answer goes on; its tasks may change, the wire does
\* not.
LEMMA WorkerGoesOn ==
    ASSUME TInv, NEW n \in up, NEW state, Become(n, state), Sound(state, pending'[n]),
           \A u \in Nodes \ {n} : pending'[u] = pending[u],
           worker[n].at # "post", UNCHANGED <<up, wire>>
    PROVE  /\ worker' \in [Nodes -> WorkerState]
           /\ \A u \in Nodes : worker'[u].at \in {"post", "settle"} => worker'[u].task # NoTask
           /\ WorkersSound' /\ OnePost'
           /\ worker'[n] = state /\ \A u \in Nodes \ {n} : worker'[u] = worker[u]
<1>1. n \in Nodes /\ state \in WorkerState
  BY DEF TInv, TypeOK, Sound
<1>2. /\ worker' \in [Nodes -> WorkerState] /\ worker'[n] = state
      /\ \A u \in Nodes \ {n} : worker'[u] = worker[u]
  BY <1>1, BecomeTyped DEF TInv
<1>3. WorkersSound'
  BY <1>2 DEF TInv, WorkersSound
<1>4. OnePost'
  <2>1. \A m \in wire : m.from \in Nodes
    BY DEF TInv, TypeOK, Post
  <2>2. \A m \in wire : m.awaited => m.from # n
    BY DEF TInv, OnePost
  <2> QED
    BY <1>2, <2>1, <2>2 DEF TInv, OnePost
<1> QED
  BY <1>2, <1>3, <1>4 DEF WorkersSound, Sound

\* The task file follows, or stays.
LEMMA PersistTyped ==
    ASSUME TypeOK, NEW n \in Nodes, Persist(n),
           pending'[n] \in Pending, delayed'[n] \in SUBSET Keys
    PROVE  /\ file' \in [Nodes -> [pending : Pending, delayed : SUBSET Keys]]
           /\ file'[n] = file[n] \/ file'[n] = [pending |-> pending'[n], delayed |-> delayed'[n]]
           /\ \A u \in Nodes \ {n} : file'[u] = file[u]
           /\ failures' \in 0..MaxFailures
<1>1. CASE UNCHANGED failures /\ file' = [file EXCEPT ![n] = [pending |-> pending'[n], delayed |-> delayed'[n]]]
  BY <1>1 DEF TypeOK
<1>2. CASE UNCHANGED file /\ failures < MaxFailures /\ failures' = failures + 1
  BY <1>2, MigrationAssumption DEF TypeOK
<1> QED
  BY <1>1, <1>2 DEF Persist

\* The nodes start without tasks, nothing is posted and every worker waits.
LEMMA InitTyped == Init => TInv
<1> SUFFICES ASSUME Init PROVE TInv
  OBVIOUS
<1>1. Len(Rings) \in Nat /\ Len(Rings) >= 1
  BY MigrationAssumption
<1>2. Nothing \in [Keys -> Value]
  BY DEF Nothing, Value
<1>3. \A n \in Nodes : worker[n] = Waiting /\ pending[n] = NoTasks.pending
  BY DEF Init
<1>4. WorkersSound
  BY <1>3, WaitingSound DEF WorkersSound, Init
<1>5. OnePost
  BY DEF Init, OnePost
<1>6. TypeOK
  <2>1. \A n \in Nodes : worker[n].at \notin {"post", "settle"}
    BY <1>3, WaitingSound
  <2> QED
    BY <1>1, <1>2, <2>1, TasksTyped, WaitingSound, MigrationAssumption DEF Init, TypeOK
<1> QED
  BY <1>4, <1>5, <1>6 DEF TInv

\* The rings and the views of them.
LEMMA RingTyped ==
    ASSUME TInv, ChangeRing \/ \E n \in Nodes : Reload(n)
    PROVE  TInv'
<1>1. Len(Rings) \in Nat /\ ring \in 1..Len(Rings)
  BY MigrationAssumption DEF TInv, TypeOK
<1>2. UNCHANGED <<kv, up, tasks, worker, wire, clients, failures>>
  BY DEF ChangeRing, Reload
<1>3. WorkersSound' /\ OnePost'
  BY <1>2 DEF tasks, TInv, WorkersSound, OnePost
<1>4. CASE ChangeRing
  <2>1. ring' \in 1..Len(Rings) /\ view' \in [Nodes -> 1..ring']
    BY <1>1, <1>4 DEF ChangeRing, TInv, TypeOK
  <2> QED
    BY <1>2, <1>3, <2>1 DEF tasks, clients, TInv, TypeOK
<1>5. CASE \E n \in Nodes : Reload(n)
  <2>1. ring' = ring /\ view' \in [Nodes -> 1..ring]
    BY <1>1, <1>5 DEF Reload, TInv, TypeOK
  <2> QED
    BY <1>2, <1>3, <2>1 DEF tasks, clients, TInv, TypeOK
<1> QED
  BY <1>4, <1>5

\* What Vanish does to one worker, its tasks and its posts.
LEMMA VanishTyped ==
    ASSUME TInv, NEW n \in Nodes, Vanish(n), failures < MaxFailures
    PROVE  /\ up' \subseteq Nodes
           /\ pending' \in [Nodes -> Pending] /\ delayed' \in [Nodes -> SUBSET Keys]
           /\ worker' \in [Nodes -> WorkerState]
           /\ \A u \in Nodes : worker'[u].at \in {"post", "settle"} => worker'[u].task # NoTask
           /\ wire' \subseteq Post /\ requests' \subseteq ClientRequest
           /\ failures' \in 0..MaxFailures
           /\ WorkersSound' /\ OnePost'
<1> USE DEF TInv
<1>1. up' = up \ {n} /\ up' \subseteq Nodes /\ requests' \subseteq ClientRequest
  BY DEF Vanish, TypeOK
<1>2. /\ pending' \in [Nodes -> Pending] /\ pending'[n] = NoTasks.pending
      /\ \A u \in Nodes \ {n} : pending'[u] = pending[u]
      /\ delayed' \in [Nodes -> SUBSET Keys]
  BY TasksTyped DEF Vanish, TypeOK
<1>3. /\ worker' \in [Nodes -> WorkerState] /\ worker'[n] = Waiting
      /\ \A u \in Nodes \ {n} : worker'[u] = worker[u]
  BY WaitingSound, BecomeTyped DEF Vanish
<1>4. WorkersSound'
  BY <1>1, <1>2, <1>3, WaitingSound DEF WorkersSound
<1>5. ASSUME NEW m \in wire'
      PROVE  /\ m \in Post
             /\ m.awaited => m \in wire /\ m.from # n
  <2>1. PICK q \in wire : m = IF q.from = n THEN [q EXCEPT !.awaited = FALSE] ELSE q
    BY <1>5 DEF Vanish
  <2>2. q \in Post
    BY DEF TypeOK
  <2> QED
    BY <2>1, <2>2 DEF Post
<1>6. OnePost'
  <2> SUFFICES ASSUME NEW m \in wire', m.awaited
               PROVE  /\ worker'[m.from].at = "post" /\ worker'[m.from].key = m.key
                      /\ \A q \in wire' : q.awaited /\ q.from = m.from => q = m
    BY DEF OnePost
  <2>1. m \in wire /\ m.from \in Nodes \ {n}
    BY <1>5 DEF Post
  <2>2. worker'[m.from] = worker[m.from]
    BY <1>3, <2>1
  <2> QED
    BY <1>5, <2>1, <2>2 DEF OnePost
<1>7. failures' \in 0..MaxFailures
  BY MigrationAssumption DEF Vanish, TypeOK
<1> QED
  BY <1>1, <1>2, <1>3, <1>4, <1>5, <1>6, <1>7 DEF WorkersSound, Sound

\* A node crashes, in the middle of a rewrite of its tasks or not, and starts again.
LEMMA ProcessTyped ==
    ASSUME TInv, NEW n \in Nodes, Crash(n) \/ EndInPersist(n) \/ Start(n)
    PROVE  TInv'
<1> USE DEF TInv
<1>1. CASE Crash(n) \/ EndInPersist(n)
  <2>1. Vanish(n) /\ failures < MaxFailures
    BY <1>1 DEF Crash, EndInPersist
  <2>2. file' \in [Nodes -> [pending : Pending, delayed : SUBSET Keys]]
    BY <1>1, TasksTyped DEF Crash, EndInPersist, TypeOK
  <2>3. UNCHANGED <<ring, view, kv, acked, gone, writes>>
    BY <1>1 DEF Crash, EndInPersist
  <2> QED
    BY <2>1, <2>2, <2>3, VanishTyped DEF TypeOK
<1>2. CASE Start(n)
  <2>1. /\ n \notin up /\ up' = up \cup {n}
        /\ UNCHANGED <<ring, kv, file, worker, wire, clients, failures>>
    BY <1>2 DEF Start
  <2>2. view' \in [Nodes -> 1..ring]
    BY <1>2, MigrationAssumption DEF Start, TypeOK
  <2>3. /\ pending' \in [Nodes -> Pending] /\ delayed' \in [Nodes -> SUBSET Keys]
        /\ \A u \in Nodes \ {n} : pending'[u] = pending[u]
    BY <1>2 DEF Start, TypeOK
  <2>4. worker[n].at = "wait" /\ Sound(worker[n], pending[n])
    BY <2>1 DEF WorkersSound
  <2>5. Sound(worker[n], pending'[n])
    BY <2>4 DEF Sound
  <2>6. WorkersSound'
    BY <2>1, <2>3, <2>5 DEF WorkersSound
  <2>7. OnePost'
    BY <2>1 DEF OnePost
  <2>8. \A u \in Nodes : worker'[u].at \in {"post", "settle"} => worker'[u].task # NoTask
    BY <2>6 DEF WorkersSound, Sound
  <2> QED
    BY <2>1, <2>2, <2>3, <2>6, <2>7, <2>8 DEF TypeOK, clients
<1> QED
  BY <1>1, <1>2

\* What a worker has in hand.
LEMMA HandTyped ==
    ASSUME TInv, NEW n \in Nodes
    PROVE  /\ worker[n].todo \in SUBSET Keys /\ worker[n].key \in Keys
           /\ worker[n].page \in [Keys -> Value] /\ worker[n].task \in Task \cup {NoTask}
           /\ \A stage \in Stages, todo \in SUBSET Keys :
                 /\ [worker[n] EXCEPT !.at = stage] \in WorkerState
                 /\ [worker[n] EXCEPT !.todo = todo] \in WorkerState
BY DEF TInv, TypeOK, WorkerState

\* The scan keeps the types, up to the posts.
LEMMA ScanTyped ==
    ASSUME TInv, NEW n \in Nodes, Wake(n) \/ ScanNext(n) \/ List(n)
    PROVE  TInv'
<1> USE DEF TInv
<1>1. CASE Wake(n)
  <2> DEFINE next == [Waiting EXCEPT !.at = "scan", !.page = kv[n], !.todo = Stored(kv[n])]
  <2>1. kv[n] \in [Keys -> Value] /\ Stored(kv[n]) \in SUBSET Keys
    BY DEF TypeOK, Stored
  <2>2. Sound(next, pending[n])
    BY <2>1, WaitingSound DEF Sound, WorkerState, Stages
  <2>3. /\ n \in up /\ worker[n].at # "post" /\ Become(n, next)
        /\ UNCHANGED <<ring, view, kv, up, tasks, wire, clients, failures>>
    BY <1>1 DEF Wake, At
  <2> HIDE DEF next
  <2> QED
    BY <2>2, <2>3, WorkerGoesOn DEF TypeOK, tasks, clients
<1>2. CASE ScanNext(n)
  <2>1. PICK k \in First(worker[n].todo) :
          /\ IF Local(n, k) \/ pending[n][k] # NoTask
             THEN UNCHANGED <<tasks, failures>>
             ELSE /\ pending' = [pending EXCEPT ![n][k] =
                        [record |-> worker[n].page[k], target |-> Owner(n, k), attempts |-> 0]]
                  /\ UNCHANGED delayed
                  /\ Persist(n)
          /\ Become(n, [worker[n] EXCEPT !.todo = @ \ {k}])
    BY <1>2 DEF ScanNext
  <2> DEFINE next == [worker[n] EXCEPT !.todo = @ \ {k}]
  <2>2. k \in worker[n].todo /\ k \in Keys /\ worker[n].todo \in SUBSET Keys
    BY <2>1, HandTyped DEF First
  <2>3. n \in up /\ worker[n].at = "scan"
    BY <1>2 DEF ScanNext, At
  <2>4. Sound(next, pending'[n])
    <3>1. next \in WorkerState /\ next.at = "scan" /\ next.todo = worker[n].todo \ {k}
          /\ next.page = worker[n].page
      <4>1. worker[n] \in WorkerState
        BY DEF TypeOK
      <4> QED
        BY <2>2, <2>3, <4>1 DEF WorkerState
    <3>2. worker[n].todo \subseteq Stored(worker[n].page)
      BY <2>3 DEF WorkersSound, Sound
    <3> HIDE DEF next
    <3> QED
      BY <3>1, <3>2 DEF Sound
  <2>5. UNCHANGED <<ring, view, kv, up, wire, clients>>
    BY <1>2 DEF ScanNext
  <2>6. /\ pending' \in [Nodes -> Pending] /\ delayed' = delayed
        /\ \A u \in Nodes \ {n} : pending'[u] = pending[u]
        /\ file' \in [Nodes -> [pending : Pending, delayed : SUBSET Keys]]
        /\ failures' \in 0..MaxFailures
    <3>1. CASE UNCHANGED <<tasks, failures>>
      BY <3>1 DEF tasks, TypeOK
    <3>2. CASE /\ pending' = [pending EXCEPT ![n][k] =
                        [record |-> worker[n].page[k], target |-> Owner(n, k), attempts |-> 0]]
               /\ UNCHANGED delayed
               /\ Persist(n)
      <4>1. worker[n].page[k] \in Record
        <5>1. worker[n].page[k] \in Value /\ worker[n].page[k] # Absent
          BY <2>2, <2>3, HandTyped DEF WorkersSound, Sound, Stored
        <5> QED
          BY <5>1 DEF Value
      <4>2. Owner(n, k) \in Nodes
        BY <2>2, MigrationAssumption DEF Owner, TypeOK
      <4>3. [record |-> worker[n].page[k], target |-> Owner(n, k), attempts |-> 0] \in Task
        BY <4>1, <4>2, MigrationAssumption DEF Task
      <4>4. pending' \in [Nodes -> Pending] /\ delayed' \in [Nodes -> SUBSET Keys]
        BY <2>2, <3>2, <4>3, TasksTyped DEF TypeOK
      <4>5. \A u \in Nodes \ {n} : pending'[u] = pending[u]
        BY <3>2 DEF TypeOK
      <4> QED
        BY <3>2, <4>4, <4>5, PersistTyped
    <3> QED
      BY <2>1, <3>1, <3>2
  <2>7. Become(n, next)
    BY <2>1
  <2> HIDE DEF next
  <2> QED
    BY <2>3, <2>4, <2>5, <2>6, <2>7, WorkerGoesOn DEF TypeOK, clients
<1>3. CASE List(n)
  <2> DEFINE todo == {k \in Keys : pending[n][k] # NoTask}
             next == [Waiting EXCEPT !.at = "take", !.todo = todo]
  <2>1. Sound(next, pending[n])
    <3>1. todo \in SUBSET Keys /\ \A k \in todo : pending[n][k] # NoTask
      OBVIOUS
    <3>2. "take" \in Stages
      BY DEF Stages
    <3> HIDE DEF todo
    <3> QED
      BY <3>1, <3>2, GoToSound
  <2>2. /\ n \in up /\ worker[n].at # "post" /\ Become(n, next)
        /\ UNCHANGED <<ring, view, kv, up, tasks, wire, clients, failures>>
    BY <1>3 DEF List, At, GoTo
  <2> HIDE DEF next
  <2> QED
    BY <2>1, <2>2, WorkerGoesOn DEF TypeOK, tasks, clients
<1> QED
  BY <1>1, <1>2, <1>3

\* A post is sent: the only one its worker waits for.
LEMMA TakeTyped ==
    ASSUME TInv, NEW n \in Nodes, Take(n)
    PROVE  TInv'
<1> USE DEF TInv
<1>1. PICK k \in First(worker[n].todo) :
          /\ Become(n, [worker[n] EXCEPT !.at = "post", !.todo = @ \ {k},
                                         !.key = k, !.task = pending[n][k]])
          /\ wire' = wire \cup {[from |-> n, to |-> pending[n][k].target, key |-> k,
                                 record |-> pending[n][k].record, awaited |-> TRUE]}
  BY DEF Take
<1> DEFINE next == [worker[n] EXCEPT !.at = "post", !.todo = @ \ {k},
                                     !.key = k, !.task = pending[n][k]]
           m == [from |-> n, to |-> pending[n][k].target, key |-> k,
                 record |-> pending[n][k].record, awaited |-> TRUE]
<1>2. n \in up /\ worker[n].at = "take" /\ k \in worker[n].todo /\ k \in Keys
  BY <1>1, HandTyped DEF Take, At, First
<1>3. \A j \in worker[n].todo : pending[n][j] # NoTask
  BY <1>2 DEF WorkersSound, Sound
<1>4. pending[n] \in Pending
  BY DEF TypeOK
<1>5. pending[n][k] \in Task /\ pending[n][k] # NoTask
  BY <1>2, <1>3, <1>4 DEF Pending
<1>6. /\ next \in WorkerState /\ next.at = "post" /\ next.todo = worker[n].todo \ {k}
      /\ next.key = k /\ next.task = pending[n][k]
  <2>1. worker[n] \in WorkerState
    BY DEF TypeOK
  <2> QED
    BY <1>2, <1>5, <2>1 DEF WorkerState, Stages
<1>7. m \in Post /\ m.from = n /\ m.key = k
  BY <1>2, <1>5 DEF Post, Task
<1>8. Become(n, next) /\ wire' = wire \cup {m}
      /\ UNCHANGED <<ring, view, kv, up, tasks, clients, failures>>
  BY <1>1 DEF Take
<1> HIDE DEF next, m
<1>9. /\ worker' \in [Nodes -> WorkerState] /\ worker'[n] = next
      /\ \A u \in Nodes \ {n} : worker'[u] = worker[u]
  BY <1>6, <1>8, BecomeTyped
<1>10. Sound(next, pending[n])
  BY <1>3, <1>5, <1>6 DEF Sound
<1>11. WorkersSound'
  BY <1>2, <1>8, <1>9, <1>10 DEF WorkersSound, tasks
<1>12. OnePost'
  <2>1. \A q \in wire : q.awaited => q.from # n /\ q.from \in Nodes
    BY <1>2 DEF OnePost, TypeOK, Post
  <2>2. \A q \in wire : q.awaited => worker'[q.from] = worker[q.from]
    BY <1>9, <2>1
  <2> QED
    BY <1>6, <1>7, <1>8, <1>9, <2>1, <2>2 DEF OnePost
<1>13. wire' \subseteq Post
  BY <1>7, <1>8 DEF TypeOK
<1> QED
  BY <1>8, <1>9, <1>11, <1>12, <1>13 DEF TypeOK, tasks, clients, WorkersSound, Sound

\* The worker of n has the answer, or knows that there will be none; posts leave the wire
\* or are no longer awaited.
LEMMA AnswerTyped ==
    ASSUME TInv, NEW n \in Nodes, n \in up, worker[n].at = "post", NEW ok \in BOOLEAN, Answer(n, ok),
           wire' \subseteq Post,
           \A m \in wire' : m.awaited => m \in wire /\ m.from # n,
           UNCHANGED <<up, pending>>
    PROVE  /\ worker' \in [Nodes -> WorkerState]
           /\ \A u \in Nodes : worker'[u].at \in {"post", "settle"} => worker'[u].task # NoTask
           /\ WorkersSound' /\ OnePost'
           /\ worker'[n].at = "settle" /\ worker'[n].ok = ok /\ worker'[n].key = worker[n].key
           /\ \A u \in Nodes \ {n} : worker'[u] = worker[u]
<1> USE DEF TInv
<1> DEFINE next == [worker[n] EXCEPT !.at = "settle", !.ok = ok]
<1>1. /\ next \in WorkerState /\ next.at = "settle" /\ next.ok = ok /\ next.todo = worker[n].todo
      /\ next.key = worker[n].key /\ next.task = worker[n].task
  <2>1. worker[n] \in WorkerState
    BY DEF TypeOK
  <2> QED
    BY <2>1 DEF WorkerState, Stages
<1>2. Become(n, next)
  BY DEF Answer
<1> HIDE DEF next
<1>3. /\ worker' \in [Nodes -> WorkerState] /\ worker'[n] = next
      /\ \A u \in Nodes \ {n} : worker'[u] = worker[u]
  BY <1>1, <1>2, BecomeTyped
<1>4. Sound(worker[n], pending[n])
  BY DEF WorkersSound
<1>5. Sound(next, pending[n])
  BY <1>1, <1>4 DEF Sound
<1>6. WorkersSound'
  BY <1>3, <1>5 DEF WorkersSound
<1>7. OnePost'
  <2>1. \A m \in wire' : m.awaited => worker'[m.from] = worker[m.from] /\ m \in wire
    BY <1>3 DEF Post
  <2> QED
    BY <2>1 DEF OnePost
<1> QED
  BY <1>1, <1>3, <1>6, <1>7 DEF WorkersSound, Sound

\* A worker whose post fails goes on to settle the same task.
LEMMA FailPostTyped ==
    ASSUME TInv, NEW n \in Nodes, FailPost(n)
    PROVE  TInv'
<1> USE DEF TInv
<1> DEFINE awaited == {m \in wire : m.from = n /\ m.awaited}
<1>1. /\ n \in up /\ worker[n].at = "post" /\ Answer(n, FALSE)
      /\ UNCHANGED <<ring, view, kv, up, tasks, clients>>
  BY DEF FailPost, At
<1>2. /\ wire' = wire \ awaited \/ wire' = (wire \ awaited) \cup {[m EXCEPT !.awaited = FALSE] : m \in awaited}
      /\ failures' \in 0..MaxFailures
  BY MigrationAssumption DEF FailPost, TypeOK
<1>3. \A m \in awaited : [m EXCEPT !.awaited = FALSE] \in Post /\ [m EXCEPT !.awaited = FALSE].awaited = FALSE
  BY DEF TypeOK, Post
<1>4. wire' \subseteq Post
  BY <1>2, <1>3 DEF TypeOK
<1>5. \A m \in wire' : m.awaited => m \in wire /\ m.from # n
  <2>1. \A m \in wire \ awaited : m.awaited => m \in wire /\ m.from # n
    OBVIOUS
  <2>2. \A m \in {[q EXCEPT !.awaited = FALSE] : q \in awaited} : ~ m.awaited
    BY <1>3
  <2> HIDE DEF awaited
  <2> QED
    BY <1>2, <2>1, <2>2
<1> HIDE DEF awaited
<1> QED
  BY <1>1, <1>2, <1>4, <1>5, AnswerTyped DEF TypeOK, tasks, clients

\* An answer reaches the worker whose post was delivered, and no other.
LEMMA DeliverTyped ==
    ASSUME TInv, NEW m \in wire, Deliver(m)
    PROVE  TInv'
<1> USE DEF TInv
<1>1. m \in Post
  BY DEF TypeOK
<1>2. /\ wire' = wire \ {m} /\ wire' \subseteq Post
      /\ UNCHANGED <<ring, view, up, tasks, clients, failures>>
  BY DEF Deliver, TypeOK
<1>3. kv' \in [Nodes -> [Keys -> Value]]
  BY <1>1 DEF Deliver, TypeOK, Post, Value
<1>4. CASE m.awaited
  <2> DEFINE ok == ~ Rejects(kv[m.to][m.key], m.record)
  <2>1. Answer(m.from, ok) /\ ok \in BOOLEAN
    BY <1>4 DEF Deliver
  <2>2. worker[m.from].at = "post" /\ \A q \in wire : q.awaited /\ q.from = m.from => q = m
    BY <1>4 DEF OnePost
  <2>3. m.from \in Nodes /\ m.from \in up
    BY <1>1, <2>2 DEF Post, WorkersSound
  <2>4. \A q \in wire' : q.awaited => q \in wire /\ q.from # m.from
    BY <1>2, <2>2
  <2> HIDE DEF ok
  <2> QED
    BY <1>2, <1>3, <2>1, <2>2, <2>3, <2>4, AnswerTyped DEF TypeOK, tasks, clients
<1>5. CASE ~ m.awaited
  <2>1. UNCHANGED worker
    BY <1>5 DEF Deliver
  <2>2. WorkersSound'
    BY <1>2, <2>1 DEF WorkersSound, tasks
  <2>3. OnePost'
    BY <1>2, <2>1 DEF OnePost
  <2> QED
    BY <1>2, <1>3, <2>1, <2>2, <2>3 DEF TypeOK, tasks, clients
<1> QED
  BY <1>4, <1>5

\* What Settle makes of the task in hand and of the deletes to come.
LEMMA SettleTasks ==
    ASSUME TInv, NEW n \in Nodes, Settle(n)
    PROVE  /\ n \in up /\ worker[n].at = "settle" /\ worker[n].key \in Keys
           /\ Persist(n)
           /\ pending' \in [Nodes -> Pending] /\ delayed' \in [Nodes -> SUBSET Keys]
           /\ \A u \in Nodes \ {n} : pending'[u] = pending[u] /\ delayed'[u] = delayed[u]
           /\ \A k \in Keys \ {worker[n].key} : pending'[n][k] = pending[n][k]
           /\ pending'[n][worker[n].key] # NoTask =>
                 /\ pending'[n][worker[n].key].target = pending[n][worker[n].key].target
                 /\ pending'[n][worker[n].key].record = pending[n][worker[n].key].record
           /\ pending[n][worker[n].key] # NoTask
           /\ delayed'[n] = IF worker[n].ok THEN delayed[n] \cup {worker[n].key} ELSE delayed[n]
<1> USE DEF TInv
<1> DEFINE k == worker[n].key
           attempts == pending[n][k].attempts + 1
<1>1. n \in up /\ worker[n].at = "settle" /\ k \in Keys /\ Persist(n)
  BY HandTyped DEF Settle, At
<1>2. pending[n] \in Pending /\ pending[n][k] \in Task /\ pending[n][k] # NoTask
  <2>1. pending[n] \in Pending /\ pending[n][k] # NoTask
    BY <1>1 DEF TypeOK, WorkersSound, Sound
  <2> QED
    BY <1>1, <2>1 DEF Pending
<1>3. attempts < MaxRetries => [pending[n][k] EXCEPT !.attempts = attempts] \in Task
  BY <1>2, MigrationAssumption DEF Task
<1>4. pending[n][k].attempts \in Nat
  BY <1>2 DEF Task
<1>5. PICK t \in Task \cup {NoTask} :
        /\ pending' = [pending EXCEPT ![n][k] = t]
        /\ t # NoTask => t.target = pending[n][k].target /\ t.record = pending[n][k].record
        /\ delayed' = IF worker[n].ok THEN [delayed EXCEPT ![n] = @ \cup {k}] ELSE delayed
  <2>1. CASE worker[n].ok
    BY <2>1 DEF Settle
  <2>2. CASE ~ worker[n].ok /\ attempts >= MaxRetries
    BY <2>2 DEF Settle
  <2>3. CASE ~ worker[n].ok /\ ~ (attempts >= MaxRetries)
    <3> DEFINE t == [pending[n][k] EXCEPT !.attempts = attempts]
    <3>1. t \in Task
      BY <1>3, <1>4, <2>3, MigrationAssumption
    <3>2. t.target = pending[n][k].target /\ t.record = pending[n][k].record
      BY <1>2 DEF Task
    <3>3. pending' = [pending EXCEPT ![n][k] = t] /\ delayed' = delayed
      <4>1. pending[n] \in [Keys -> Task \cup {NoTask}]
        BY <1>2 DEF Pending
      <4> QED
        BY <1>1, <2>3, <4>1 DEF Settle, TypeOK
    <3> QED
      BY <2>3, <3>1, <3>2, <3>3
  <2> QED
    BY <2>1, <2>2, <2>3
<1>6. pending' \in [Nodes -> Pending] /\ delayed' \in [Nodes -> SUBSET Keys]
  BY <1>1, <1>5, TasksTyped DEF TypeOK
<1>7. /\ pending'[n] = [pending[n] EXCEPT ![k] = t]
      /\ \A u \in Nodes \ {n} : pending'[u] = pending[u] /\ delayed'[u] = delayed[u]
      /\ delayed'[n] = IF worker[n].ok THEN delayed[n] \cup {k} ELSE delayed[n]
  BY <1>5 DEF TypeOK
<1>8. pending'[n][k] = t /\ \A j \in Keys \ {k} : pending'[n][j] = pending[n][j]
  BY <1>1, <1>2, <1>7 DEF Pending
<1> QED
  BY <1>1, <1>2, <1>5, <1>6, <1>7, <1>8

\* What a worker settles is the task it took, which is still there.
LEMMA SettleTyped ==
    ASSUME TInv, NEW n \in Nodes, Settle(n)
    PROVE  TInv'
<1> USE DEF TInv
<1> DEFINE next == [Waiting EXCEPT !.at = "take", !.todo = worker[n].todo]
<1>1. /\ n \in up /\ worker[n].at = "settle" /\ Persist(n)
      /\ pending' \in [Nodes -> Pending] /\ delayed' \in [Nodes -> SUBSET Keys]
      /\ \A u \in Nodes \ {n} : pending'[u] = pending[u]
      /\ \A k \in Keys \ {worker[n].key} : pending'[n][k] = pending[n][k]
  BY SettleTasks
<1>2. /\ file' \in [Nodes -> [pending : Pending, delayed : SUBSET Keys]]
      /\ failures' \in 0..MaxFailures
  BY <1>1, PersistTyped
<1>3. Become(n, next) /\ UNCHANGED <<ring, view, kv, up, wire, clients>>
  BY DEF Settle, GoTo
<1>4. Sound(next, pending'[n])
  <2>1. \A k \in worker[n].todo : pending[n][k] # NoTask /\ k # worker[n].key /\ k \in Keys
    BY <1>1, HandTyped DEF WorkersSound, Sound
  <2>2. "take" \in Stages /\ worker[n].todo \in SUBSET Keys
    BY HandTyped DEF Stages
  <2>3. \A k \in worker[n].todo : pending'[n][k] # NoTask
    BY <1>1, <2>1
  <2> QED
    BY <2>2, <2>3, GoToSound
<1> HIDE DEF next
<1> QED
  BY <1>1, <1>2, <1>3, <1>4, WorkerGoesOn DEF TypeOK, clients

\* The worker of n comes to its deletes and goes on with them; its tasks stay.
LEMMA DeletesTyped ==
    ASSUME TInv, NEW n \in Nodes, ProcessDueDeletes(n)
    PROVE  TInv'
<1> USE DEF TInv
<1>1. "due" \in Stages /\ "erase" \in Stages /\ "take" \in Stages
  BY DEF Stages
<1>2. ASSUME NEW state, Become(n, state), Sound(state, pending[n]), UNCHANGED pending,
             n \in up, worker[n].at # "post", UNCHANGED <<up, wire>>
      PROVE  /\ worker' \in [Nodes -> WorkerState]
             /\ \A u \in Nodes : worker'[u].at \in {"post", "settle"} => worker'[u].task # NoTask
             /\ WorkersSound' /\ OnePost'
  BY <1>2, WorkerGoesOn
<1>3. CASE NoneDue(n)
  <2>1. /\ Become(n, Waiting) /\ n \in up /\ worker[n].at # "post"
        /\ UNCHANGED <<ring, view, kv, up, tasks, wire, clients, failures>>
    BY <1>3 DEF NoneDue, At
  <2> QED
    BY <1>2, <2>1, WaitingSound DEF TypeOK, tasks, clients
<1>4. CASE TakeDue(n)
  <2>1. PICK due \in SUBSET delayed[n] \ {{}}, later \in SUBSET delayed[n] :
          /\ later \subseteq due
          /\ delayed' = [delayed EXCEPT ![n] = (@ \ due) \cup later]
          /\ GoTo(n, "due", due)
    BY <1>4 DEF TakeDue
  <2> DEFINE next == [Waiting EXCEPT !.at = "due", !.todo = due]
  <2>2. due \in SUBSET Keys /\ later \in SUBSET Keys /\ delayed' \in [Nodes -> SUBSET Keys]
    BY <2>1 DEF TypeOK
  <2>3. Sound(next, pending[n]) /\ Become(n, next)
    BY <1>1, <2>1, <2>2, GoToSound DEF GoTo
  <2>4. /\ n \in up /\ worker[n].at # "post"
        /\ UNCHANGED <<ring, view, kv, up, pending, file, wire, clients, failures>>
    BY <1>4 DEF TakeDue, At
  <2> HIDE DEF next
  <2> QED
    BY <1>2, <2>2, <2>3, <2>4 DEF TypeOK, clients
<1>5. CASE Recheck(n)
  <2>1. PICK k \in worker[n].todo :
          Become(n, [worker[n] EXCEPT !.todo = @ \ {k}, !.key = k,
                                      !.at = IF Local(n, k) THEN "due" ELSE "erase"])
    BY <1>5 DEF Recheck
  <2> DEFINE next == [worker[n] EXCEPT !.todo = @ \ {k}, !.key = k,
                                       !.at = IF Local(n, k) THEN "due" ELSE "erase"]
  <2>2. /\ n \in up /\ worker[n].at # "post"
        /\ UNCHANGED <<ring, view, kv, up, tasks, wire, clients, failures>>
    BY <1>5 DEF Recheck, At
  <2>3. Sound(next, pending[n])
    <3>1. worker[n] \in WorkerState /\ k \in Keys
      BY HandTyped DEF TypeOK
    <3>2. next \in WorkerState /\ next.at \in {"due", "erase"}
      BY <1>1, <3>1 DEF WorkerState
    <3> HIDE DEF next
    <3> QED
      BY <3>2 DEF Sound
  <2>4. Become(n, next)
    BY <2>1
  <2> HIDE DEF next
  <2> QED
    BY <1>2, <2>2, <2>3, <2>4 DEF TypeOK, tasks, clients
<1>6. CASE Erase(n)
  <2> DEFINE next == [worker[n] EXCEPT !.at = "due"]
  <2>1. /\ n \in up /\ worker[n].at # "post" /\ Become(n, next)
        /\ UNCHANGED <<ring, view, up, tasks, wire, clients, failures>>
    BY <1>6 DEF Erase, At
  <2>2. kv' \in [Nodes -> [Keys -> Value]]
    <3>1. worker[n].key \in Keys
      BY HandTyped
    <3> QED
      BY <1>6, <3>1 DEF Erase, TypeOK, Value
  <2>3. Sound(next, pending[n])
    <3>1. worker[n] \in WorkerState
      BY DEF TypeOK
    <3>2. next \in WorkerState /\ next.at = "due"
      BY <1>1, <3>1 DEF WorkerState
    <3> HIDE DEF next
    <3> QED
      BY <3>2 DEF Sound
  <2> HIDE DEF next
  <2> QED
    BY <1>2, <2>1, <2>2, <2>3 DEF TypeOK, tasks, clients
<1>7. CASE EndDeletes(n)
  <2>1. /\ n \in up /\ worker[n].at # "post" /\ Become(n, Waiting) /\ Persist(n)
        /\ UNCHANGED <<ring, view, kv, up, pending, delayed, wire, clients>>
    BY <1>7 DEF EndDeletes, At
  <2>2. /\ file' \in [Nodes -> [pending : Pending, delayed : SUBSET Keys]]
        /\ failures' \in 0..MaxFailures
    BY <2>1, PersistTyped DEF TypeOK
  <2> QED
    BY <1>2, <2>1, <2>2, WaitingSound DEF TypeOK, clients
<1> QED
  BY <1>3, <1>4, <1>5, <1>6, <1>7 DEF ProcessDueDeletes

\* Clients' operations.
LEMMA ClientTyped ==
    ASSUME TInv, Client
    PROVE  TInv'
<1> USE DEF TInv
<1>1. Absent \in Value /\ \A r \in Sent : r \in Value
  BY MigrationAssumption DEF Value
<1>2. ASSUME NEW n \in Nodes, NEW k \in Keys, NEW value \in Value, Route(n, k, value)
      PROVE  TInv'
  <2>1. requests' \subseteq ClientRequest /\ writes' \in 0..MaxWrites
    BY <1>2, MigrationAssumption DEF Route, TypeOK, ClientRequest
  <2>2. UNCHANGED <<ring, view, kv, up, tasks, worker, wire, acked, gone, failures>>
    BY <1>2 DEF Route
  <2>3. WorkersSound' /\ OnePost'
    BY <2>2 DEF WorkersSound, OnePost, tasks
  <2> QED
    BY <2>1, <2>2, <2>3 DEF TypeOK, tasks
<1>3. ASSUME NEW q \in requests, Put(q) \/ Delete(q)
      PROVE  TInv'
  <2>1. q.at \in Nodes /\ q.key \in Keys /\ q.value \in Value
    BY DEF TypeOK, ClientRequest
  <2>2. /\ requests' \subseteq ClientRequest
        /\ UNCHANGED <<ring, view, up, tasks, worker, wire, writes, failures>>
    BY <1>3 DEF Put, Delete, TypeOK
  <2>3. kv' \in [Nodes -> [Keys -> Value]] /\ acked' \in [Keys -> Value] /\ gone' \subseteq Nodes \X Keys
    <3>1. CASE Put(q)
      <4>1. kv' = kv \/ kv' = [kv EXCEPT ![q.at][q.key] = q.value]
        BY <3>1 DEF Put
      <4>2. acked' = acked \/ \E value \in {acked[q.key], q.value} :
                acked' = [acked EXCEPT ![q.key] = value]
        BY <3>1 DEF Put
      <4>3. gone' \subseteq gone
        BY <3>1 DEF Put
      <4>4. kv' \in [Nodes -> [Keys -> Value]]
        <5>1. kv \in [Nodes -> [Keys -> Value]]
          BY DEF TypeOK
        <5>2. [kv EXCEPT ![q.at][q.key] = q.value] \in [Nodes -> [Keys -> Value]]
          BY <2>1, <5>1
        <5> QED
          BY <4>1, <5>1, <5>2
      <4>5. acked' \in [Keys -> Value]
        BY <2>1, <4>2 DEF TypeOK
      <4> QED
        BY <4>3, <4>4, <4>5 DEF TypeOK
    <3>2. CASE Delete(q)
      BY <1>1, <2>1, <3>2 DEF Delete, TypeOK
    <3> QED
      BY <1>3, <3>1, <3>2
  <2>4. WorkersSound' /\ OnePost'
    BY <2>2 DEF WorkersSound, OnePost, tasks
  <2> QED
    BY <2>2, <2>3, <2>4 DEF TypeOK, tasks
<1> QED
  BY <1>1, <1>2, <1>3 DEF Client

\* The types and what they rest on are inductive, whatever happens.
LEMMA StepTyped == TInv /\ [Next]_vars => TInv'
<1> SUFFICES ASSUME TInv, [Next]_vars PROVE TInv'
  OBVIOUS
<1>1. CASE UNCHANGED vars
  BY <1>1 DEF vars, tasks, clients, TInv, TypeOK, WorkersSound, OnePost
<1>2. CASE ChangeRing \/ \E n \in Nodes : Reload(n)
  BY <1>2, RingTyped
<1>3. ASSUME NEW n \in Nodes, \/ Crash(n) \/ EndInPersist(n) \/ Start(n)
                              \/ Scan(n) \/ FailPost(n) \/ ProcessDueDeletes(n)
      PROVE  TInv'
  BY <1>3, ProcessTyped, ScanTyped, TakeTyped, SettleTyped, FailPostTyped, DeletesTyped DEF Scan
<1>4. CASE \E m \in wire : Deliver(m)
  BY <1>4, DeliverTyped
<1>5. CASE Client
  BY <1>5, ClientTyped
<1> QED
  BY <1>1, <1>2, <1>3, <1>4, <1>5 DEF Next

\* The variables keep their types for any number of nodes, keys and changes of the ring,
\* whatever clients do and whatever fails; in particular a worker never works on a task
\* that is not there, and a task is never tried more often than cluster.migration_max_retries
\* says.
THEOREM MigrationTypeCorrect == Spec => []TypeOK
<1>1. Init => TInv
  BY InitTyped
<1>2. TInv /\ [Next]_vars => TInv'
  BY StepTyped
<1>3. TInv => TypeOK
  BY DEF TInv
<1> QED
  BY <1>1, <1>2, <1>3, PTL DEF Spec

-----------------------------------------------------------------------------
(***************************************************************************)
(* One change of the ring, and clients that only put.                      *)
(***************************************************************************)
OneChange == Len(Rings) <= 2 /\ "delete" \notin Operations

Final == Len(Rings)

OldOwner(k) == Rings[1][k]
NewOwner(k) == Rings[Final][k]

\* Copies are with the two owners, and with the new one once the ring has changed.
MayHold(n, k) == n = OldOwner(k) \/ (ring = Final /\ n = NewOwner(k))

\* Records are posted after the change, by any but the new owner to the new owner.  The new
\* owner, as long as it routes by the old ring, posts to the old one.
Goes(n, k, target) ==
    /\ ring = Final
    /\ target \in {OldOwner(k), NewOwner(k)}
    /\ n # NewOwner(k) => target = NewOwner(k)

\* The answer has been that the target has the record: n is to delete its copy.
Marked(n, k) ==
    \/ k \in delayed[n] \/ k \in file[n].delayed
    \/ worker[n].at \in {"due", "erase"} /\ k \in worker[n].todo
    \/ worker[n].at = "erase" /\ k = worker[n].key
    \/ worker[n].at = "settle" /\ worker[n].ok /\ k = worker[n].key

\* A copy that is to be deleted is not the only one; when it is deleted the node knows the
\* ring and is not the new owner.
NodeKept(n) ==
    /\ \A k \in Keys :
          /\ kv[n][k] # Absent => MayHold(n, k)
          /\ worker[n].at = "scan" /\ k \in worker[n].todo => MayHold(n, k)
          /\ pending[n][k] # NoTask => Goes(n, k, pending[n][k].target)
          /\ file[n].pending[k] # NoTask => Goes(n, k, file[n].pending[k].target)
          /\ Marked(n, k) => ring = Final /\ (n # NewOwner(k) => kv[NewOwner(k)][k] # Absent)
    /\ worker[n].at = "due" /\ worker[n].todo # {} => view[n] = Final
    /\ worker[n].at = "erase" => view[n] = Final /\ n # NewOwner(worker[n].key)

PostsKept == \A m \in wire : Goes(m.from, m.key, m.to)

RequestsKept == \A q \in requests : q.value # Absent /\ MayHold(q.at, q.key)

AckedHeld ==
    \A k \in Stored(acked) : kv[OldOwner(k)][k] # Absent \/ kv[NewOwner(k)][k] # Absent

CopyInv == TInv /\ (\A n \in Nodes : NodeKept(n)) /\ PostsKept /\ RequestsKept /\ AckedHeld

\* The rings a node may route by, and their owners.
LEMMA Rings12 ==
    ASSUME OneChange, TInv
    PROVE  /\ Final \in {1, 2} /\ ring \in {1, Final}
           /\ \A n \in Nodes : view[n] \in {1, ring}
           /\ \A k \in Keys : OldOwner(k) \in Nodes /\ NewOwner(k) \in Nodes
           /\ \A n \in Nodes, k \in Keys :
                 /\ view[n] = 1 => Owner(n, k) = OldOwner(k)
                 /\ view[n] = Final => Owner(n, k) = NewOwner(k)
<1>1. Final \in Nat /\ Final >= 1 /\ Rings \in Seq([Keys -> Nodes]) /\ Final = Len(Rings)
  BY MigrationAssumption DEF Final
<1>2. Final \in {1, 2}
  BY <1>1 DEF OneChange
<1>3. ring \in {1, Final} /\ \A n \in Nodes : view[n] \in {1, ring}
  <2>1. ring \in 1..Final
    BY <1>1 DEF TInv, TypeOK
  <2>2. \A n \in Nodes : view[n] \in 1..ring
    BY DEF TInv, TypeOK
  <2>3. ring \in {1, Final}
    BY <1>2, <2>1
  <2>4. \A i \in 1..ring : i \in {1, ring}
    BY <1>2, <2>3
  <2> QED
    BY <2>2, <2>3, <2>4
<1>4. \A i \in 1..Final, k \in Keys : Rings[i][k] \in Nodes
  BY <1>1
<1> QED
  BY <1>2, <1>3, <1>4 DEF OldOwner, NewOwner, Owner

\* What happens at n leaves the other nodes as they are.
LEMMA OthersKept ==
    ASSUME CopyInv, NEW n \in Nodes, ring' = ring,
           \A u \in Nodes \ {n} : /\ view'[u] = view[u] /\ worker'[u] = worker[u]
                                  /\ pending'[u] = pending[u] /\ delayed'[u] = delayed[u]
                                  /\ file'[u] = file[u] /\ kv'[u] = kv[u],
           \A k \in Keys : kv[NewOwner(k)][k] # Absent => kv'[NewOwner(k)][k] # Absent
    PROVE  \A u \in Nodes \ {n} : NodeKept(u)'
<1> SUFFICES ASSUME NEW u \in Nodes \ {n} PROVE NodeKept(u)'
  OBVIOUS
<1>1. NodeKept(u)
  BY DEF CopyInv
<1>2. \A k \in Keys : Marked(u, k)' = Marked(u, k)
  BY DEF Marked
<1>3. \A k \in Keys : MayHold(u, k)' = MayHold(u, k)
  BY DEF MayHold
<1>4. \A k \in Keys : \A target : Goes(u, k, target) => Goes(u, k, target)'
  BY DEF Goes
<1>5. \A k \in Keys :
          /\ pending'[u][k] # NoTask => Goes(u, k, pending[u][k].target)'
          /\ file'[u].pending[k] # NoTask => Goes(u, k, file[u].pending[k].target)'
  BY <1>1 DEF NodeKept, Goes
<1> QED
  BY <1>1, <1>2, <1>3, <1>5 DEF NodeKept

\* A node goes on; its store stays, and clients are not concerned.
LEMMA NodeGoesOn ==
    ASSUME CopyInv, TInv', NEW n \in Nodes, ring' = ring, kv' = kv, acked' = acked,
           requests' \subseteq requests,
           \A u \in Nodes \ {n} : /\ view'[u] = view[u] /\ worker'[u] = worker[u]
                                  /\ pending'[u] = pending[u] /\ delayed'[u] = delayed[u]
                                  /\ file'[u] = file[u],
           NodeKept(n)', PostsKept'
    PROVE  CopyInv'
<1>1. \A u \in Nodes : NodeKept(u)'
  BY OthersKept
<1>2. RequestsKept' /\ AckedHeld'
  BY DEF CopyInv, RequestsKept, AckedHeld, MayHold, Stored
<1> QED
  BY <1>1, <1>2 DEF CopyInv

\* The ring changes, or a node learns of it.
LEMMA RingKeeps ==
    ASSUME OneChange, CopyInv, TInv', ChangeRing \/ \E n \in Nodes : Reload(n)
    PROVE  CopyInv'
<1>1. Final \in {1, 2} /\ ring \in {1, Final} /\ \A n \in Nodes : view[n] \in {1, ring}
  BY Rings12 DEF CopyInv
<1>2. UNCHANGED <<kv, up, tasks, worker, wire, clients, failures>>
  BY DEF ChangeRing, Reload
<1>3. ring' = ring \/ ring # Final
  BY <1>1 DEF ChangeRing, Reload, Final
<1>4. \A n \in Nodes : view[n] = Final => view'[n] = Final
  <2>1. view \in [Nodes -> 1..ring]
    BY DEF CopyInv, TInv, TypeOK
  <2> QED
    BY <1>1, <2>1 DEF ChangeRing, Reload
<1>5. \A n \in Nodes : NodeKept(n)'
  BY <1>2, <1>3, <1>4 DEF CopyInv, NodeKept, Marked, MayHold, Goes, tasks
<1>6. PostsKept' /\ RequestsKept' /\ AckedHeld'
  BY <1>2, <1>3 DEF CopyInv, PostsKept, RequestsKept, AckedHeld, Goes, MayHold, Stored, clients
<1> QED
  BY <1>5, <1>6 DEF CopyInv

\* A node crashes and starts again: it finds its copies and what its task file says.
LEMMA ProcessKeeps ==
    ASSUME OneChange, CopyInv, TInv', NEW n \in Nodes, Crash(n) \/ EndInPersist(n) \/ Start(n)
    PROVE  CopyInv'
<1> USE DEF CopyInv
<1>1. NodeKept(n)
  OBVIOUS
<1>2. CASE Crash(n) \/ EndInPersist(n)
  <2>1. Vanish(n) /\ UNCHANGED <<ring, view, kv, acked>>
    BY <1>2 DEF Crash, EndInPersist
  <2>2. file' = file \/ file' = [file EXCEPT ![n] = NoTasks]
    BY <1>2 DEF Crash, EndInPersist
  <2>3. /\ pending'[n] = NoTasks.pending /\ delayed'[n] = {} /\ worker'[n] = Waiting
        /\ \A u \in Nodes \ {n} : /\ worker'[u] = worker[u] /\ pending'[u] = pending[u]
                                  /\ delayed'[u] = delayed[u] /\ file'[u] = file[u]
        /\ file'[n] = file[n] \/ file'[n] = NoTasks
    BY <2>1, <2>2, TasksTyped, WaitingSound, BecomeTyped DEF Vanish, TInv, TypeOK
  <2>4. requests' \subseteq requests
    BY <2>1 DEF Vanish
  <2>5. PostsKept'
    <3>1. \A m \in wire' : \E q \in wire : m.from = q.from /\ m.to = q.to /\ m.key = q.key
      <4> SUFFICES ASSUME NEW m \in wire'
                   PROVE  \E q \in wire : m.from = q.from /\ m.to = q.to /\ m.key = q.key
        OBVIOUS
      <4>1. PICK q \in wire : m = IF q.from = n THEN [q EXCEPT !.awaited = FALSE] ELSE q
        BY <2>1 DEF Vanish
      <4>2. q \in Post
        BY DEF TInv, TypeOK
      <4> QED
        BY <4>1, <4>2 DEF Post
    <3> QED
      BY <2>1, <3>1 DEF PostsKept, Goes
  <2>6. NodeKept(n)'
    <3>1. \A k \in Keys : pending'[n][k] = NoTask /\ NoTasks.pending[k] = NoTask /\ NoTasks.delayed = {}
      BY <2>3, TasksTyped
    <3>2. \A k \in Keys : Marked(n, k)' => Marked(n, k)
      BY <2>3, <3>1, WaitingSound DEF Marked
    <3>3. \A k \in Keys : file'[n].pending[k] # NoTask => file'[n] = file[n]
      BY <2>3, <3>1
    <3> QED
      BY <1>1, <2>1, <2>3, <3>1, <3>2, <3>3, WaitingSound DEF NodeKept, MayHold, Goes
  <2> QED
    BY <2>1, <2>3, <2>4, <2>5, <2>6, NodeGoesOn
<1>3. CASE Start(n)
  <2>1. /\ n \notin up /\ UNCHANGED <<ring, kv, file, worker, wire, clients, failures>>
        /\ view' = [view EXCEPT ![n] = ring]
        /\ pending' = [pending EXCEPT ![n] = file[n].pending]
        /\ delayed' = [delayed EXCEPT ![n] = file[n].delayed]
    BY <1>3 DEF Start
  <2>2. /\ pending'[n] = file[n].pending /\ delayed'[n] = file[n].delayed
        /\ \A u \in Nodes \ {n} : /\ view'[u] = view[u] /\ pending'[u] = pending[u]
                                  /\ delayed'[u] = delayed[u]
    BY <2>1 DEF TInv, TypeOK
  <2>3. worker'[n].at = "wait"
    BY <2>1 DEF TInv, WorkersSound
  <2>4. \A k \in Keys : Marked(n, k)' => Marked(n, k)
    BY <2>1, <2>2, <2>3 DEF Marked
  <2>5. NodeKept(n)'
    BY <1>1, <2>1, <2>2, <2>3, <2>4 DEF NodeKept, MayHold, Goes
  <2>6. PostsKept'
    BY <2>1 DEF PostsKept, Goes
  <2> QED
    BY <2>1, <2>2, <2>5, <2>6, NodeGoesOn DEF clients
<1> QED
  BY <1>2, <1>3

\* A page is read; a record of it whose owner is another node becomes a task for it.
LEMMA ScanKeeps ==
    ASSUME OneChange, CopyInv, TInv', NEW n \in Nodes, Wake(n) \/ ScanNext(n) \/ List(n)
    PROVE  CopyInv'
<1> USE DEF CopyInv
<1>1. NodeKept(n)
  OBVIOUS
<1>2. CASE Wake(n) \/ List(n)
  <2> DEFINE scans == [Waiting EXCEPT !.at = "scan", !.page = kv[n], !.todo = Stored(kv[n])]
             takes == [Waiting EXCEPT !.at = "take", !.todo = {k \in Keys : pending[n][k] # NoTask}]
  <2>1. /\ scans.at = "scan" /\ scans.todo = Stored(kv[n]) /\ takes.at = "take"
        /\ scans \in WorkerState /\ takes \in WorkerState
    <3>1. kv[n] \in [Keys -> Value] /\ Stored(kv[n]) \in SUBSET Keys
      BY DEF TInv, TypeOK, Stored
    <3> QED
      BY <3>1, WaitingSound DEF Waiting, WorkerState, Stages
  <2>2. /\ Become(n, scans) \/ Become(n, takes)
        /\ UNCHANGED <<ring, view, kv, up, tasks, wire, clients, failures>>
    BY <1>2 DEF Wake, List, GoTo
  <2> HIDE DEF scans, takes
  <2>3. /\ worker'[n] \in {scans, takes}
        /\ \A u \in Nodes \ {n} : worker'[u] = worker[u]
    BY <2>1, <2>2, BecomeTyped DEF TInv
  <2>4. \A k \in Keys : Marked(n, k)' => Marked(n, k)
    BY <2>1, <2>2, <2>3 DEF Marked, tasks
  <2>5. \A k \in Stored(kv[n]) : MayHold(n, k)
    BY <1>1 DEF NodeKept, Stored
  <2>6. NodeKept(n)'
    BY <1>1, <2>1, <2>2, <2>3, <2>4, <2>5 DEF NodeKept, MayHold, Goes, tasks
  <2>7. PostsKept'
    BY <2>2 DEF PostsKept, Goes
  <2> QED
    BY <2>2, <2>3, <2>6, <2>7, NodeGoesOn DEF tasks, clients
<1>3. CASE ScanNext(n)
  <2>1. PICK k \in First(worker[n].todo) :
          /\ \/ UNCHANGED <<tasks, failures>>
             \/ /\ ~ Local(n, k)
                /\ pending' = [pending EXCEPT ![n][k] =
                        [record |-> worker[n].page[k], target |-> Owner(n, k), attempts |-> 0]]
                /\ UNCHANGED delayed
                /\ Persist(n)
          /\ Become(n, [worker[n] EXCEPT !.todo = @ \ {k}])
    BY <1>3 DEF ScanNext
  <2> DEFINE next == [worker[n] EXCEPT !.todo = @ \ {k}]
             task == [record |-> worker[n].page[k], target |-> Owner(n, k), attempts |-> 0]
  <2>2. k \in worker[n].todo /\ k \in Keys /\ worker[n].at = "scan"
    BY <1>3, <2>1, HandTyped DEF First, ScanNext, At
  <2>3. UNCHANGED <<ring, view, kv, up, wire, clients>>
    BY <1>3 DEF ScanNext
  <2>4. next \in WorkerState /\ next.at = "scan" /\ next.todo = worker[n].todo \ {k}
    <3>1. worker[n] \in WorkerState
      BY DEF TInv, TypeOK
    <3> QED
      BY <2>2, <3>1 DEF WorkerState
  <2>5. Become(n, next)
    BY <2>1
  <2> HIDE DEF next
  <2>6. worker'[n] = next /\ \A u \in Nodes \ {n} : worker'[u] = worker[u]
    BY <2>4, <2>5, BecomeTyped DEF TInv
  <2>7. PostsKept'
    BY <2>3 DEF PostsKept, Goes
  <2>8. CASE UNCHANGED <<tasks, failures>>
    <3>1. \A j \in Keys : Marked(n, j)' => Marked(n, j)
      BY <2>2, <2>4, <2>6, <2>8 DEF Marked, tasks
    <3>2. NodeKept(n)'
      BY <1>1, <2>2, <2>3, <2>4, <2>6, <2>8, <3>1 DEF NodeKept, MayHold, Goes, tasks
    <3> QED
      BY <2>3, <2>6, <2>7, <2>8, <3>2, NodeGoesOn DEF tasks, clients
  <2>9. CASE ~ Local(n, k) /\ pending' = [pending EXCEPT ![n][k] = task] /\ UNCHANGED delayed /\ Persist(n)
    <3>1. Goes(n, k, Owner(n, k)) /\ task.target = Owner(n, k)
      <4>1. MayHold(n, k) /\ Owner(n, k) # n
        BY <1>1, <2>2, <2>9 DEF NodeKept, Local
      <4>2. /\ Final \in {1, 2} /\ ring \in {1, Final} /\ view[n] \in {1, ring}
            /\ view[n] = 1 => Owner(n, k) = OldOwner(k)
            /\ view[n] = Final => Owner(n, k) = NewOwner(k)
        BY <2>2, Rings12
      <4> QED
        BY <4>1, <4>2 DEF MayHold, Goes, OldOwner, NewOwner
    <3> HIDE DEF task
    <3>2. /\ pending'[n][k] = task
          /\ \A j \in Keys \ {k} : pending'[n][j] = pending[n][j]
          /\ \A u \in Nodes \ {n} : pending'[u] = pending[u]
      BY <2>2, <2>9 DEF TInv, TypeOK, Pending
    <3>3. /\ \A u \in Nodes \ {n} : file'[u] = file[u]
          /\ file'[n] = file[n] \/ file'[n] = [pending |-> pending'[n], delayed |-> delayed[n]]
      <4>1. pending'[n] \in Pending /\ delayed'[n] \in SUBSET Keys
        BY DEF TInv, TypeOK
      <4> QED
        BY <2>9, <4>1, PersistTyped DEF TInv
    <3>4. \A j \in Keys : pending'[n][j] # NoTask => Goes(n, j, pending'[n][j].target)
      BY <1>1, <3>1, <3>2 DEF NodeKept
    <3>5. \A j \in Keys : file'[n].pending[j] # NoTask => Goes(n, j, file'[n].pending[j].target)
      BY <1>1, <3>3, <3>4 DEF NodeKept
    <3>6. \A j \in Keys : Marked(n, j)' => Marked(n, j)
      BY <2>2, <2>4, <2>6, <2>9, <3>3 DEF Marked
    <3>7. NodeKept(n)'
      BY <1>1, <2>2, <2>3, <2>4, <2>6, <3>4, <3>5, <3>6 DEF NodeKept, MayHold, Goes
    <3> QED
      BY <2>3, <2>6, <2>7, <2>9, <3>2, <3>3, <3>7, NodeGoesOn DEF clients
  <2> QED
    BY <2>1, <2>8, <2>9
<1> QED
  BY <1>2, <1>3

\* A post goes where its task says.
LEMMA TakeKeeps ==
    ASSUME CopyInv, TInv', NEW n \in Nodes, Take(n)
    PROVE  CopyInv'
<1> USE DEF CopyInv
<1>1. PICK k \in First(worker[n].todo) :
          /\ Become(n, [worker[n] EXCEPT !.at = "post", !.todo = @ \ {k},
                                         !.key = k, !.task = pending[n][k]])
          /\ wire' = wire \cup {[from |-> n, to |-> pending[n][k].target, key |-> k,
                                 record |-> pending[n][k].record, awaited |-> TRUE]}
  BY DEF Take
<1>2. /\ worker[n].at = "take" /\ k \in worker[n].todo /\ k \in Keys
      /\ UNCHANGED <<ring, view, kv, up, tasks, clients, failures>>
  BY <1>1, HandTyped DEF Take, At, First
<1>3. pending[n][k] # NoTask
  BY <1>2 DEF TInv, WorkersSound, Sound
<1>4. Goes(n, k, pending[n][k].target)
  BY <1>2, <1>3 DEF NodeKept
<1>5. PostsKept'
  BY <1>1, <1>2, <1>4 DEF PostsKept, Goes
<1>6. worker'[n].at = "post" /\ \A u \in Nodes \ {n} : worker'[u] = worker[u]
  <2>1. worker \in [Nodes -> WorkerState] /\ worker[n] \in WorkerState
    BY DEF TInv, TypeOK
  <2> QED
    BY <1>1, <2>1 DEF Become, WorkerState
<1>7. \A j \in Keys : Marked(n, j)' => Marked(n, j)
  BY <1>2, <1>6 DEF Marked, tasks
<1>8. NodeKept(n)'
  BY <1>2, <1>6, <1>7 DEF NodeKept, MayHold, Goes, tasks
<1> QED
  BY <1>2, <1>5, <1>6, <1>8, NodeGoesOn DEF tasks, clients

\* A copy is marked when the answer has been that the new owner has the record.
LEMMA SettleKeeps ==
    ASSUME CopyInv, TInv', NEW n \in Nodes, Settle(n)
    PROVE  CopyInv'
<1> USE DEF CopyInv
<1> DEFINE next == [Waiting EXCEPT !.at = "take", !.todo = worker[n].todo]
           key == worker[n].key
<1>1. /\ worker[n].at = "settle" /\ key \in Keys
      /\ Persist(n)
      /\ pending' \in [Nodes -> Pending] /\ delayed' \in [Nodes -> SUBSET Keys]
      /\ \A u \in Nodes \ {n} : pending'[u] = pending[u] /\ delayed'[u] = delayed[u]
      /\ \A k \in Keys \ {key} : pending'[n][k] = pending[n][k]
      /\ pending'[n][key] # NoTask => pending'[n][key].target = pending[n][key].target
      /\ pending[n][key] # NoTask
      /\ delayed'[n] = IF worker[n].ok THEN delayed[n] \cup {key} ELSE delayed[n]
  BY SettleTasks
<1>2. /\ \A u \in Nodes \ {n} : file'[u] = file[u]
      /\ file'[n] = file[n] \/ file'[n] = [pending |-> pending'[n], delayed |-> delayed'[n]]
  BY <1>1, PersistTyped DEF TInv
<1>3. Become(n, next) /\ UNCHANGED <<ring, view, kv, up, wire, clients>>
  BY DEF Settle, GoTo
<1>4. next \in WorkerState /\ next.at = "take"
  <2>1. worker[n].todo \in SUBSET Keys
    BY HandTyped
  <2> QED
    BY <2>1, WaitingSound DEF Waiting, WorkerState, Stages
<1> HIDE DEF next
<1>5. worker'[n] = next /\ \A u \in Nodes \ {n} : worker'[u] = worker[u]
  BY <1>3, <1>4, BecomeTyped DEF TInv
<1>6. \A k \in delayed'[n] : Marked(n, k)
  BY <1>1 DEF Marked
<1>7. \A k \in Keys : Marked(n, k)' => Marked(n, k)
  BY <1>2, <1>4, <1>5, <1>6 DEF Marked
<1>8. \A k \in Keys : pending'[n][k] # NoTask => Goes(n, k, pending'[n][k].target)
  BY <1>1 DEF NodeKept
<1>9. \A k \in Keys : file'[n].pending[k] # NoTask => Goes(n, k, file'[n].pending[k].target)
  BY <1>2, <1>8 DEF NodeKept
<1>10. NodeKept(n)'
  BY <1>3, <1>4, <1>5, <1>7, <1>8, <1>9 DEF NodeKept, MayHold, Goes
<1>11. PostsKept'
  BY <1>3 DEF PostsKept, Goes
<1> QED
  BY <1>1, <1>2, <1>3, <1>5, <1>10, <1>11, NodeGoesOn DEF clients

\* A post that failed marks nothing.
LEMMA FailPostKeeps ==
    ASSUME CopyInv, TInv', NEW n \in Nodes, FailPost(n)
    PROVE  CopyInv'
<1> USE DEF CopyInv
<1> DEFINE next == [worker[n] EXCEPT !.at = "settle", !.ok = FALSE]
<1>1. Become(n, next) /\ UNCHANGED <<ring, view, kv, up, tasks, clients>>
  BY DEF FailPost, Answer
<1>2. next \in WorkerState /\ next.at = "settle" /\ next.ok = FALSE
  <2>1. worker[n] \in WorkerState
    BY DEF TInv, TypeOK
  <2> QED
    BY <2>1 DEF WorkerState, Stages
<1> HIDE DEF next
<1>3. worker'[n] = next /\ \A u \in Nodes \ {n} : worker'[u] = worker[u]
  BY <1>1, <1>2, BecomeTyped DEF TInv
<1>4. \A k \in Keys : Marked(n, k)' => Marked(n, k)
  BY <1>1, <1>2, <1>3 DEF Marked, tasks
<1>5. NodeKept(n)'
  BY <1>1, <1>2, <1>3, <1>4 DEF NodeKept, MayHold, Goes, tasks
<1>6. PostsKept'
  <2>1. \A m \in wire' : \E q \in wire : m.from = q.from /\ m.to = q.to /\ m.key = q.key
    <3>1. \A q \in wire : /\ [q EXCEPT !.awaited = FALSE].from = q.from
                          /\ [q EXCEPT !.awaited = FALSE].to = q.to
                          /\ [q EXCEPT !.awaited = FALSE].key = q.key
      BY DEF TInv, TypeOK, Post
    <3> DEFINE awaited == {m \in wire : m.from = n /\ m.awaited}
    <3>2. \/ wire' = wire \ awaited
          \/ wire' = (wire \ awaited) \cup {[m EXCEPT !.awaited = FALSE] : m \in awaited}
      BY DEF FailPost
    <3>3. awaited \subseteq wire
      OBVIOUS
    <3> HIDE DEF awaited
    <3>4. \A m \in wire' : m \in wire \/ \E q \in wire : m = [q EXCEPT !.awaited = FALSE]
      BY <3>2, <3>3
    <3> QED
      BY <3>1, <3>4
  <2> QED
    BY <1>1, <2>1 DEF PostsKept, Goes
<1> QED
  BY <1>1, <1>3, <1>5, <1>6, NodeGoesOn DEF tasks, clients

\* A record arrives: after a good answer the target has one under the key.
LEMMA DeliverKeeps ==
    ASSUME OneChange, CopyInv, TInv', NEW m \in wire, Deliver(m)
    PROVE  CopyInv'
<1> USE DEF CopyInv
<1> DEFINE ok == ~ Rejects(kv[m.to][m.key], m.record)
<1>1. /\ m.from \in Nodes /\ m.to \in Nodes /\ m.key \in Keys /\ m.record \in Record
      /\ m.record # Absent
  <2>1. m \in Post
    BY DEF TInv, TypeOK
  <2> QED
    BY <2>1, KvRecordAssumption DEF Post
<1>2. UNCHANGED <<ring, view, up, tasks, clients, failures>> /\ wire' = wire \ {m}
  BY DEF Deliver
<1>3. /\ \A n \in Nodes, k \in Keys :
            /\ kv[n][k] # Absent => kv'[n][k] # Absent
            /\ <<n, k>> # <<m.to, m.key>> => kv'[n][k] = kv[n][k]
      /\ ok => kv'[m.to][m.key] # Absent
  <2>1. kv \in [Nodes -> [Keys -> Value]]
    BY DEF TInv, TypeOK
  <2>2. CASE Replaces(kv[m.to][m.key], m.record)
    <3>1. kv' = [kv EXCEPT ![m.to][m.key] = m.record]
      BY <2>2 DEF Deliver
    <3> QED
      BY <1>1, <2>1, <3>1
  <2>3. CASE ~ Replaces(kv[m.to][m.key], m.record)
    <3>1. kv' = kv
      BY <2>3 DEF Deliver
    <3>2. ok => kv[m.to][m.key] # Absent
      BY <2>3 DEF Replaces, Ignores
    <3> QED
      BY <3>1, <3>2
  <2> QED
    BY <2>2, <2>3
<1>4. Goes(m.from, m.key, m.to)
  BY DEF PostsKept
<1>5. \A n \in Nodes, k \in Keys : kv'[n][k] # Absent => MayHold(n, k)
  <2>1. MayHold(m.to, m.key)
    BY <1>4 DEF Goes, MayHold
  <2> QED
    BY <1>3, <2>1 DEF NodeKept
<1>6. /\ \A n \in Nodes : worker'[n] = worker[n] \/ (m.awaited /\ n = m.from)
      /\ m.awaited => /\ worker'[m.from].at = "settle" /\ worker'[m.from].key = m.key
                      /\ worker'[m.from].ok => ok
  <2>1. CASE m.awaited
    <3> DEFINE next == [worker[m.from] EXCEPT !.at = "settle", !.ok = ok]
    <3>1. Become(m.from, next)
      BY <2>1 DEF Deliver, Answer
    <3>2. worker[m.from].key = m.key
      BY <2>1 DEF TInv, OnePost
    <3>3. worker[m.from] \in WorkerState
      BY <1>1 DEF TInv, TypeOK
    <3>4. next \in WorkerState /\ next.at = "settle" /\ next.key = m.key /\ next.ok = ok
      BY <3>2, <3>3 DEF WorkerState, Stages
    <3> HIDE DEF next, ok
    <3> QED
      BY <1>1, <2>1, <3>1, <3>4, BecomeTyped DEF TInv
  <2>2. CASE ~ m.awaited
    BY <2>2 DEF Deliver
  <2> QED
    BY <2>1, <2>2
<1> HIDE DEF ok
<1>7. ASSUME NEW n \in Nodes PROVE NodeKept(n)'
  <2>1. ASSUME NEW k \in Keys, Marked(n, k)'
        PROVE  ring = Final /\ (n # NewOwner(k) => kv'[NewOwner(k)][k] # Absent)
    <3>1. CASE Marked(n, k)
      <4>1. NewOwner(k) \in Nodes
        BY Rings12
      <4>2. ring = Final /\ (n # NewOwner(k) => kv[NewOwner(k)][k] # Absent)
        BY <3>1 DEF NodeKept
      <4> QED
        BY <1>3, <4>1, <4>2
    <3>2. CASE ~ Marked(n, k)
      <4>1. m.awaited /\ n = m.from /\ worker'[n].at = "settle" /\ worker'[n].ok /\ k = m.key
        BY <1>2, <1>6, <2>1, <3>2 DEF Marked, tasks
      <4> QED
        BY <1>3, <1>4, <1>6, <4>1 DEF Goes
    <3> QED
      BY <3>1, <3>2
  <2>2. worker'[n] = worker[n] \/ worker'[n].at = "settle"
    BY <1>6
  <2> QED
    BY <1>2, <1>5, <2>1, <2>2 DEF NodeKept, MayHold, Goes, tasks
<1>8. PostsKept' /\ RequestsKept'
  BY <1>2 DEF PostsKept, RequestsKept, Goes, MayHold, clients
<1>9. AckedHeld'
  <2>1. \A k \in Keys : OldOwner(k) \in Nodes /\ NewOwner(k) \in Nodes
    BY Rings12
  <2> QED
    BY <1>2, <1>3, <2>1 DEF AckedHeld, Stored, clients
<1> QED
  BY <1>7, <1>8, <1>9

\* A delete that comes due is not carried out at the new owner, and elsewhere it leaves
\* the new owner's copy.
LEMMA DeletesKeep ==
    ASSUME OneChange, CopyInv, TInv', NEW n \in Nodes, ProcessDueDeletes(n)
    PROVE  CopyInv'
<1> USE DEF CopyInv
<1>1. NodeKept(n)
  OBVIOUS
<1>2. ASSUME NEW state, Become(n, state), state \in WorkerState, UNCHANGED <<ring, view, kv, wire, clients>>,
             UNCHANGED pending,
             \A u \in Nodes \ {n} : delayed'[u] = delayed[u] /\ file'[u] = file[u],
             file'[n].pending = file[n].pending \/ file'[n].pending = pending[n],
             \A k \in Keys : k \in delayed'[n] \/ k \in file'[n].delayed => Marked(n, k),
             state.at \in {"wait", "due", "erase"},
             state.at \in {"due", "erase"} => \A k \in state.todo : Marked(n, k),
             state.at = "due" /\ state.todo # {} => view[n] = Final,
             state.at = "erase" => Marked(n, state.key) /\ view[n] = Final /\ n # NewOwner(state.key)
      PROVE  CopyInv'
  <2>1. worker'[n] = state /\ \A u \in Nodes \ {n} : worker'[u] = worker[u]
    BY <1>2, BecomeTyped DEF TInv
  <2>2. \A k \in Keys : Marked(n, k)' => Marked(n, k)
    BY <1>2, <2>1 DEF Marked
  <2>3. \A k \in Keys : file'[n].pending[k] # NoTask => Goes(n, k, file'[n].pending[k].target)
    BY <1>1, <1>2 DEF NodeKept
  <2>4. NodeKept(n)'
    BY <1>1, <1>2, <2>1, <2>2, <2>3 DEF NodeKept, MayHold, Goes
  <2>5. PostsKept'
    BY <1>2 DEF PostsKept, Goes
  <2> QED
    BY <1>2, <2>1, <2>4, <2>5, NodeGoesOn DEF clients
<1>3. worker[n] \in WorkerState
  BY DEF TInv, TypeOK
<1>4. CASE NoneDue(n)
  <2>1. Become(n, Waiting) /\ UNCHANGED <<ring, view, kv, up, tasks, wire, clients, failures>>
    BY <1>4 DEF NoneDue
  <2>2. \A k \in Keys : k \in delayed[n] \/ k \in file[n].delayed => Marked(n, k)
    BY DEF Marked
  <2> QED
    BY <1>2, <2>1, <2>2, WaitingSound DEF tasks
<1>5. CASE TakeDue(n)
  <2>1. PICK due \in SUBSET delayed[n] \ {{}}, later \in SUBSET delayed[n] :
          /\ later \subseteq due
          /\ delayed' = [delayed EXCEPT ![n] = (@ \ due) \cup later]
          /\ GoTo(n, "due", due)
    BY <1>5 DEF TakeDue
  <2> DEFINE next == [Waiting EXCEPT !.at = "due", !.todo = due]
  <2>2. /\ delayed'[n] \subseteq delayed[n] /\ due \subseteq delayed[n] /\ due \in SUBSET Keys
        /\ \A u \in Nodes \ {n} : delayed'[u] = delayed[u]
    BY <2>1 DEF TInv, TypeOK
  <2>3. next \in WorkerState /\ next.at = "due" /\ next.todo = due
    BY <2>2, WaitingSound DEF Waiting, WorkerState, Stages
  <2>4. UNCHANGED <<ring, view, kv, up, pending, file, wire, clients, failures>> /\ n \in up /\ DelayOver
    BY <1>5 DEF TakeDue, At
  <2>5. Become(n, next)
    BY <2>1 DEF GoTo
  <2> HIDE DEF next
  <2>6. \A k \in Keys : k \in delayed[n] \/ k \in file[n].delayed => Marked(n, k)
    BY DEF Marked
  <2>7. due # {} => view[n] = Final
    <3> SUFFICES ASSUME NEW k \in due PROVE view[n] = Final
      OBVIOUS
    <3>1. ring = Final
      BY <1>1, <2>2, <2>6 DEF NodeKept
    <3> QED
      BY <2>4, <3>1 DEF DelayOver
  <2> QED
    BY <1>2, <2>2, <2>3, <2>4, <2>5, <2>6, <2>7
<1>6. CASE Recheck(n)
  <2>1. PICK k \in worker[n].todo :
          Become(n, [worker[n] EXCEPT !.todo = @ \ {k}, !.key = k,
                                      !.at = IF Local(n, k) THEN "due" ELSE "erase"])
    BY <1>6 DEF Recheck
  <2> DEFINE next == [worker[n] EXCEPT !.todo = @ \ {k}, !.key = k,
                                       !.at = IF Local(n, k) THEN "due" ELSE "erase"]
  <2>2. worker[n].at = "due" /\ UNCHANGED <<ring, view, kv, up, tasks, wire, clients, failures>>
    BY <1>6 DEF Recheck, At
  <2>3. k \in Keys /\ view[n] = Final
    BY <1>1, <2>2, HandTyped DEF NodeKept
  <2>4. /\ next \in WorkerState /\ next.at = IF Local(n, k) THEN "due" ELSE "erase"
        /\ next.key = k /\ next.todo = worker[n].todo \ {k}
    BY <1>3, <2>3 DEF WorkerState, Stages
  <2>5. Become(n, next)
    BY <2>1
  <2> HIDE DEF next
  <2>6. /\ \A j \in Keys : j \in delayed[n] \/ j \in file[n].delayed => Marked(n, j)
        /\ \A j \in worker[n].todo : Marked(n, j)
    BY <2>2 DEF Marked
  <2>7. ~ Local(n, k) => n # NewOwner(k)
    BY <2>3, Rings12 DEF Local
  <2> QED
    BY <1>2, <2>2, <2>3, <2>4, <2>5, <2>6, <2>7 DEF tasks
<1>7. CASE EndDeletes(n)
  <2>1. /\ Become(n, Waiting) /\ Persist(n)
        /\ UNCHANGED <<ring, view, kv, up, pending, delayed, wire, clients>>
    BY <1>7 DEF EndDeletes
  <2>2. /\ \A u \in Nodes \ {n} : file'[u] = file[u]
        /\ file'[n] = file[n] \/ file'[n] = [pending |-> pending[n], delayed |-> delayed[n]]
    <3>1. pending'[n] \in Pending /\ delayed'[n] \in SUBSET Keys
      BY DEF TInv, TypeOK
    <3> QED
      BY <2>1, <3>1, PersistTyped DEF TInv
  <2>3. \A k \in Keys : k \in delayed[n] \/ k \in file'[n].delayed => Marked(n, k)
    BY <2>2 DEF Marked
  <2> QED
    BY <1>2, <2>1, <2>2, <2>3, WaitingSound
<1>8. CASE Erase(n)
  <2> DEFINE next == [worker[n] EXCEPT !.at = "due"]
             key == worker[n].key
  <2>1. /\ worker[n].at = "erase" /\ kv' = [kv EXCEPT ![n][key] = Absent] /\ Become(n, next)
        /\ UNCHANGED <<ring, view, up, tasks, wire, clients, failures>>
    BY <1>8 DEF Erase, At
  <2>2. next \in WorkerState /\ next.at = "due" /\ next.todo = worker[n].todo
    BY <1>3 DEF WorkerState, Stages
  <2> HIDE DEF next
  <2>3. worker'[n] = next /\ \A u \in Nodes \ {n} : worker'[u] = worker[u]
    BY <2>1, <2>2, BecomeTyped DEF TInv
  <2>4. /\ key \in Keys /\ view[n] = Final /\ n # NewOwner(key)
        /\ kv[NewOwner(key)][key] # Absent
    <3>1. key \in Keys /\ Marked(n, key)
      BY <2>1, HandTyped DEF Marked
    <3> QED
      BY <1>1, <2>1, <3>1 DEF NodeKept
  <2>5. /\ \A u \in Nodes \ {n} : kv'[u] = kv[u]
        /\ \A k \in Keys \ {key} : kv'[n][k] = kv[n][k]
        /\ kv'[n][key] = Absent
    BY <2>1, <2>4 DEF TInv, TypeOK
  <2>6. \A k \in Keys : /\ OldOwner(k) \in Nodes /\ NewOwner(k) \in Nodes
                        /\ kv[NewOwner(k)][k] # Absent => kv'[NewOwner(k)][k] # Absent
                        /\ kv[OldOwner(k)][k] # Absent => kv'[OldOwner(k)][k] # Absent \/ k = key
    BY <2>4, <2>5, Rings12
  <2>7. \A u \in Nodes \ {n} : NodeKept(u)'
    BY <2>1, <2>3, <2>5, <2>6, OthersKept DEF tasks
  <2>8. NodeKept(n)'
    <3>1. view'[n] = Final
      BY <2>1, <2>4
    <3>2. \A k \in Keys : kv'[n][k] # Absent => kv[n][k] # Absent
      BY <2>5
    <3>3. ASSUME NEW k \in Keys, Marked(n, k)'
          PROVE  ring = Final /\ (n # NewOwner(k) => kv'[NewOwner(k)][k] # Absent)
      <4>1. k \in delayed[n] \/ k \in file[n].delayed \/ k \in worker[n].todo
        BY <2>1, <2>2, <2>3, <3>3 DEF Marked, tasks
      <4>2. PICK j \in Keys : Marked(n, j)
        BY <2>1, <2>4 DEF Marked
      <4>3. ring = Final
        BY <1>1, <4>2 DEF NodeKept
      <4>4. Marked(n, k)
        BY <2>1, <4>1 DEF Marked
      <4> QED
        BY <1>1, <2>6, <4>3, <4>4 DEF NodeKept
    <3> QED
      BY <1>1, <2>1, <2>2, <2>3, <3>1, <3>2, <3>3 DEF NodeKept, MayHold, Goes, tasks
  <2>9. PostsKept' /\ RequestsKept'
    BY <2>1 DEF PostsKept, RequestsKept, Goes, MayHold, clients
  <2>10. AckedHeld'
    BY <2>1, <2>4, <2>6 DEF AckedHeld, Stored, clients
  <2> QED
    BY <2>7, <2>8, <2>9, <2>10
<1> QED
  BY <1>4, <1>5, <1>6, <1>7, <1>8 DEF ProcessDueDeletes

\* A put is routed to one of the two owners, and stored there.
LEMMA ClientKeeps ==
    ASSUME OneChange, CopyInv, TInv', Client
    PROVE  CopyInv'
<1> USE DEF CopyInv
<1>1. /\ Absent \notin Sent
      /\ \A k \in Keys : OldOwner(k) \in Nodes /\ NewOwner(k) \in Nodes
  BY MigrationAssumption, KvRecordAssumption, Rings12
<1>2. ASSUME NEW n \in Nodes, NEW k \in Keys, NEW r \in Sent, Route(n, k, r)
      PROVE  CopyInv'
  <2>1. /\ requests' = requests \cup {[at |-> n, key |-> k, value |-> r]}
        /\ UNCHANGED <<ring, view, kv, up, tasks, worker, wire, acked, gone, failures>>
        /\ Owner(n, k) = n
    BY <1>2 DEF Route, Local
  <2>2. MayHold(n, k)
    <3>1. /\ Final \in {1, 2} /\ ring \in {1, Final} /\ view[n] \in {1, ring}
          /\ view[n] = 1 => Owner(n, k) = OldOwner(k)
          /\ view[n] = Final => Owner(n, k) = NewOwner(k)
      BY Rings12
    <3> QED
      BY <2>1, <3>1 DEF MayHold
  <2>3. RequestsKept'
    BY <1>1, <2>1, <2>2 DEF RequestsKept, MayHold
  <2>4. \A u \in Nodes : NodeKept(u)'
    BY <2>1 DEF NodeKept, Marked, MayHold, Goes, tasks
  <2>5. PostsKept' /\ AckedHeld'
    BY <2>1 DEF PostsKept, AckedHeld, Goes, Stored
  <2> QED
    BY <2>3, <2>4, <2>5
<1>3. ASSUME NEW q \in requests, Put(q)
      PROVE  CopyInv'
  <2>1. /\ q.value # Absent /\ MayHold(q.at, q.key) /\ q.at \in Nodes /\ q.key \in Keys
        /\ q.at = OldOwner(q.key) \/ q.at = NewOwner(q.key)
    BY DEF RequestsKept, MayHold, TInv, TypeOK, ClientRequest
  <2>2. /\ requests' \subseteq requests
        /\ UNCHANGED <<ring, view, up, tasks, worker, wire, writes, failures>>
    BY <1>3 DEF Put
  <2>3. /\ \A n \in Nodes, k \in Keys :
              /\ kv[n][k] # Absent => kv'[n][k] # Absent
              /\ kv'[n][k] # Absent => kv[n][k] # Absent \/ (n = q.at /\ k = q.key)
        /\ \A k \in Keys : acked'[k] # Absent =>
              acked[k] # Absent \/ (k = q.key /\ kv'[q.at][q.key] # Absent)
    <3>1. CASE Rejects(kv[q.at][q.key], q.value)
      BY <1>3, <3>1 DEF Put
    <3>2. CASE ~ Rejects(kv[q.at][q.key], q.value)
      <4>1. kv \in [Nodes -> [Keys -> Value]] /\ acked \in [Keys -> Value]
        BY DEF TInv, TypeOK
      <4>2. \A k \in Keys : acked'[k] # acked[k] => k = q.key
        BY <1>3, <2>1, <3>2, <4>1 DEF Put
      <4>3. CASE Ignores(kv[q.at][q.key], q.value)
        <5>1. kv' = kv /\ kv[q.at][q.key] # Absent
          BY <1>3, <3>2, <4>3 DEF Put, Ignores
        <5> QED
          BY <4>2, <5>1
      <4>4. CASE ~ Ignores(kv[q.at][q.key], q.value)
        <5>1. kv' = [kv EXCEPT ![q.at][q.key] = q.value]
          BY <1>3, <3>2, <4>4 DEF Put
        <5>2. /\ kv'[q.at][q.key] = q.value
              /\ \A n \in Nodes, k \in Keys : kv'[n][k] = kv[n][k] \/ (n = q.at /\ k = q.key)
          BY <2>1, <4>1, <5>1
        <5> QED
          BY <2>1, <4>2, <5>2
      <4> QED
        BY <4>3, <4>4
    <3> QED
      BY <3>1, <3>2
  <2>4. ASSUME NEW u \in Nodes PROVE NodeKept(u)'
    <3>1. \A k \in Keys : Marked(u, k)' => Marked(u, k)
      BY <2>2 DEF Marked, tasks
    <3>2. \A k \in Keys : kv'[u][k] # Absent => MayHold(u, k)
      BY <2>1, <2>3 DEF NodeKept
    <3>3. \A k \in Keys : Marked(u, k) =>
              ring = Final /\ (u # NewOwner(k) => kv'[NewOwner(k)][k] # Absent)
      BY <1>1, <2>3 DEF NodeKept
    <3> QED
      BY <2>2, <3>1, <3>2, <3>3 DEF NodeKept, MayHold, Goes, tasks
  <2>5. PostsKept' /\ RequestsKept'
    BY <2>2 DEF PostsKept, RequestsKept, Goes, MayHold
  <2>6. AckedHeld'
    <3> SUFFICES ASSUME NEW k \in Keys, acked'[k] # Absent
                 PROVE  kv'[OldOwner(k)][k] # Absent \/ kv'[NewOwner(k)][k] # Absent
      BY DEF AckedHeld, Stored
    <3>1. CASE acked[k] # Absent
      <4>1. kv[OldOwner(k)][k] # Absent \/ kv[NewOwner(k)][k] # Absent
        BY <3>1 DEF AckedHeld, Stored
      <4> QED
        BY <1>1, <2>3, <4>1
    <3>2. CASE k = q.key /\ kv'[q.at][q.key] # Absent
      BY <2>1, <3>2
    <3> QED
      BY <2>3, <3>1, <3>2
  <2> QED
    BY <2>4, <2>5, <2>6
<1>4. \A q \in requests : ~ Delete(q)
  BY DEF RequestsKept, Delete
<1> QED
  BY <1>2, <1>3, <1>4 DEF Client, OneChange

\* At first each copy is with its owner and nothing is marked.
LEMMA InitKept == Init => CopyInv
<1> SUFFICES ASSUME Init PROVE CopyInv
  OBVIOUS
<1>1. TInv
  BY InitTyped
<1>2. \A n \in Nodes, k \in Keys : ~ Marked(n, k)
  BY TasksTyped, WaitingSound DEF Init, Marked
<1>3. \A n \in Nodes, k \in Keys : kv[n][k] = Absent /\ pending[n][k] = NoTask /\ file[n].pending[k] = NoTask
  BY TasksTyped DEF Init, Nothing
<1>4. \A n \in Nodes : NodeKept(n)
  BY <1>2, <1>3, WaitingSound DEF Init, NodeKept
<1>5. PostsKept /\ RequestsKept /\ AckedHeld
  BY DEF Init, PostsKept, RequestsKept, AckedHeld, Stored, Nothing
<1> QED
  BY <1>1, <1>4, <1>5 DEF CopyInv

\* With one change of the ring and puts only, every step keeps a copy.
LEMMA StepKeeps == OneChange /\ CopyInv /\ [Next]_vars => CopyInv'
<1> SUFFICES ASSUME OneChange, CopyInv, [Next]_vars PROVE CopyInv'
  OBVIOUS
<1>1. TInv'
  BY StepTyped DEF CopyInv
<1>2. CASE UNCHANGED vars
  BY <1>1, <1>2 DEF vars, tasks, clients, CopyInv, NodeKept, PostsKept, RequestsKept, AckedHeld,
                    Marked, MayHold, Goes, Stored
<1>3. CASE ChangeRing \/ \E n \in Nodes : Reload(n)
  BY <1>1, <1>3, RingKeeps
<1>4. ASSUME NEW n \in Nodes, \/ Crash(n) \/ EndInPersist(n) \/ Start(n)
                              \/ Scan(n) \/ FailPost(n) \/ ProcessDueDeletes(n)
      PROVE  CopyInv'
  BY <1>1, <1>4, ProcessKeeps, ScanKeeps, TakeKeeps, SettleKeeps, FailPostKeeps, DeletesKeep
  DEF Scan
<1>5. CASE \E m \in wire : Deliver(m)
  BY <1>1, <1>5, DeliverKeeps
<1>6. CASE Client
  BY <1>1, <1>6, ClientKeeps
<1> QED
  BY <1>2, <1>3, <1>4, <1>5, <1>6 DEF Next

\* When the ring changes once and clients only put, a record that a client was told is stored
\* is stored at some node, whatever crashes, is posted twice, late or in vain, and however
\* many writes, nodes and keys there are: the copy a worker deletes is never the last.
THEOREM OneMoveKeepsACopy ==
    ASSUME OneChange
    PROVE  Spec => [](\A k \in Stored(acked) : \E n \in Nodes : kv[n][k] # Absent)
<1>1. Init => CopyInv
  BY InitKept
<1>2. CopyInv /\ [Next]_vars => CopyInv'
  BY StepKeeps
<1>3. CopyInv => \A k \in Stored(acked) : \E n \in Nodes : kv[n][k] # Absent
  <2> SUFFICES ASSUME CopyInv, NEW k \in Stored(acked)
               PROVE  \E n \in Nodes : kv[n][k] # Absent
    OBVIOUS
  <2>1. k \in Keys
    BY DEF Stored
  <2>2. OldOwner(k) \in Nodes /\ NewOwner(k) \in Nodes
    BY <2>1, Rings12 DEF CopyInv
  <2>3. kv[OldOwner(k)][k] # Absent \/ kv[NewOwner(k)][k] # Absent
    BY DEF CopyInv, AckedHeld
  <2> QED
    BY <2>2, <2>3
<1> QED
  BY <1>1, <1>2, <1>3, PTL DEF Spec

-----------------------------------------------------------------------------
(***************************************************************************)
(* The values: whatever is in a store, in a worker's hand, in a task, on   *)
(* the wire or on its way from a client has been sent by a client.         *)
(***************************************************************************)
Written == Sent \cup {Absent}

TasksSent(map) == \A k \in Keys : map[k] # NoTask => map[k].record \in Sent

NodeSent(n) ==
    /\ \A k \in Keys : kv[n][k] \in Written /\ worker[n].page[k] \in Written
    /\ TasksSent(pending[n]) /\ TasksSent(file[n].pending)

WireSent == \A m \in wire : m.record \in Sent

ClientsSent == (\A q \in requests : q.value \in Written) /\ (\A k \in Keys : acked[k] \in Written)

SentInv == TInv /\ (\A n \in Nodes : NodeSent(n)) /\ WireSent /\ ClientsSent

\* A node goes on; the others and the clients do not.
LEMMA NodeGoesOnSent ==
    ASSUME SentInv, TInv', NEW n \in Nodes, acked' = acked, requests' \subseteq requests,
           \A u \in Nodes \ {n} : /\ kv'[u] = kv[u] /\ worker'[u] = worker[u]
                                  /\ pending'[u] = pending[u] /\ file'[u] = file[u],
           NodeSent(n)', WireSent'
    PROVE  SentInv'
BY DEF SentInv, NodeSent, TasksSent, ClientsSent

\* A write changes one value of one store.
LEMMA OneWritten ==
    ASSUME NEW stores \in [Nodes -> [Keys -> Value]], NEW n \in Nodes, NEW k \in Keys, NEW value
    PROVE  \A u \in Nodes, j \in Keys : [stores EXCEPT ![n][k] = value][u][j] \in {stores[u][j], value}
OBVIOUS

\* A worker that starts a list has no page, or that of its store.
LEMMA PagesSent ==
    ASSUME NEW n \in Nodes, NodeSent(n)
    PROVE  /\ \A k \in Keys : Waiting.page[k] \in Written
           /\ TasksSent(NoTasks.pending)
BY TasksTyped DEF Waiting, Nothing, Written, TasksSent

\* A crash or an interrupted save forgets tasks, a start reads back those of the file.
LEMMA ProcessSent ==
    ASSUME SentInv, TInv', NEW n \in Nodes, Crash(n) \/ EndInPersist(n) \/ Start(n)
    PROVE  SentInv'
<1> USE DEF SentInv
<1>1. NodeSent(n) /\ (\A k \in Keys : Waiting.page[k] \in Written) /\ TasksSent(NoTasks.pending)
  BY PagesSent
<1>2. CASE Crash(n) \/ EndInPersist(n)
  <2>1. Vanish(n) /\ UNCHANGED <<ring, view, kv, acked>>
    BY <1>2 DEF Crash, EndInPersist
  <2>2. file' = file \/ file' = [file EXCEPT ![n] = NoTasks]
    BY <1>2 DEF Crash, EndInPersist
  <2>3. /\ pending'[n] = NoTasks.pending /\ worker'[n] = Waiting
        /\ \A u \in Nodes \ {n} : /\ worker'[u] = worker[u] /\ pending'[u] = pending[u]
                                  /\ file'[u] = file[u]
        /\ file'[n] = file[n] \/ file'[n] = NoTasks
    BY <2>1, <2>2, TasksTyped, WaitingSound, BecomeTyped DEF Vanish, TInv, TypeOK
  <2>4. WireSent'
    <3> SUFFICES ASSUME NEW m \in wire' PROVE m.record \in Sent
      BY DEF WireSent
    <3>1. PICK q \in wire : m = IF q.from = n THEN [q EXCEPT !.awaited = FALSE] ELSE q
      BY <2>1 DEF Vanish
    <3>2. q \in Post
      BY DEF TInv, TypeOK
    <3>3. m.record = q.record
      BY <3>1, <3>2 DEF Post
    <3> QED
      BY <3>3 DEF WireSent
  <2>5. requests' \subseteq requests
    BY <2>1 DEF Vanish
  <2>6. NodeSent(n)'
    BY <1>1, <2>1, <2>3 DEF NodeSent, TasksSent
  <2> QED
    BY <2>1, <2>3, <2>4, <2>5, <2>6, NodeGoesOnSent
<1>3. CASE Start(n)
  <2>1. /\ UNCHANGED <<ring, kv, file, worker, wire, clients, failures>>
        /\ pending' = [pending EXCEPT ![n] = file[n].pending]
    BY <1>3 DEF Start
  <2>2. pending'[n] = file[n].pending /\ \A u \in Nodes \ {n} : pending'[u] = pending[u]
    BY <2>1 DEF TInv, TypeOK
  <2>3. NodeSent(n)' /\ WireSent'
    BY <1>1, <2>1, <2>2 DEF NodeSent, TasksSent, WireSent
  <2> QED
    BY <2>1, <2>2, <2>3, NodeGoesOnSent DEF clients
<1> QED
  BY <1>2, <1>3

\* What a rewrite of the task file does to its records.
LEMMA PersistSent ==
    ASSUME TypeOK, NEW n \in Nodes, Persist(n), pending'[n] \in Pending, delayed'[n] \in SUBSET Keys,
           TasksSent(pending'[n]), TasksSent(file[n].pending)
    PROVE  TasksSent(file'[n].pending) /\ \A u \in Nodes \ {n} : file'[u] = file[u]
<1>1. /\ file'[n] = file[n] \/ file'[n] = [pending |-> pending'[n], delayed |-> delayed'[n]]
      /\ \A u \in Nodes \ {n} : file'[u] = file[u]
  BY PersistTyped
<1>2. file'[n].pending = file[n].pending \/ file'[n].pending = pending'[n]
  BY <1>1
<1> QED
  BY <1>1, <1>2

\* A scan copies a page of the store and makes tasks of its records.
LEMMA ScanSent ==
    ASSUME SentInv, TInv', NEW n \in Nodes, Wake(n) \/ ScanNext(n) \/ List(n)
    PROVE  SentInv'
<1> USE DEF SentInv
<1>1. NodeSent(n) /\ (\A k \in Keys : Waiting.page[k] \in Written) /\ worker[n] \in WorkerState
  BY PagesSent DEF TInv, TypeOK
<1>2. ASSUME NEW state, Become(n, state), state \in WorkerState, \A k \in Keys : state.page[k] \in Written,
             UNCHANGED <<kv, wire, clients>>, TasksSent(pending'[n]), TasksSent(file'[n].pending),
             \A u \in Nodes \ {n} : pending'[u] = pending[u] /\ file'[u] = file[u]
      PROVE  SentInv'
  <2>1. worker'[n] = state /\ \A u \in Nodes \ {n} : worker'[u] = worker[u]
    BY <1>2, BecomeTyped DEF TInv
  <2>2. NodeSent(n)'
    BY <1>1, <1>2, <2>1 DEF NodeSent, TasksSent
  <2>3. WireSent'
    BY <1>2 DEF WireSent
  <2> QED
    BY <1>2, <2>1, <2>2, <2>3, NodeGoesOnSent DEF clients
<1>3. CASE Wake(n) \/ List(n)
  <2> DEFINE scans == [Waiting EXCEPT !.at = "scan", !.page = kv[n], !.todo = Stored(kv[n])]
             takes == [Waiting EXCEPT !.at = "take", !.todo = {k \in Keys : pending[n][k] # NoTask}]
  <2>1. /\ scans.page = kv[n] /\ takes.page = Waiting.page
        /\ scans \in WorkerState /\ takes \in WorkerState
    <3>1. kv[n] \in [Keys -> Value] /\ Stored(kv[n]) \in SUBSET Keys
      BY DEF TInv, TypeOK, Stored
    <3>2. Waiting \in WorkerState
      BY WaitingSound
    <3>3. scans.page = kv[n] /\ takes.page = Waiting.page
      BY <3>2 DEF WorkerState
    <3>4. scans \in WorkerState
      BY <3>1, <3>2 DEF WorkerState, Stages
    <3>5. takes \in WorkerState
      <4>1. {k \in Keys : pending[n][k] # NoTask} \in SUBSET Keys
        OBVIOUS
      <4> QED
        BY <3>2, <4>1 DEF WorkerState, Stages
    <3> QED
      BY <3>3, <3>4, <3>5
  <2>2. /\ Become(n, scans) \/ Become(n, takes)
        /\ UNCHANGED <<ring, view, kv, up, tasks, wire, clients, failures>>
    BY <1>3 DEF Wake, List, GoTo
  <2> HIDE DEF scans, takes
  <2> QED
    BY <1>1, <1>2, <2>1, <2>2 DEF tasks, NodeSent, TasksSent
<1>4. CASE ScanNext(n)
  <2>1. PICK k \in First(worker[n].todo) :
          /\ IF Local(n, k) \/ pending[n][k] # NoTask
             THEN UNCHANGED <<tasks, failures>>
             ELSE /\ pending' = [pending EXCEPT ![n][k] =
                        [record |-> worker[n].page[k], target |-> Owner(n, k), attempts |-> 0]]
                  /\ UNCHANGED delayed
                  /\ Persist(n)
          /\ Become(n, [worker[n] EXCEPT !.todo = @ \ {k}])
    BY <1>4 DEF ScanNext
  <2> DEFINE next == [worker[n] EXCEPT !.todo = @ \ {k}]
  <2>2. k \in worker[n].todo /\ k \in Keys /\ worker[n].todo \in SUBSET Keys
    BY <2>1, HandTyped DEF First
  <2>3. next \in WorkerState /\ next.page = worker[n].page /\ Become(n, next)
    BY <1>1, <2>1, <2>2 DEF WorkerState
  <2> HIDE DEF next
  <2>4. /\ TasksSent(pending'[n]) /\ TasksSent(file'[n].pending)
        /\ \A u \in Nodes \ {n} : pending'[u] = pending[u] /\ file'[u] = file[u]
    <3>1. CASE UNCHANGED <<tasks, failures>>
      BY <1>1, <3>1 DEF tasks, NodeSent, TasksSent
    <3>2. CASE /\ pending' = [pending EXCEPT ![n][k] =
                        [record |-> worker[n].page[k], target |-> Owner(n, k), attempts |-> 0]]
               /\ UNCHANGED delayed
               /\ Persist(n)
      <4>1. worker[n].page[k] \in Sent
        <5>1. worker[n].at = "scan"
          BY <1>4 DEF ScanNext, At
        <5>2. worker[n].page[k] # Absent
          BY <2>2, <5>1 DEF TInv, WorkersSound, Sound, Stored
        <5> QED
          BY <1>1, <2>2, <5>2 DEF NodeSent, Written
      <4>2. /\ pending'[n] = [pending[n] EXCEPT ![k] =
                  [record |-> worker[n].page[k], target |-> Owner(n, k), attempts |-> 0]]
            /\ \A u \in Nodes \ {n} : pending'[u] = pending[u]
            /\ pending[n] \in Pending
        BY <3>2 DEF TInv, TypeOK
      <4>3. \A j \in Keys : \/ pending'[n][j] = pending[n][j]
                            \/ pending'[n][j].record = worker[n].page[k]
        BY <2>2, <4>2 DEF Pending
      <4>4. TasksSent(pending'[n])
        BY <1>1, <4>1, <4>3 DEF NodeSent, TasksSent
      <4>5. pending'[n] \in Pending /\ delayed'[n] \in SUBSET Keys
        BY DEF TInv, TypeOK
      <4> QED
        BY <1>1, <3>2, <4>2, <4>4, <4>5, PersistSent DEF TInv, NodeSent
    <3> QED
      BY <2>1, <3>1, <3>2
  <2>5. UNCHANGED <<kv, wire, clients>>
    BY <1>4 DEF ScanNext
  <2> QED
    BY <1>1, <1>2, <2>3, <2>4, <2>5 DEF NodeSent
<1> QED
  BY <1>3, <1>4

\* A worker posts the record of the task it takes.
LEMMA TakeSent ==
    ASSUME SentInv, TInv', NEW n \in Nodes, Take(n)
    PROVE  SentInv'
<1>1. PICK k \in First(worker[n].todo) :
          /\ Become(n, [worker[n] EXCEPT !.at = "post", !.todo = @ \ {k},
                                         !.key = k, !.task = pending[n][k]])
          /\ wire' = wire \cup {[from |-> n, to |-> pending[n][k].target, key |-> k,
                                 record |-> pending[n][k].record, awaited |-> TRUE]}
  BY DEF Take
<1> USE DEF SentInv
<1> DEFINE next == [worker[n] EXCEPT !.at = "post", !.todo = @ \ {k},
                                     !.key = k, !.task = pending[n][k]]
<1>2. worker[n].at = "take" /\ k \in worker[n].todo /\ k \in Keys /\ worker[n] \in WorkerState
  BY <1>1, HandTyped DEF Take, At, First, TInv, TypeOK
<1>3. pending[n][k] # NoTask /\ pending[n] \in Pending /\ worker[n].todo \subseteq Keys
  BY <1>2, HandTyped DEF TInv, TypeOK, WorkersSound, Sound
<1>4. next \in WorkerState /\ next.page = worker[n].page
  BY <1>2, <1>3 DEF WorkerState, Stages, Pending
<1>5. Become(n, next) /\ UNCHANGED <<ring, view, kv, up, tasks, clients, failures>>
  BY <1>1 DEF Take
<1> HIDE DEF next
<1>6. worker'[n] = next /\ \A u \in Nodes \ {n} : worker'[u] = worker[u]
  BY <1>4, <1>5, BecomeTyped DEF TInv
<1>7. NodeSent(n)
  OBVIOUS
<1>8. NodeSent(n)'
  BY <1>4, <1>5, <1>6, <1>7 DEF NodeSent, TasksSent, tasks
<1>9. WireSent'
  BY <1>1, <1>2, <1>3, <1>7 DEF WireSent, NodeSent, TasksSent
<1> QED
  BY <1>5, <1>6, <1>8, <1>9, NodeGoesOnSent DEF tasks, clients

\* Settling marks, retries or drops a task and makes none.
LEMMA SettleSent ==
    ASSUME SentInv, TInv', NEW n \in Nodes, Settle(n)
    PROVE  SentInv'
<1> USE DEF SentInv
<1> DEFINE next == [Waiting EXCEPT !.at = "take", !.todo = worker[n].todo]
<1>1. NodeSent(n) /\ (\A k \in Keys : Waiting.page[k] \in Written) /\ worker[n].todo \subseteq Keys
  BY PagesSent, HandTyped
<1>2. /\ worker[n].key \in Keys /\ Persist(n)
      /\ pending' \in [Nodes -> Pending] /\ delayed' \in [Nodes -> SUBSET Keys]
      /\ \A u \in Nodes \ {n} : pending'[u] = pending[u]
      /\ \A k \in Keys \ {worker[n].key} : pending'[n][k] = pending[n][k]
      /\ pending'[n][worker[n].key] # NoTask =>
             pending'[n][worker[n].key].record = pending[n][worker[n].key].record
      /\ pending[n][worker[n].key] # NoTask
  BY SettleTasks
<1>3. TasksSent(pending'[n])
  BY <1>1, <1>2 DEF NodeSent, TasksSent
<1>4. TasksSent(file'[n].pending) /\ \A u \in Nodes \ {n} : file'[u] = file[u]
  BY <1>1, <1>2, <1>3, PersistSent DEF NodeSent, TInv
<1>5. next \in WorkerState /\ next.page = Waiting.page
  BY <1>1, WaitingSound DEF WorkerState, Stages
<1>6. Become(n, next) /\ UNCHANGED <<ring, view, kv, up, wire, clients>>
  BY DEF Settle, GoTo
<1> HIDE DEF next
<1>7. worker'[n] = next /\ \A u \in Nodes \ {n} : worker'[u] = worker[u]
  BY <1>5, <1>6, BecomeTyped DEF TInv
<1>8. NodeSent(n)' /\ WireSent'
  BY <1>1, <1>3, <1>4, <1>5, <1>6, <1>7 DEF NodeSent, WireSent, TasksSent
<1> QED
  BY <1>2, <1>4, <1>6, <1>7, <1>8, NodeGoesOnSent DEF clients

\* The page of a worker stays when it is answered.
LEMMA AnswerSent ==
    ASSUME SentInv, NEW n \in Nodes, NEW ok \in BOOLEAN, Answer(n, ok)
    PROVE  /\ worker'[n].page = worker[n].page
           /\ \A u \in Nodes \ {n} : worker'[u] = worker[u]
<1> DEFINE next == [worker[n] EXCEPT !.at = "settle", !.ok = ok]
<1>1. worker[n] \in WorkerState
  BY DEF SentInv, TInv, TypeOK
<1>2. next \in WorkerState /\ next.page = worker[n].page
  BY <1>1 DEF WorkerState, Stages
<1>3. Become(n, next)
  BY DEF Answer
<1> HIDE DEF next
<1> QED
  BY <1>2, <1>3, BecomeTyped DEF SentInv, TInv

\* A post that fails is gone, or arrives late as it was.
LEMMA FailPostSent ==
    ASSUME SentInv, TInv', NEW n \in Nodes, FailPost(n)
    PROVE  SentInv'
<1> USE DEF SentInv
<1> DEFINE awaited == {m \in wire : m.from = n /\ m.awaited}
<1>1. Answer(n, FALSE) /\ UNCHANGED <<ring, view, kv, up, tasks, clients>>
  BY DEF FailPost
<1>2. wire' = wire \ awaited \/ wire' = (wire \ awaited) \cup {[m EXCEPT !.awaited = FALSE] : m \in awaited}
  BY DEF FailPost
<1>3. WireSent'
  <2>1. \A m \in awaited : [m EXCEPT !.awaited = FALSE].record = m.record
    BY DEF TInv, TypeOK, Post
  <2>2. \A m \in awaited : m.record \in Sent
    BY DEF WireSent
  <2>3. \A m \in {[q EXCEPT !.awaited = FALSE] : q \in awaited} : m.record \in Sent
    BY <2>1, <2>2
  <2>4. \A m \in wire \ awaited : m.record \in Sent
    BY DEF WireSent
  <2> HIDE DEF awaited
  <2> QED
    BY <1>2, <2>3, <2>4 DEF WireSent
<1> HIDE DEF awaited
<1>4. worker'[n].page = worker[n].page /\ \A u \in Nodes \ {n} : worker'[u] = worker[u]
  BY <1>1, AnswerSent
<1>5. NodeSent(n)
  OBVIOUS
<1>6. NodeSent(n)'
  BY <1>1, <1>4, <1>5 DEF NodeSent, TasksSent, tasks
<1> QED
  BY <1>1, <1>3, <1>4, <1>6, NodeGoesOnSent DEF tasks, clients

\* The target stores the record of the post.
LEMMA DeliverSent ==
    ASSUME SentInv, TInv', NEW m \in wire, Deliver(m)
    PROVE  SentInv'
<1> USE DEF SentInv
<1>1. m \in Post /\ m.record \in Sent /\ m.from \in Nodes /\ m.to \in Nodes /\ m.key \in Keys
  BY DEF TInv, TypeOK, Post, WireSent
<1>2. wire' = wire \ {m} /\ UNCHANGED <<ring, view, up, tasks, clients, failures>>
  BY DEF Deliver
<1>3. \A n \in Nodes, k \in Keys : kv'[n][k] \in {kv[n][k], m.record}
  <2>1. kv' = kv \/ kv' = [kv EXCEPT ![m.to][m.key] = m.record]
    BY DEF Deliver
  <2>2. kv \in [Nodes -> [Keys -> Value]]
    BY DEF TInv, TypeOK
  <2>3. \A n \in Nodes, k \in Keys :
            [kv EXCEPT ![m.to][m.key] = m.record][n][k] \in {kv[n][k], m.record}
    BY <1>1, <2>2, OneWritten
  <2> QED
    BY <2>1, <2>3
<1>4. \A n \in Nodes : worker'[n].page = worker[n].page
  <2> DEFINE ok == ~ Rejects(kv[m.to][m.key], m.record)
  <2>1. Answer(m.from, ok) \/ UNCHANGED worker
    BY DEF Deliver
  <2>2. ok \in BOOLEAN
    OBVIOUS
  <2> HIDE DEF ok
  <2> QED
    BY <1>1, <2>1, <2>2, AnswerSent
<1>5. \A n \in Nodes : NodeSent(n)'
  BY <1>1, <1>2, <1>3, <1>4 DEF NodeSent, TasksSent, Written, tasks
<1> QED
  BY <1>2, <1>5 DEF WireSent, ClientsSent, clients

\* A delayed delete leaves nothing in place of a record.
LEMMA DeletesSent ==
    ASSUME SentInv, TInv', NEW n \in Nodes, ProcessDueDeletes(n)
    PROVE  SentInv'
<1> USE DEF SentInv
<1>1. NodeSent(n) /\ (\A k \in Keys : Waiting.page[k] \in Written) /\ worker[n] \in WorkerState
  BY PagesSent DEF TInv, TypeOK
<1>2. ASSUME NEW state, Become(n, state), state \in WorkerState, state.page \in {Waiting.page, worker[n].page}
      PROVE  /\ \A k \in Keys : worker'[n].page[k] \in Written
             /\ \A u \in Nodes \ {n} : worker'[u] = worker[u]
  BY <1>1, <1>2, BecomeTyped DEF TInv, NodeSent
<1>3. /\ \A k \in Keys : worker'[n].page[k] \in Written
      /\ \A u \in Nodes \ {n} : worker'[u] = worker[u]
  <2>1. CASE NoneDue(n) \/ EndDeletes(n)
    BY <1>2, <2>1, WaitingSound DEF NoneDue, EndDeletes
  <2>2. CASE TakeDue(n)
    <3>1. PICK due \in SUBSET delayed[n] : GoTo(n, "due", due)
      BY <2>2 DEF TakeDue
    <3> DEFINE next == [Waiting EXCEPT !.at = "due", !.todo = due]
    <3>2. next \in WorkerState /\ next.page = Waiting.page
      <4>1. due \in SUBSET Keys
        BY <3>1 DEF TInv, TypeOK
      <4> QED
        BY <4>1, WaitingSound DEF WorkerState, Stages
    <3>3. Become(n, next)
      BY <3>1 DEF GoTo
    <3> HIDE DEF next
    <3> QED
      BY <1>2, <3>2, <3>3
  <2>3. CASE Recheck(n)
    <3>1. PICK k \in worker[n].todo :
            Become(n, [worker[n] EXCEPT !.todo = @ \ {k}, !.key = k,
                                        !.at = IF Local(n, k) THEN "due" ELSE "erase"])
      BY <2>3 DEF Recheck
    <3> DEFINE next == [worker[n] EXCEPT !.todo = @ \ {k}, !.key = k,
                                         !.at = IF Local(n, k) THEN "due" ELSE "erase"]
    <3>2. next \in WorkerState /\ next.page = worker[n].page
      BY <1>1 DEF WorkerState, Stages
    <3>3. Become(n, next)
      BY <3>1
    <3> HIDE DEF next
    <3> QED
      BY <1>2, <3>2, <3>3
  <2>4. CASE Erase(n)
    <3> DEFINE next == [worker[n] EXCEPT !.at = "due"]
    <3>1. next \in WorkerState /\ next.page = worker[n].page
      BY <1>1 DEF WorkerState, Stages
    <3>2. Become(n, next)
      BY <2>4 DEF Erase
    <3> HIDE DEF next
    <3> QED
      BY <1>2, <3>1, <3>2
  <2> QED
    BY <2>1, <2>2, <2>3, <2>4 DEF ProcessDueDeletes
<1>4. pending' = pending /\ UNCHANGED <<wire, clients>>
  <2>1. NoneDue(n) \/ TakeDue(n) \/ Recheck(n) \/ Erase(n) \/ EndDeletes(n)
    BY DEF ProcessDueDeletes
  <2>2. CASE Erase(n)
    BY <2>2 DEF Erase, tasks
  <2>3. CASE Recheck(n)
    BY <2>3 DEF Recheck, tasks
  <2> QED
    BY <2>1, <2>2, <2>3 DEF NoneDue, TakeDue, EndDeletes, tasks
<1>5. TasksSent(file'[n].pending) /\ \A u \in Nodes \ {n} : file'[u] = file[u]
  <2>1. file' = file \/ (Persist(n) /\ UNCHANGED <<pending, delayed>>)
    BY DEF ProcessDueDeletes, NoneDue, TakeDue, Recheck, Erase, EndDeletes, tasks
  <2>2. pending'[n] \in Pending /\ delayed'[n] \in SUBSET Keys /\ TasksSent(pending'[n])
    BY <1>1, <1>4 DEF TInv, TypeOK, NodeSent
  <2> QED
    BY <1>1, <2>1, <2>2, PersistSent DEF TInv, NodeSent
<1>6. /\ \A k \in Keys : kv'[n][k] \in {kv[n][k], Absent}
      /\ \A u \in Nodes \ {n} : kv'[u] = kv[u]
  <2>1. kv' = kv \/ kv' = [kv EXCEPT ![n][worker[n].key] = Absent]
    BY DEF ProcessDueDeletes, NoneDue, TakeDue, Recheck, Erase, EndDeletes
  <2> QED
    BY <2>1, HandTyped DEF TInv, TypeOK
<1>7. NodeSent(n)' /\ WireSent'
  BY <1>1, <1>3, <1>4, <1>5, <1>6 DEF NodeSent, WireSent, Written
<1> QED
  BY <1>3, <1>4, <1>5, <1>6, <1>7, NodeGoesOnSent DEF clients

\* What a request writes and what is acknowledged are what its client sent.
LEMMA ClientSent ==
    ASSUME SentInv, TInv', Client
    PROVE  SentInv'
<1> USE DEF SentInv
<1>1. ASSUME NEW n \in Nodes, NEW k \in Keys, NEW value \in Written, Route(n, k, value)
      PROVE  SentInv'
  <2>1. /\ requests' = requests \cup {[at |-> n, key |-> k, value |-> value]}
        /\ UNCHANGED <<ring, view, kv, up, tasks, worker, wire, acked, gone, failures>>
    BY <1>1 DEF Route
  <2> QED
    BY <2>1 DEF NodeSent, TasksSent, WireSent, ClientsSent, tasks
<1>2. ASSUME NEW q \in requests, Put(q) \/ Delete(q)
      PROVE  SentInv'
  <2>1. q.at \in Nodes /\ q.key \in Keys /\ q.value \in Written
    BY DEF TInv, TypeOK, ClientRequest, ClientsSent
  <2>2. /\ requests' \subseteq requests
        /\ UNCHANGED <<ring, view, up, tasks, worker, wire, writes, failures>>
    BY <1>2 DEF Put, Delete
  <2>3. \A n \in Nodes, k \in Keys : kv'[n][k] \in {kv[n][k], q.value}
    <3>1. kv' = kv \/ kv' = [kv EXCEPT ![q.at][q.key] = q.value]
      BY <1>2 DEF Put, Delete
    <3>2. kv \in [Nodes -> [Keys -> Value]]
      BY DEF TInv, TypeOK
    <3>3. \A n \in Nodes, k \in Keys :
              [kv EXCEPT ![q.at][q.key] = q.value][n][k] \in {kv[n][k], q.value}
      BY <2>1, <3>2, OneWritten
    <3> QED
      BY <3>1, <3>3
  <2>4. \A k \in Keys : acked'[k] \in {acked[k], q.value}
    <3>1. acked' = acked \/ \E value \in {acked[q.key], q.value} :
              acked' = [acked EXCEPT ![q.key] = value]
      BY <1>2 DEF Put, Delete
    <3> QED
      BY <2>1, <3>1 DEF TInv, TypeOK
  <2>5. \A n \in Nodes : NodeSent(n)'
    BY <2>1, <2>2, <2>3 DEF NodeSent, TasksSent, tasks
  <2> QED
    BY <2>1, <2>2, <2>4, <2>5 DEF WireSent, ClientsSent
<1> QED
  BY <1>1, <1>2 DEF Client, Written

\* At first nothing is stored.
LEMMA InitSent == Init => SentInv
<1> SUFFICES ASSUME Init PROVE SentInv
  OBVIOUS
<1>1. TInv
  BY InitTyped
<1>2. \A n \in Nodes : NodeSent(n)
  <2>1. (\A k \in Keys : Waiting.page[k] = Absent) /\ TasksSent(NoTasks.pending)
    BY TasksTyped DEF Waiting, Nothing, TasksSent
  <2> QED
    BY <2>1 DEF Init, NodeSent, Nothing, Written
<1> QED
  BY <1>1, <1>2 DEF SentInv, Init, WireSent, ClientsSent, Nothing, Written

\* The values are inductive, for every operation and fault.
LEMMA StepSent == SentInv /\ [Next]_vars => SentInv'
<1> SUFFICES ASSUME SentInv, [Next]_vars PROVE SentInv'
  OBVIOUS
<1>1. TInv'
  BY StepTyped DEF SentInv
<1>2. CASE UNCHANGED <<kv, tasks, worker, wire, clients>>
  BY <1>1, <1>2 DEF tasks, clients, SentInv, NodeSent, TasksSent, WireSent, ClientsSent
<1>3. CASE UNCHANGED vars \/ ChangeRing \/ \E n \in Nodes : Reload(n)
  BY <1>2, <1>3 DEF ChangeRing, Reload, vars
<1>4. ASSUME NEW n \in Nodes, \/ Crash(n) \/ EndInPersist(n) \/ Start(n)
                              \/ Scan(n) \/ FailPost(n) \/ ProcessDueDeletes(n)
      PROVE  SentInv'
  BY <1>1, <1>4, ProcessSent, ScanSent, TakeSent, SettleSent, FailPostSent, DeletesSent DEF Scan
<1>5. CASE \E m \in wire : Deliver(m)
  BY <1>1, <1>5, DeliverSent
<1>6. CASE Client
  BY <1>1, <1>6, ClientSent
<1> QED
  BY <1>3, <1>4, <1>5, <1>6 DEF Next

\* Migration invents nothing: whatever is deleted, lost, repeated or late, and however often
\* the ring changes, what a node stores under a key, its task file included, is a record
\* that a client has sent.
THEOREM OnlySentIsStored ==
    Spec => [](\A n \in Nodes, k \in Keys : kv[n][k] # Absent => kv[n][k] \in Sent)
<1>1. Init => SentInv
  BY InitSent
<1>2. SentInv /\ [Next]_vars => SentInv'
  BY StepSent
<1>3. SentInv => \A n \in Nodes, k \in Keys : kv[n][k] # Absent => kv[n][k] \in Sent
  BY DEF SentInv, NodeSent, Written
<1> QED
  BY <1>1, <1>2, <1>3, PTL DEF Spec

\* NewestIsKept when the ring changes once, clients only put and all they put is of one
\* version, so that the copy that is left is as new as the one a client was told of.
THEOREM OneMoveKeepsNewest ==
    ASSUME OneChange, \A r, s \in Sent : r.version = s.version
    PROVE  Spec => []NewestIsKept
<1>1. Init => CopyInv /\ SentInv
  BY InitKept, InitSent
<1>2. CopyInv /\ SentInv /\ [Next]_vars => CopyInv' /\ SentInv'
  BY StepKeeps, StepSent
<1>3. CopyInv /\ SentInv => NewestIsKept
  <2> SUFFICES ASSUME CopyInv, SentInv, NEW k \in Stored(acked)
               PROVE  \E n \in Nodes : kv[n][k] # Absent /\ acked[k].version <= kv[n][k].version
    BY DEF NewestIsKept
  <2>1. k \in Keys /\ acked[k] # Absent
    BY DEF Stored
  <2>2. PICK n \in Nodes : kv[n][k] # Absent
    <3>1. OldOwner(k) \in Nodes /\ NewOwner(k) \in Nodes
      BY <2>1, Rings12 DEF CopyInv
    <3> QED
      BY <3>1 DEF CopyInv, AckedHeld
  <2>3. kv[n][k] \in Sent /\ acked[k] \in Sent
    BY <2>1, <2>2 DEF SentInv, NodeSent, ClientsSent, Written
  <2>4. acked[k].version = kv[n][k].version
    BY <2>3
  <2>5. acked[k].version \in Nat
    <3>1. acked[k] \in Record
      BY <2>3, MigrationAssumption
    <3> QED
      BY <3>1, KvRecordAssumption DEF Record
  <2> QED
    BY <2>2, <2>4, <2>5
<1> QED
  BY <1>1, <1>2, <1>3, PTL DEF Spec
===============================================================================
