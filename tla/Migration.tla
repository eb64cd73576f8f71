------------------------------ MODULE Migration ------------------------------
(***************************************************************************)
(* Several gateway nodes between which records move when the owner of a    *)
(* key changes (src/gateway/data_migration.cpp).  A node's worker scans    *)
(* the node's store, posts each record whose owner is another node to that *)
(* owner, and deletes its own copy after a delay, if it still is not the   *)
(* owner.  Each node learns of a change of the ring at its own time.  The  *)
(* owner admits a posted record by the versions of KvRecord and does not   *)
(* ask whether it owns it.  A step is what happens under one lock, of the  *)
(* manager or of the store, or the end of one exchange on the network.     *)
(***************************************************************************)
EXTENDS KvRecord, Sequences

CONSTANTS
    Nodes,
    Rings,       \* the rings the cluster goes through: each maps a key to its owner
    Sent,        \* the records clients send
    MaxRetries,  \* cluster.migration_max_retries
    Operations,  \* what clients do in this instance
    Faults,      \* what may fail: "crash", a node; "cut", a node while it rewrites its
                 \* task file; "open", that rewriting; "network", a post
    MaxWrites,   \* bound on the operations clients begin
    MaxFailures  \* bound on the failures

ASSUME MigrationAssumption ==
    /\ Rings \in Seq([Keys -> Nodes]) /\ Rings # <<>>
    /\ Sent \subseteq {r \in Record : r.version # 0 /\ r.mutation_id # NoMutation}
    /\ MaxRetries \in Nat \ {0}
    /\ Operations \subseteq {"put", "delete"}
    /\ Faults \subseteq {"crash", "cut", "open", "network"}
    /\ MaxWrites \in Nat /\ MaxFailures \in Nat

VARIABLES
    ring,      \* the ring the cluster is at
    view,      \* the ring each node routes by
    kv,        \* the stores, which survive a crash
    up,        \* the nodes that run
    pending,   \* pending_: the records to be posted
    delayed,   \* delayed_delete_: the keys with a delete, or several, to come
    file,      \* the task file of each node
    worker,    \* where each worker is, and its local variables
    wire,      \* posts that have not reached their target
    requests,  \* client operations that have been routed
    acked,     \* the newest record clients were told is stored under each key
    gone,      \* nodes and keys: a client was told that the node deleted its record
    writes,    \* operations begun
    failures   \* failures so far

tasks == <<pending, delayed, file>>
clients == <<requests, acked, gone, writes>>
vars == <<ring, view, kv, up, tasks, worker, wire, clients, failures>>

NoTask == [record |-> Absent]

Task == [record : Record, target : Nodes, attempts : 0..(MaxRetries - 1)]

Pending == [Keys -> Task \cup {NoTask}]

NoTasks == [pending |-> [k \in Keys |-> NoTask], delayed |-> {}]

Stages == {"wait", "scan", "list", "take", "post", "settle", "due", "erase"}

\* The keys still to be visited in the stage, the records of the page or the task in
\* hand, and the answer to the post.
WorkerState == [at : Stages, todo : SUBSET Keys, page : [Keys -> Value],
                key : Keys, task : Task \cup {NoTask}, ok : BOOLEAN]

Waiting == [at |-> "wait", todo |-> {}, page |-> Nothing, key |-> 1,
            task |-> NoTask, ok |-> FALSE]

\* A post whose sender no longer waits for the answer has no one.
Post == [from : Nodes, to : Nodes, key : Keys, record : Record, awaited : BOOLEAN]

\* A value of Absent stands for a delete.
ClientRequest == [at : Nodes, key : Keys, value : Value]

TypeOK ==
    /\ ring \in 1..Len(Rings)
    /\ view \in [Nodes -> 1..ring]
    /\ kv \in [Nodes -> [Keys -> Value]]
    /\ up \subseteq Nodes
    /\ pending \in [Nodes -> Pending]
    /\ delayed \in [Nodes -> SUBSET Keys]
    /\ file \in [Nodes -> [pending : Pending, delayed : SUBSET Keys]]
    /\ worker \in [Nodes -> WorkerState]
    /\ \A n \in Nodes : worker[n].at \in {"post", "settle"} => worker[n].task # NoTask
    /\ wire \subseteq Post
    /\ requests \subseteq ClientRequest
    /\ acked \in [Keys -> Value]
    /\ gone \subseteq Nodes \X Keys
    /\ writes \in 0..MaxWrites
    /\ failures \in 0..MaxFailures

Owner(n, k) == Rings[view[n]][k]

Local(n, k) == Owner(n, k) = n

At(n, stage) == n \in up /\ worker[n].at = stage

Become(n, state) == worker' = [worker EXCEPT ![n] = state]

GoTo(n, stage, todo) == Become(n, [Waiting EXCEPT !.at = stage, !.todo = todo])

-----------------------------------------------------------------------------
(***************************************************************************)
(* The cluster: nodes come and go, and each reloads the ring in its time.  *)
(***************************************************************************)
ChangeRing ==
    /\ ring < Len(Rings)
    /\ ring' = ring + 1
    /\ UNCHANGED <<view, kv, up, tasks, worker, wire, clients, failures>>

Reload(n) ==
    /\ n \in up
    /\ view[n] < ring
    /\ view' = [view EXCEPT ![n] = ring]
    /\ UNCHANGED <<ring, kv, up, tasks, worker, wire, clients, failures>>

\* What the end of a process leaves behind: its posts may still arrive, those to it do
\* not, and requests in it are not answered.
Vanish(n) ==
    /\ up' = up \ {n}
    /\ pending' = [pending EXCEPT ![n] = NoTasks.pending]
    /\ delayed' = [delayed EXCEPT ![n] = NoTasks.delayed]
    /\ Become(n, Waiting)
    /\ wire' = {IF m.from = n THEN [m EXCEPT !.awaited = FALSE] ELSE m :
                   m \in {p \in wire : p.to # n}}
    /\ requests' = {q \in requests : q.at # n}
    /\ failures' = failures + 1

\* Crash, and Stop as well, which waits for the worker: the store and the task file are
\* all that is kept in either case.
Crash(n) ==
    /\ "crash" \in Faults /\ failures < MaxFailures
    /\ n \in up
    /\ Vanish(n)
    /\ UNCHANGED <<ring, view, kv, file, acked, gone, writes>>

\* Start reads the ring again, and the tasks.
Start(n) ==
    /\ n \notin up
    /\ up' = up \cup {n}
    /\ view' = [view EXCEPT ![n] = ring]
    /\ pending' = [pending EXCEPT ![n] = file[n].pending]
    /\ delayed' = [delayed EXCEPT ![n] = file[n].delayed]
    /\ UNCHANGED <<ring, kv, file, worker, wire, clients, failures>>

-----------------------------------------------------------------------------
(***************************************************************************)
(* PersistTasksLocked truncates the file and writes it over.  When it      *)
(* cannot be opened the old one stays and the worker goes on; a cut one    *)
(* does not parse, and the next Start begins without tasks.                *)
(***************************************************************************)
Persist(n) ==
    \/ /\ file' = [file EXCEPT ![n] = [pending |-> pending'[n], delayed |-> delayed'[n]]]
       /\ UNCHANGED failures
    \/ /\ "open" \in Faults /\ failures < MaxFailures
       /\ failures' = failures + 1
       /\ UNCHANGED file

\* The worker is about to persist.
AboutToPersist(n) ==
    \/ /\ At(n, "scan")
       /\ \E k \in First(worker[n].todo) : ~ Local(n, k) /\ pending[n][k] = NoTask
    \/ At(n, "settle")
    \/ At(n, "due") /\ worker[n].todo = {}

EndInPersist(n) ==
    /\ "cut" \in Faults /\ failures < MaxFailures
    /\ AboutToPersist(n)
    /\ file' = [file EXCEPT ![n] = NoTasks]
    /\ Vanish(n)
    /\ UNCHANGED <<ring, view, kv, acked, gone, writes>>

-----------------------------------------------------------------------------
(***************************************************************************)
(* ScanOnce, which the worker runs every second at least.                  *)
(***************************************************************************)
Wake(n) ==
    /\ At(n, "wait")
    /\ Become(n, [Waiting EXCEPT !.at = "scan", !.page = kv[n], !.todo = Stored(kv[n])])
    /\ UNCHANGED <<ring, view, kv, up, tasks, wire, clients, failures>>

\* A record of the page whose owner is remote becomes a task, unless its key has one.
ScanNext(n) ==
    /\ At(n, "scan")
    /\ \E k \in First(worker[n].todo) :
          /\ IF Local(n, k) \/ pending[n][k] # NoTask
             THEN UNCHANGED <<tasks, failures>>
             ELSE /\ pending' = [pending EXCEPT ![n][k] =
                        [record |-> worker[n].page[k], target |-> Owner(n, k), attempts |-> 0]]
                  /\ UNCHANGED delayed
                  /\ Persist(n)
          /\ Become(n, [worker[n] EXCEPT !.todo = @ \ {k}])
    /\ UNCHANGED <<ring, view, kv, up, wire, clients>>

\* Mutant: a task that failed once is left alone.
ListFresh(n) ==
    /\ At(n, "scan")
    /\ worker[n].todo = {}
    /\ GoTo(n, "take", {k \in Keys : pending[n][k] # NoTask /\ pending[n][k].attempts = 0})
    /\ UNCHANGED <<ring, view, kv, up, tasks, wire, clients, failures>>

\* The keys of the tasks are listed; nothing but the worker changes them.
List(n) ==
    /\ At(n, "scan")
    /\ worker[n].todo = {}
    /\ GoTo(n, "take", {k \in Keys : pending[n][k] # NoTask})
    /\ UNCHANGED <<ring, view, kv, up, tasks, wire, clients, failures>>

\* The next task is copied and posted.
Take(n) ==
    /\ At(n, "take")
    /\ \E k \in First(worker[n].todo) :
          LET task == pending[n][k] IN
          /\ Become(n, [worker[n] EXCEPT !.at = "post", !.todo = @ \ {k},
                                         !.key = k, !.task = task])
          /\ wire' = wire \cup {[from |-> n, to |-> task.target, key |-> k,
                                 record |-> task.record, awaited |-> TRUE]}
    /\ UNCHANGED <<ring, view, kv, up, tasks, clients, failures>>

Answer(n, ok) == Become(n, [worker[n] EXCEPT !.at = "settle", !.ok = ok])

\* ApplyMigratedRecord at the target, and its answer, if it is awaited.
Deliver(m) ==
    /\ m \in wire
    /\ m.to \in up
    /\ wire' = wire \ {m}
    /\ kv' = IF Replaces(kv[m.to][m.key], m.record)
             THEN [kv EXCEPT ![m.to][m.key] = m.record] ELSE kv
    /\ IF m.awaited THEN Answer(m.from, ~ Rejects(kv[m.to][m.key], m.record))
                    ELSE UNCHANGED worker
    /\ UNCHANGED <<ring, view, up, tasks, clients, failures>>

\* There is no one to answer, or the network fails and the post is lost or arrives late.
FailPost(n) ==
    /\ At(n, "post")
    /\ LET awaited == {m \in wire : m.from = n /\ m.awaited} IN
       \/ /\ awaited = {} \/ worker[n].task.target \notin up
          /\ wire' = wire \ awaited
          /\ UNCHANGED failures
       \/ /\ "network" \in Faults /\ failures < MaxFailures
          /\ failures' = failures + 1
          /\ \/ wire' = wire \ awaited
             \/ wire' = (wire \ awaited) \cup {[m EXCEPT !.awaited = FALSE] : m \in awaited}
    /\ Answer(n, FALSE)
    /\ UNCHANGED <<ring, view, kv, up, tasks, clients>>

\* Mutant: one attempt too many.
SettleOneMore(n) ==
    /\ At(n, "settle")
    /\ LET k == worker[n].key
           attempts == pending[n][k].attempts + 1
       IN IF worker[n].ok
          THEN /\ delayed' = [delayed EXCEPT ![n] = @ \cup {k}]
               /\ pending' = [pending EXCEPT ![n][k] = NoTask]
          ELSE /\ pending' = [pending EXCEPT ![n][k] =
                     IF attempts > MaxRetries THEN NoTask ELSE [@ EXCEPT !.attempts = attempts]]
               /\ UNCHANGED delayed
    /\ Persist(n)
    /\ GoTo(n, "take", worker[n].todo)
    /\ UNCHANGED <<ring, view, kv, up, wire, clients>>

\* Mutant: a task is done once the post has been made, whatever the answer.
SettleUnanswered(n) ==
    /\ At(n, "settle")
    /\ LET k == worker[n].key IN
       /\ delayed' = [delayed EXCEPT ![n] = @ \cup {k}]
       /\ pending' = [pending EXCEPT ![n][k] = NoTask]
    /\ Persist(n)
    /\ GoTo(n, "take", worker[n].todo)
    /\ UNCHANGED <<ring, view, kv, up, wire, clients>>

\* A task that was answered awaits its delete; one that was not is tried again later,
\* MaxRetries times.
Settle(n) ==
    /\ At(n, "settle")
    /\ LET k == worker[n].key
           attempts == pending[n][k].attempts + 1
       IN IF worker[n].ok
          THEN /\ delayed' = [delayed EXCEPT ![n] = @ \cup {k}]
               /\ pending' = [pending EXCEPT ![n][k] = NoTask]
          ELSE /\ pending' = [pending EXCEPT ![n][k] =
                     IF attempts >= MaxRetries THEN NoTask ELSE [@ EXCEPT !.attempts = attempts]]
               /\ UNCHANGED delayed
    /\ Persist(n)
    /\ GoTo(n, "take", worker[n].todo)
    /\ UNCHANGED <<ring, view, kv, up, wire, clients>>

-----------------------------------------------------------------------------
\* The delay of a delete outlasts the routing of a request and the reload of a ring:
\* five minutes, unless cluster.migration_delete_delay_ms says otherwise.
DelayOver == requests = {} /\ \A n \in up : view[n] = ring

NoneDue(n) ==
    /\ At(n, "take")
    /\ worker[n].todo = {}
    /\ Become(n, Waiting)
    /\ UNCHANGED <<ring, view, kv, up, tasks, wire, clients, failures>>

\* The deletes that are due leave the list; later ones of the same keys stay on it.
TakeDue(n) ==
    /\ At(n, "take")
    /\ worker[n].todo = {}
    /\ DelayOver
    /\ \E due \in SUBSET delayed[n] \ {{}}, later \in SUBSET delayed[n] :
          /\ later \subseteq due
          /\ delayed' = [delayed EXCEPT ![n] = (@ \ due) \cup later]
          /\ GoTo(n, "due", due)
    /\ UNCHANGED <<ring, view, kv, up, pending, file, wire, clients, failures>>

\* DeleteLocalIfStillRemote asks for the owner.
Recheck(n) ==
    /\ At(n, "due")
    /\ \E k \in worker[n].todo :
          Become(n, [worker[n] EXCEPT !.todo = @ \ {k}, !.key = k,
                                      !.at = IF Local(n, k) THEN "due" ELSE "erase"])
    /\ UNCHANGED <<ring, view, kv, up, tasks, wire, clients, failures>>

\* ... and deletes whatever is stored under the key by now.
Erase(n) ==
    /\ At(n, "erase")
    /\ kv' = [kv EXCEPT ![n][worker[n].key] = Absent]
    /\ Become(n, [worker[n] EXCEPT !.at = "due"])
    /\ UNCHANGED <<ring, view, up, tasks, wire, clients, failures>>

EndDeletes(n) ==
    /\ At(n, "due")
    /\ worker[n].todo = {}
    /\ UNCHANGED <<pending, delayed>>
    /\ Persist(n)
    /\ Become(n, Waiting)
    /\ UNCHANGED <<ring, view, kv, up, wire, clients>>

-----------------------------------------------------------------------------
(***************************************************************************)
(* Clients' operations at a node: it routes, and then writes or deletes.   *)
(***************************************************************************)
Route(n, k, value) ==
    /\ n \in up
    /\ writes < MaxWrites
    /\ Local(n, k)
    /\ requests' = requests \cup {[at |-> n, key |-> k, value |-> value]}
    /\ writes' = writes + 1
    /\ UNCHANGED <<ring, view, kv, up, tasks, worker, wire, acked, gone, failures>>

Put(q) ==
    /\ q.value # Absent
    /\ requests' = requests \ {q}
    /\ LET stored == kv[q.at][q.key] IN
       IF Rejects(stored, q.value)
       THEN UNCHANGED <<kv, acked, gone>>
       ELSE /\ kv' = IF Ignores(stored, q.value) THEN kv
                     ELSE [kv EXCEPT ![q.at][q.key] = q.value]
            /\ acked' = [acked EXCEPT ![q.key] =
                  IF @ # Absent /\ IsStale(@, q.value) THEN @ ELSE q.value]
            /\ gone' = {g \in gone : g[2] # q.key}
    /\ UNCHANGED <<ring, view, up, tasks, worker, wire, writes, failures>>

Delete(q) ==
    /\ q.value = Absent
    /\ requests' = requests \ {q}
    /\ kv' = [kv EXCEPT ![q.at][q.key] = Absent]
    /\ acked' = [acked EXCEPT ![q.key] = Absent]
    /\ gone' = IF kv[q.at][q.key] = Absent THEN gone ELSE gone \cup {<<q.at, q.key>>}
    /\ UNCHANGED <<ring, view, up, tasks, worker, wire, writes, failures>>

-----------------------------------------------------------------------------
Init ==
    /\ ring = 1
    /\ view = [n \in Nodes |-> 1]
    /\ kv = [n \in Nodes |-> Nothing]
    /\ up = Nodes
    /\ pending = [n \in Nodes |-> NoTasks.pending]
    /\ delayed = [n \in Nodes |-> NoTasks.delayed]
    /\ file = [n \in Nodes |-> NoTasks]
    /\ worker = [n \in Nodes |-> Waiting]
    /\ wire = {}
    /\ requests = {}
    /\ acked = Nothing
    /\ gone = {}
    /\ writes = 0
    /\ failures = 0

Scan(n) == Wake(n) \/ ScanNext(n) \/ List(n) \/ Take(n) \/ Settle(n)

ProcessDueDeletes(n) == NoneDue(n) \/ TakeDue(n) \/ Recheck(n) \/ Erase(n) \/ EndDeletes(n)

Client ==
    \/ \E n \in Nodes, k \in Keys :
          \/ "put" \in Operations /\ \E r \in Sent : Route(n, k, r)
          \/ "delete" \in Operations /\ Route(n, k, Absent)
    \/ \E q \in requests : Put(q) \/ Delete(q)

Next ==
    \/ ChangeRing
    \/ \E n \in Nodes :
          \/ Reload(n) \/ Crash(n) \/ EndInPersist(n) \/ Start(n)
          \/ Scan(n) \/ FailPost(n) \/ ProcessDueDeletes(n)
    \/ \E m \in wire : Deliver(m)
    \/ Client

Spec == Init /\ [][Next]_vars

DeliverAwaited(n) == \E m \in wire : m.from = n /\ m.awaited /\ Deliver(m)

\* Workers poll, nodes are started again and reload the ring, requests are served, posts
\* arrive or fail, and a delay that goes on being over is seen over.
FairSpec ==
    /\ Spec
    /\ \A n \in Nodes :
          /\ WF_vars(Reload(n)) /\ WF_vars(Start(n))
          /\ WF_vars(Scan(n) \/ ProcessDueDeletes(n)) /\ WF_vars(FailPost(n))
          /\ WF_vars(DeliverAwaited(n)) /\ SF_vars(TakeDue(n))
    /\ WF_vars(\E q \in requests : Put(q) \/ Delete(q))

-----------------------------------------------------------------------------
\* What clients were told is stored is stored at some node, in that version or a newer
\* one: the copy a worker deletes is never the last, whichever ring each node is at,
\* whatever was posted twice, late or in vain, and whichever node crashed meanwhile.
NewestIsKept ==
    \A k \in Stored(acked) : \E n \in Nodes :
        kv[n][k] # Absent /\ acked[k].version <= kv[n][k].version

\* A record ends up at its owner and nowhere else, however often nodes crash, lose their
\* tasks, fail to save them or cannot reach each other meanwhile.
OnlyAtOwner ==
    <>[](\A k \in Keys :
            /\ acked[k] # Absent => kv[Rings[ring][k]][k] # Absent
            /\ \A n \in Nodes \ {Rings[ring][k]} : kv[n][k] = Absent)

\* A record that its owner has deleted for a client is not at the owner again before a
\* client writes it.
DeletedStaysDeleted ==
    \A k \in Keys : <<Rings[ring][k], k>> \in gone => kv[Rings[ring][k]][k] = Absent
=============================================================================
