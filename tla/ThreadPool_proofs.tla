--------------------------- MODULE ThreadPool_proofs ---------------------------
(***************************************************************************)
(* What TLAPS proves of ThreadPool, for every number of tasks and threads  *)
(* and every capacity: no task is lost or run twice, a shutdown that       *)
(* returns has run them all, and no wakeup is lost.                        *)
(***************************************************************************)
EXTENDS ThreadPool, FiniteSetTheorems, TLAPS

\* A thread leaves only a pool that stops and whose queue is empty.
GoneOnlyWhenEmpty ==
    /\ \A w \in Workers : worker[w] = Gone => stage # "open" /\ queue = <<>>
    /\ stage = "joined" => \A w \in Workers : worker[w] = Gone

\* The inductive invariant: where each task is, and why nobody leaves too early.
PoolInv == PoolTypeOK /\ EachTaskIsSomewhere /\ GoneOnlyWhenEmpty

-----------------------------------------------------------------------------
(***************************************************************************)
(* The queue.                                                              *)
(***************************************************************************)
\* What a task appended to the queue adds to its elements.
LEMMA AppendElements ==
    ASSUME NEW s \in Seq(Tasks), NEW t \in Tasks
    PROVE  /\ {Append(s, t)[i] : i \in DOMAIN Append(s, t)} = {s[i] : i \in DOMAIN s} \cup {t}
           /\ /\ \A i, j \in DOMAIN s : s[i] = s[j] => i = j
              /\ t \notin {s[i] : i \in DOMAIN s}
              => \A i, j \in DOMAIN Append(s, t) : Append(s, t)[i] = Append(s, t)[j] => i = j
<1> DEFINE a == Append(s, t)
<1>1. /\ DOMAIN a = 1 .. Len(s) + 1
      /\ DOMAIN s = 1 .. Len(s)
      /\ Len(s) \in Nat
      /\ a[Len(s) + 1] = t
      /\ \A i \in DOMAIN s : a[i] = s[i]
    OBVIOUS
<1>2. {a[i] : i \in DOMAIN a} = {s[i] : i \in DOMAIN s} \cup {t}
  <2> HIDE DEF a
  <2>1. \A i \in DOMAIN a : i \in DOMAIN s \/ i = Len(s) + 1
      BY <1>1
  <2>2. \A i \in DOMAIN s : i \in DOMAIN a
      BY <1>1
  <2>3. Len(s) + 1 \in DOMAIN a
      BY <1>1
  <2> QED BY <1>1, <2>1, <2>2, <2>3
<1>3. ASSUME \A i, j \in DOMAIN s : s[i] = s[j] => i = j,
             t \notin {s[i] : i \in DOMAIN s},
             NEW i \in DOMAIN a, NEW j \in DOMAIN a, a[i] = a[j]
      PROVE  i = j
  <2> HIDE DEF a
  <2>1. i \in DOMAIN s \/ i = Len(s) + 1
      BY <1>1
  <2>2. j \in DOMAIN s \/ j = Len(s) + 1
      BY <1>1
  <2> QED BY <1>1, <1>3, <2>1, <2>2
<1> QED BY <1>2, <1>3

\* What taking the first task leaves in the queue.
LEMMA TailElements ==
    ASSUME NEW s \in Seq(Tasks), s # <<>>,
           \A i, j \in DOMAIN s : s[i] = s[j] => i = j
    PROVE  /\ Head(s) \in {s[i] : i \in DOMAIN s}
           /\ {Tail(s)[i] : i \in DOMAIN Tail(s)} = {s[i] : i \in DOMAIN s} \ {Head(s)}
           /\ \A i, j \in DOMAIN Tail(s) : Tail(s)[i] = Tail(s)[j] => i = j
<1> DEFINE r == Tail(s)
<1>1. /\ DOMAIN s = 1 .. Len(s)
      /\ Len(s) \in Nat \ {0}
      /\ DOMAIN r = 1 .. Len(s) - 1
      /\ Head(s) = s[1]
      /\ \A i \in DOMAIN r : r[i] = s[i + 1]
    OBVIOUS
<1> HIDE DEF r
<1>2. 1 \in DOMAIN s /\ \A i \in DOMAIN r : i + 1 \in DOMAIN s /\ i + 1 # 1
    BY <1>1
<1>3. \A i \in DOMAIN s : i # 1 => i - 1 \in DOMAIN r /\ r[i - 1] = s[i]
    BY <1>1
<1>4. {r[i] : i \in DOMAIN r} = {s[i] : i \in DOMAIN s} \ {s[1]}
  <2>1. \A x \in {r[i] : i \in DOMAIN r} : x \in {s[i] : i \in DOMAIN s} \ {s[1]}
      BY <1>1, <1>2
  <2>2. \A x \in {s[i] : i \in DOMAIN s} \ {s[1]} : x \in {r[i] : i \in DOMAIN r}
      BY <1>3
  <2> QED BY <2>1, <2>2
<1>5. \A i, j \in DOMAIN r : r[i] = r[j] => i = j
  <2> SUFFICES ASSUME NEW i \in DOMAIN r, NEW j \in DOMAIN r, r[i] = r[j]
               PROVE  i = j
      OBVIOUS
  <2>1. i + 1 = j + 1
      BY <1>1, <1>2
  <2>2. i \in Int /\ j \in Int
      BY <1>1
  <2> QED BY <2>1, <2>2
<1> QED BY <1>1, <1>2, <1>4, <1>5 DEF r

-----------------------------------------------------------------------------
(***************************************************************************)
(* The threads.                                                            *)
(***************************************************************************)
\* The states of a thread differ, and one that runs says which task.
LEMMA StatesDiffer ==
    /\ Loop # Waits /\ Loop # Gone /\ Waits # Gone
    /\ Loop.at # "run" /\ Waits.at # "run" /\ Gone.at # "run"
    /\ \A t : Runs(t).at = "run"
    /\ \A t : Runs(t) # Loop /\ Runs(t) # Waits /\ Runs(t) # Gone
    /\ \A t, u : Runs(t) = Runs(u) => t = u
BY DEF Loop, Waits, Gone, Runs

\* A thread that neither begins nor ends a task leaves the tasks where they are.
LEMMA IdleStep ==
    ASSUME PoolTypeOK, EachTaskIsSomewhere,
           worker' \in [Workers -> {Loop, Waits, Gone} \cup {Runs(t) : t \in Tasks}],
           \A w \in Workers : worker'[w] # worker[w] =>
               worker[w] \in {Loop, Waits} /\ worker'[w] \in {Loop, Waits, Gone},
           UNCHANGED <<queue, accepted, done>>
    PROVE  EachTaskIsSomewhere'
<1>1. \A w \in Workers : worker'[w] # worker[w] => worker[w].at # "run" /\ worker'[w].at # "run"
    BY StatesDiffer
<1>2. \A w \in Workers, t \in Tasks : worker'[w] = Runs(t) <=> worker[w] = Runs(t)
    BY <1>1, StatesDiffer
<1>3. Running' = Running
    BY <1>2 DEF Running
<1>4. Queued' = Queued
    BY DEF Queued
<1>5. \A v, w \in Workers : worker'[v].at = "run" /\ worker'[v] = worker'[w] => v = w
  <2> SUFFICES ASSUME NEW v \in Workers, NEW w \in Workers,
                      worker'[v].at = "run", worker'[v] = worker'[w]
               PROVE  v = w
      OBVIOUS
  <2>1. worker[v] = worker'[v] /\ worker[w] = worker'[w]
      BY <1>1
  <2> QED BY <2>1 DEF EachTaskIsSomewhere
<1>6. \A i, j \in DOMAIN queue' : queue'[i] = queue'[j] => i = j
    BY DEF EachTaskIsSomewhere
<1> QED BY <1>3, <1>4, <1>5, <1>6 DEF EachTaskIsSomewhere

\* A task submitted is in the queue and nowhere else.
LEMMA SubmitStep ==
    ASSUME PoolInv, NEW t \in Tasks, Submit(t)
    PROVE  PoolInv'
<1> USE DEF PoolInv
<1>1. queue' = Append(queue, t) /\ accepted' = accepted \cup {t} /\ worker' = worker
      /\ done' = done /\ stage' = stage /\ stage = "open" /\ t \notin accepted
      /\ signals' = signals \cup {t}
    BY DEF Submit, Refuses
<1>2. queue \in Seq(Tasks) /\ Len(queue) < Capacity
    BY ThreadPoolAssumption DEF PoolTypeOK, Submit, Refuses
<1>3. PoolTypeOK'
  <2>1. Append(queue, t) \in Seq(Tasks) /\ Len(Append(queue, t)) = Len(queue) + 1 /\ Len(queue) \in Nat
      BY <1>2
  <2>2. Len(queue) + 1 <= Capacity
      BY <1>2, <2>1, ThreadPoolAssumption
  <2> QED BY <1>1, <2>1, <2>2 DEF PoolTypeOK
<1>4. EachTaskIsSomewhere'
  <2>1. t \notin Queued /\ t \notin Running /\ t \notin done
      BY <1>1 DEF EachTaskIsSomewhere
  <2>2. Queued' = Queued \cup {t}
      BY <1>1, <1>2, AppendElements DEF Queued
  <2>3. Running' = Running
      BY <1>1 DEF Running
  <2>4. \A i, j \in DOMAIN queue' : queue'[i] = queue'[j] => i = j
      BY <1>1, <1>2, <2>1, AppendElements DEF Queued, EachTaskIsSomewhere
  <2>5. \A v, w \in Workers : worker'[v].at = "run" /\ worker'[v] = worker'[w] => v = w
      BY <1>1 DEF EachTaskIsSomewhere
  <2>6. accepted = Queued \cup Running \cup done /\ Queued \cap Running = {}
        /\ (Queued \cup Running) \cap done = {}
      BY DEF EachTaskIsSomewhere
  <2>7. accepted' = (Queued \cup Running \cup done)'
      BY <1>1, <2>2, <2>3, <2>6
  <2>8. (Queued \cap Running = {})' /\ ((Queued \cup Running) \cap done = {})'
      BY <1>1, <2>1, <2>2, <2>3, <2>6
  <2> QED BY <2>4, <2>5, <2>7, <2>8 DEF EachTaskIsSomewhere
<1>5. GoneOnlyWhenEmpty'
    BY <1>1, ThreadPoolAssumption DEF GoneOnlyWhenEmpty
<1> QED BY <1>3, <1>4, <1>5

\* The first task of the queue goes to the thread that takes it.
LEMMA TakeStep ==
    ASSUME PoolInv, NEW w \in Workers, Take(w)
    PROVE  PoolInv'
<1> USE DEF PoolInv
<1> DEFINE t == Head(queue)
<1>1. worker[w] = Loop /\ queue # <<>> /\ worker' = [worker EXCEPT ![w] = Runs(t)]
      /\ queue' = Tail(queue) /\ accepted' = accepted /\ done' = done /\ signals' = signals
      /\ stage' = stage
    BY DEF Take
<1>2. queue \in Seq(Tasks) /\ worker \in [Workers -> {Loop, Waits, Gone} \cup {Runs(u) : u \in Tasks}]
    BY DEF PoolTypeOK
<1>3. t \in Tasks /\ Tail(queue) \in Seq(Tasks) /\ Len(Tail(queue)) = Len(queue) - 1 /\ Len(queue) \in Nat
    BY <1>1, <1>2
<1>4. t \in Queued /\ Queued' = Queued \ {t}
      /\ \A i, j \in DOMAIN queue' : queue'[i] = queue'[j] => i = j
  <2>1. \A i, j \in DOMAIN queue : queue[i] = queue[j] => i = j
      BY DEF EachTaskIsSomewhere
  <2>2. /\ Head(queue) \in {queue[i] : i \in DOMAIN queue}
        /\ {Tail(queue)[i] : i \in DOMAIN Tail(queue)} = {queue[i] : i \in DOMAIN queue} \ {Head(queue)}
        /\ \A i, j \in DOMAIN Tail(queue) : Tail(queue)[i] = Tail(queue)[j] => i = j
      BY <1>1, <1>2, <2>1, TailElements
  <2> QED BY <1>1, <2>2 DEF Queued
<1> HIDE DEF t
<1>5. worker'[w] = Runs(t) /\ \A v \in Workers \ {w} : worker'[v] = worker[v]
    BY <1>1, <1>2
<1>6. PoolTypeOK'
  <2>1. Len(Tail(queue)) <= Capacity
      BY <1>3, ThreadPoolAssumption DEF PoolTypeOK
  <2>2. worker' \in [Workers -> {Loop, Waits, Gone} \cup {Runs(u) : u \in Tasks}]
      BY <1>1, <1>2, <1>3
  <2> QED BY <1>1, <1>3, <2>1, <2>2 DEF PoolTypeOK
<1>7. Running' = Running \cup {t}
  <2>1. \A v \in Workers, u \in Tasks : worker'[v] = Runs(u) <=> worker[v] = Runs(u) \/ (v = w /\ u = t)
      BY <1>1, <1>5, StatesDiffer
  <2> QED BY <1>3, <2>1 DEF Running
<1>8. accepted' = (Queued \cup Running \cup done)' /\ (Queued \cap Running = {})'
      /\ ((Queued \cup Running) \cap done = {})'
    BY <1>1, <1>4, <1>7 DEF EachTaskIsSomewhere
<1>9. \A v, x \in Workers : worker'[v].at = "run" /\ worker'[v] = worker'[x] => v = x
  <2>1. \A v \in Workers : worker[v] # Runs(t)
      BY <1>3, <1>4 DEF EachTaskIsSomewhere, Running
  <2> QED BY <1>5, <2>1 DEF EachTaskIsSomewhere
<1>10. EachTaskIsSomewhere'
    BY <1>4, <1>8, <1>9 DEF EachTaskIsSomewhere
<1>11. GoneOnlyWhenEmpty'
  <2>1. \A v \in Workers : worker[v] # Gone
      BY <1>1 DEF GoneOnlyWhenEmpty
  <2>2. \A v \in Workers : worker'[v] # Gone
      BY <1>5, <2>1, StatesDiffer
  <2> QED BY <1>1, <2>1, <2>2 DEF GoneOnlyWhenEmpty
<1> QED BY <1>6, <1>10, <1>11

\* A task that ends is done, and its thread free.
LEMMA FinishStep ==
    ASSUME PoolInv, NEW w \in Workers, NEW t \in Tasks, Finish(w, t)
    PROVE  PoolInv'
<1> USE DEF PoolInv
<1>1. worker[w] = Runs(t) /\ worker' = [worker EXCEPT ![w] = Loop] /\ done' = done \cup {t}
      /\ queue' = queue /\ accepted' = accepted /\ signals' = signals /\ stage' = stage
    BY DEF Finish
<1>2. worker \in [Workers -> {Loop, Waits, Gone} \cup {Runs(u) : u \in Tasks}]
    BY DEF PoolTypeOK
<1>3. worker'[w] = Loop /\ \A v \in Workers \ {w} : worker'[v] = worker[v]
    BY <1>1, <1>2
<1>4. t \in Running /\ Running \subseteq accepted
    BY <1>1 DEF EachTaskIsSomewhere, Running
<1>5. PoolTypeOK'
    BY <1>1, <1>2, <1>4 DEF PoolTypeOK
<1>6. Running' = Running \ {t}
  <2>1. \A v \in Workers : worker[v] = Runs(t) => v = w
      BY <1>1, StatesDiffer DEF EachTaskIsSomewhere
  <2>2. \A v \in Workers, u \in Tasks : worker'[v] = Runs(u) <=> worker[v] = Runs(u) /\ u # t
      BY <1>1, <1>3, <2>1, StatesDiffer
  <2> QED BY <2>2 DEF Running
<1>7. Queued' = Queued
    BY <1>1 DEF Queued
<1>8. accepted' = (Queued \cup Running \cup done)' /\ (Queued \cap Running = {})'
      /\ ((Queued \cup Running) \cap done = {})'
    BY <1>1, <1>4, <1>6, <1>7 DEF EachTaskIsSomewhere
<1>9. \A v, x \in Workers : worker'[v].at = "run" /\ worker'[v] = worker'[x] => v = x
    BY <1>3, StatesDiffer DEF EachTaskIsSomewhere
<1>10. EachTaskIsSomewhere'
    BY <1>1, <1>8, <1>9 DEF EachTaskIsSomewhere
<1>11. GoneOnlyWhenEmpty'
    BY <1>1, <1>3, StatesDiffer DEF GoneOnlyWhenEmpty
<1> QED BY <1>5, <1>10, <1>11

-----------------------------------------------------------------------------
(***************************************************************************)
(* The inductive invariant.                                                *)
(***************************************************************************)
\* The steps of a thread between tasks, and those of notify and Shutdown.
LEMMA OtherSteps ==
    ASSUME PoolInv,
           \/ Notify \/ BeginShutdown \/ NotifyAll \/ Join
           \/ \E w \in Workers : Leave(w) \/ Wait(w) \/ WakeUnasked(w)
    PROVE  PoolInv'
<1> USE DEF PoolInv
<1>1. worker \in [Workers -> {Loop, Waits, Gone} \cup {Runs(t) : t \in Tasks}]
      /\ UNCHANGED <<queue, accepted, done>>
    BY DEF PoolTypeOK, Notify, NotifyOne, BeginShutdown, NotifyAll, Join, Leave, Wait, WakeUnasked
<1>2. /\ worker' \in [Workers -> {Loop, Waits, Gone} \cup {Runs(t) : t \in Tasks}]
      /\ \A w \in Workers : worker'[w] # worker[w] =>
            /\ worker[w] \in {Loop, Waits} /\ worker'[w] \in {Loop, Waits, Gone}
            /\ worker'[w] = Gone => stage # "open" /\ queue = <<>>
  <2>1. CASE Notify
      BY <1>1, <2>1, StatesDiffer DEF Notify, NotifyOne, Waiting
  <2>2. CASE BeginShutdown \/ Join
      BY <1>1, <2>2 DEF BeginShutdown, Join
  <2>3. CASE NotifyAll
      BY <1>1, <2>3, StatesDiffer DEF NotifyAll
  <2>4. CASE \E w \in Workers : Leave(w) \/ Wait(w) \/ WakeUnasked(w)
      BY <1>1, <2>4, StatesDiffer DEF Leave, Wait, WakeUnasked
  <2> QED BY <2>1, <2>2, <2>3, <2>4
<1>3. /\ stage' \in {"open", "stopping", "notified", "joined"}
      /\ stage' = "open" => stage = "open"
      /\ stage' = "joined" => \A w \in Workers : worker'[w] = Gone
      /\ signals' \subseteq signals
  <2>1. CASE Join
      BY <2>1 DEF Join
  <2>2. CASE Notify
    <3>1. stage' = stage /\ signals' \subseteq signals
        BY <2>2 DEF Notify, NotifyOne
    <3>2. stage = "joined" => Waiting = {}
        BY StatesDiffer DEF GoneOnlyWhenEmpty, Waiting
    <3>3. Waiting = {} => worker' = worker
        BY <2>2 DEF Notify, NotifyOne
    <3> QED BY <3>1, <3>2, <3>3 DEF PoolTypeOK, GoneOnlyWhenEmpty
  <2>3. CASE BeginShutdown \/ NotifyAll
      BY <2>3 DEF BeginShutdown, NotifyAll, PoolTypeOK
  <2>4. CASE \E w \in Workers : Leave(w) \/ Wait(w) \/ WakeUnasked(w)
    <3>1. stage' = stage /\ signals' = signals
        BY <2>4 DEF Leave, Wait, WakeUnasked
    <3>2. stage = "joined" => \A w \in Workers : worker[w] # Loop /\ worker[w] # Waits
        BY StatesDiffer DEF GoneOnlyWhenEmpty
    <3>3. stage # "joined"
        BY <2>4, <3>2 DEF Leave, Wait, WakeUnasked
    <3> QED BY <3>1, <3>3 DEF PoolTypeOK
  <2> QED BY <2>1, <2>2, <2>3, <2>4
<1>4. PoolTypeOK'
    BY <1>1, <1>2, <1>3 DEF PoolTypeOK
<1>5. EachTaskIsSomewhere'
    BY <1>1, <1>2, IdleStep
<1>6. GoneOnlyWhenEmpty'
    BY <1>1, <1>2, <1>3 DEF GoneOnlyWhenEmpty
<1> QED BY <1>4, <1>5, <1>6

\* PoolInv holds of a new pool.
LEMMA PoolInvInit == PoolInit => PoolInv
<1> SUFFICES ASSUME PoolInit PROVE PoolInv
    OBVIOUS
<1> USE DEF PoolInit
<1>1. PoolTypeOK
    BY ThreadPoolAssumption DEF PoolTypeOK
<1>2. Queued = {} /\ Running = {}
    BY StatesDiffer DEF Queued, Running
<1>3. EachTaskIsSomewhere
  <2>1. \A i, j \in DOMAIN queue : queue[i] = queue[j] => i = j
      OBVIOUS
  <2>2. \A w \in Workers : worker[w].at # "run"
      BY StatesDiffer
  <2> QED BY <1>2, <2>1, <2>2 DEF EachTaskIsSomewhere
<1>4. GoneOnlyWhenEmpty
    BY ThreadPoolAssumption, StatesDiffer DEF GoneOnlyWhenEmpty
<1> QED BY <1>1, <1>3, <1>4 DEF PoolInv

\* Every step keeps PoolInv.
LEMMA PoolInvNext == PoolInv /\ [PoolNext]_poolVars => PoolInv'
<1> SUFFICES ASSUME PoolInv, [PoolNext]_poolVars PROVE PoolInv'
    OBVIOUS
<1>1. CASE \E t \in Tasks : Submit(t)
    BY <1>1, SubmitStep
<1>2. CASE \E w \in Workers : Take(w)
    BY <1>2, TakeStep
<1>3. CASE \E w \in Workers, t \in Tasks : Finish(w, t)
    BY <1>3, FinishStep
<1>4. CASE \/ Notify \/ BeginShutdown \/ NotifyAll \/ Join
           \/ \E w \in Workers : Leave(w) \/ Wait(w) \/ WakeUnasked(w)
    BY <1>4, OtherSteps
<1>5. CASE UNCHANGED poolVars
    BY <1>5 DEF poolVars, PoolInv, PoolTypeOK, EachTaskIsSomewhere, GoneOnlyWhenEmpty, Queued, Running
<1> QED BY <1>1, <1>2, <1>3, <1>4, <1>5 DEF PoolNext, Work

-----------------------------------------------------------------------------
\* The pool's variables have their types and its queue never exceeds queue_capacity_.
THEOREM PoolTypeCorrect == PoolSpec => []PoolTypeOK
<1>1. PoolInv => PoolTypeOK
    BY DEF PoolInv
<1> QED BY <1>1, PoolInvInit, PoolInvNext, PTL DEF PoolSpec

\* Whoever submits, and whenever the pool is shut down, a task that SubmitTask accepted is
\* queued, run by one thread or done, and only one of these.
THEOREM NoTaskLostOrDoubled == PoolSpec => []EachTaskIsSomewhere
<1>1. PoolInv => EachTaskIsSomewhere
    BY DEF PoolInv
<1> QED BY <1>1, PoolInvInit, PoolInvNext, PTL DEF PoolSpec

\* Once Shutdown has joined the threads, every accepted task has been run.
THEOREM ShutdownRunsAll == PoolSpec => []NoneLost
<1>1. PoolInv => NoneLost
  <2> SUFFICES ASSUME PoolInv, stage = "joined" PROVE done = accepted
      BY DEF NoneLost
  <2>1. \A w \in Workers : worker[w] = Gone
      BY DEF PoolInv, GoneOnlyWhenEmpty
  <2>2. queue = <<>>
      BY <2>1, ThreadPoolAssumption DEF PoolInv, GoneOnlyWhenEmpty
  <2>3. Queued = {} /\ Running = {}
      BY <2>1, <2>2, StatesDiffer DEF Queued, Running
  <2> QED BY <2>3 DEF PoolInv, EachTaskIsSomewhere
<1> QED BY <1>1, PoolInvInit, PoolInvNext, PTL DEF PoolSpec

-----------------------------------------------------------------------------
(***************************************************************************)
(* Wakeups.                                                                *)
(***************************************************************************)
\* What NoLostWakeup counts can be counted.
LEMMA Counts ==
    ASSUME PoolTypeOK
    PROVE  /\ IsFiniteSet(signals) /\ Cardinality(signals) \in Nat
           /\ IsFiniteSet(Looping) /\ Cardinality(Looping) \in Nat
           /\ Len(queue) \in Nat
<1>1. signals \in SUBSET Tasks /\ Looping \in SUBSET Workers
    BY DEF PoolTypeOK, Looping
<1>2. IsFiniteSet(signals) /\ IsFiniteSet(Looping)
    BY <1>1, FS_Subset, ThreadPoolAssumption
<1> QED BY <1>2, FS_CardinalityType DEF PoolTypeOK

\* Every step keeps enough threads awake, or to be woken, for the queue.
LEMMA WakeupNext == PoolInv /\ NoLostWakeup /\ [PoolNext]_poolVars => NoLostWakeup'
<1> SUFFICES ASSUME PoolInv, NoLostWakeup, [PoolNext]_poolVars, Waiting' # {}
             PROVE  Len(queue') <= Cardinality(signals') + Cardinality(Looping')
    BY DEF NoLostWakeup
<1>1. PoolTypeOK /\ worker \in [Workers -> {Loop, Waits, Gone} \cup {Runs(t) : t \in Tasks}]
    BY DEF PoolInv, PoolTypeOK
<1>2. /\ IsFiniteSet(signals) /\ Cardinality(signals) \in Nat
      /\ IsFiniteSet(Looping) /\ Cardinality(Looping) \in Nat
      /\ Len(queue) \in Nat
    BY <1>1, Counts
<1>3. Waiting # {} => Len(queue) <= Cardinality(signals) + Cardinality(Looping)
    BY DEF NoLostWakeup
<1>4. ASSUME NEW w \in Workers, worker[w] # Loop, worker' = [worker EXCEPT ![w] = Loop]
      PROVE  Cardinality(Looping') = Cardinality(Looping) + 1
  <2>1. Looping' = Looping \cup {w} /\ w \notin Looping
      BY <1>1, <1>4 DEF Looping
  <2> QED BY <1>2, <2>1, FS_AddElement
<1>5. ASSUME NEW w \in Workers, worker[w] = Loop, NEW s, s # Loop, worker' = [worker EXCEPT ![w] = s]
      PROVE  Cardinality(Looping') = Cardinality(Looping) - 1
  <2>1. Looping' = Looping \ {w} /\ w \in Looping
      BY <1>1, <1>5 DEF Looping
  <2> QED BY <1>2, <2>1, FS_RemoveElement
<1>6. ASSUME NEW t \in Tasks, Submit(t)
      PROVE  Len(queue') <= Cardinality(signals') + Cardinality(Looping')
  <2>1. Waiting' = Waiting /\ Looping' = Looping
      BY <1>6 DEF Submit, Waiting, Looping
  <2>2. t \notin signals /\ signals' = signals \cup {t}
      BY <1>1, <1>6 DEF Submit, PoolTypeOK
  <2>3. Cardinality(signals') = Cardinality(signals) + 1
      BY <1>2, <2>2, FS_AddElement
  <2>4. Len(queue') = Len(queue) + 1
      BY <1>1, <1>6 DEF Submit, PoolTypeOK
  <2> QED BY <1>2, <1>3, <2>1, <2>3, <2>4
<1>7. ASSUME NEW t \in Tasks, NotifyOne(t)
      PROVE  Len(queue') <= Cardinality(signals') + Cardinality(Looping')
  <2>1. t \in signals /\ signals' = signals \ {t} /\ queue' = queue
      BY <1>7 DEF NotifyOne
  <2>2. Cardinality(signals') = Cardinality(signals) - 1
      BY <1>2, <2>1, FS_RemoveElement
  <2>3. Waiting # {}
      BY <1>7 DEF NotifyOne, Waiting
  <2>4. PICK w \in Waiting : worker' = [worker EXCEPT ![w] = Loop]
      BY <1>7, <2>3 DEF NotifyOne
  <2>5. Cardinality(Looping') = Cardinality(Looping) + 1
      BY <1>4, <2>4, StatesDiffer DEF Waiting
  <2> QED BY <1>2, <1>3, <2>1, <2>2, <2>3, <2>5
<1>8. ASSUME NEW w \in Workers, Leave(w) \/ Wait(w)
      PROVE  Len(queue') <= Cardinality(signals') + Cardinality(Looping')
  <2>1. queue' = <<>> /\ signals' = signals /\ worker[w] = Loop
      BY <1>8 DEF Leave, Wait
  <2>2. PICK s : s # Loop /\ worker' = [worker EXCEPT ![w] = s]
      BY <1>8, StatesDiffer DEF Leave, Wait
  <2>3. Cardinality(Looping') = Cardinality(Looping) - 1
      BY <1>5, <2>1, <2>2
  <2>4. Cardinality(Looping) # 0
    <3>1. w \in Looping
        BY <2>1 DEF Looping
    <3> QED BY <1>2, <3>1, FS_EmptySet
  <2>5. Len(queue') = 0
      BY <2>1
  <2> QED BY <1>2, <2>1, <2>3, <2>4, <2>5
<1>9. ASSUME NEW w \in Workers, WakeUnasked(w)
      PROVE  Len(queue') <= Cardinality(signals') + Cardinality(Looping')
  <2>1. queue' = queue /\ signals' = signals /\ Waiting # {}
      BY <1>9 DEF WakeUnasked, Waiting
  <2>2. Cardinality(Looping') = Cardinality(Looping) + 1
      BY <1>4, <1>9, StatesDiffer DEF WakeUnasked
  <2> QED BY <1>2, <1>3, <2>1, <2>2
<1>10. ASSUME NEW w \in Workers, Take(w)
       PROVE  Len(queue') <= Cardinality(signals') + Cardinality(Looping')
  <2>1. signals' = signals /\ Len(queue') = Len(queue) - 1
      BY <1>1, <1>10 DEF Take, PoolTypeOK
  <2>2. Cardinality(Looping') = Cardinality(Looping) - 1
      BY <1>5, <1>10, StatesDiffer DEF Take
  <2>3. Waiting # {}
      BY <1>1, <1>10, StatesDiffer DEF Take, Waiting
  <2> QED BY <1>2, <1>3, <2>1, <2>2, <2>3
<1>11. ASSUME NEW w \in Workers, NEW t \in Tasks, Finish(w, t)
       PROVE  Len(queue') <= Cardinality(signals') + Cardinality(Looping')
  <2>1. queue' = queue /\ signals' = signals
      BY <1>11 DEF Finish
  <2>2. Cardinality(Looping') = Cardinality(Looping) + 1
      BY <1>4, <1>11, StatesDiffer DEF Finish
  <2>3. Waiting # {}
      BY <1>1, <1>11, StatesDiffer DEF Finish, Waiting
  <2> QED BY <1>2, <1>3, <2>1, <2>2, <2>3
<1>12. ASSUME NotifyAll
       PROVE  Len(queue') <= Cardinality(signals') + Cardinality(Looping')
  <2>1. Waiting' = {}
      BY <1>1, <1>12, StatesDiffer DEF NotifyAll, Waiting
  <2> QED BY <2>1
<1>13. ASSUME BeginShutdown \/ Join \/ UNCHANGED poolVars
       PROVE  Len(queue') <= Cardinality(signals') + Cardinality(Looping')
  <2>1. queue' = queue /\ signals' = signals /\ Looping' = Looping /\ Waiting' = Waiting
      BY <1>13 DEF BeginShutdown, Join, poolVars, Looping, Waiting
  <2> QED BY <1>2, <1>3, <2>1
<1> QED BY <1>6, <1>7, <1>8, <1>9, <1>10, <1>11, <1>12, <1>13 DEF PoolNext, Notify, Work

\* While a thread sleeps, there are as many notifications to come and threads awake as there
\* are tasks in the queue: notify_one per task is enough.
THEOREM WakeupsSuffice == PoolSpec => []NoLostWakeup
<1>1. PoolInit => NoLostWakeup
  <2>1. PoolInit => Waiting = {}
      BY StatesDiffer DEF PoolInit, Waiting
  <2> QED BY <2>1 DEF NoLostWakeup
<1> QED BY <1>1, PoolInvInit, PoolInvNext, WakeupNext, PTL DEF PoolSpec
=============================================================================
