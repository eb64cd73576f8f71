------------------------------ MODULE ThreadPool ------------------------------
(***************************************************************************)
(* The bounded pool of threads of src/infra/thread_pool.cpp                *)
(* (FallbackThreadPoolBackend): a queue under a mutex, a condition         *)
(* variable, workers that take tasks in order, and a shutdown that lets    *)
(* the queue run empty.  A step is what a thread does while it holds the   *)
(* mutex, or one call of notify or join; what a task does is the user's.   *)
(***************************************************************************)
EXTENDS Integers, Sequences, FiniteSets

CONSTANTS
    Tasks,     \* the tasks that may be submitted, each once
    Workers,   \* the pool's threads
    Capacity   \* queue_capacity_

ASSUME ThreadPoolAssumption ==
    /\ IsFiniteSet(Workers) /\ Workers # {}
    /\ IsFiniteSet(Tasks)
    /\ Capacity \in Nat \ {0}

VARIABLES
    queue,      \* tasks_
    worker,     \* what each thread is doing
    accepted,   \* the tasks SubmitTask has accepted; submitted_tasks_ counts them
    done,       \* the tasks that have returned; completed_tasks_ counts them
    signals,    \* accepted tasks whose submitter has not called notify_one yet
    stage       \* how far Shutdown is

poolVars == <<queue, worker, accepted, done, signals, stage>>

\* A thread is about to lock the mutex, waits for the condition, runs a task or is gone.
Loop == [at |-> "loop"]
Waits == [at |-> "wait"]
Gone == [at |-> "gone"]
Runs(t) == [at |-> "run", task |-> t]

Looping == {w \in Workers : worker[w] = Loop}
Waiting == {w \in Workers : worker[w] = Waits}
Running == {t \in Tasks : \E w \in Workers : worker[w] = Runs(t)}
Queued == {queue[i] : i \in DOMAIN queue}

PoolTypeOK ==
    /\ queue \in Seq(Tasks) /\ Len(queue) <= Capacity
    /\ worker \in [Workers -> {Loop, Waits, Gone} \cup {Runs(t) : t \in Tasks}]
    /\ accepted \subseteq Tasks
    /\ done \subseteq accepted
    /\ signals \subseteq accepted
    /\ stage \in {"open", "stopping", "notified", "joined"}

-----------------------------------------------------------------------------
\* Mutant: the capacity is compared one too late.
RefusesLate == stage # "open" \/ Len(queue) > Capacity

\* SubmitTask refuses; the caller gets a future that throws.
Refuses == stage # "open" \/ Len(queue) >= Capacity

\* Mutant: nobody is notified when the queue had a task already.
SubmitQuietly(t) ==
    /\ t \notin accepted
    /\ ~ Refuses
    /\ queue' = Append(queue, t)
    /\ accepted' = accepted \cup {t}
    /\ signals' = IF queue = <<>> THEN signals \cup {t} ELSE signals
    /\ UNCHANGED <<worker, done, stage>>

Submit(t) ==
    /\ t \notin accepted
    /\ ~ Refuses
    /\ queue' = Append(queue, t)
    /\ accepted' = accepted \cup {t}
    /\ signals' = signals \cup {t}
    /\ UNCHANGED <<worker, done, stage>>

\* Of the threads that wait, if any does, one goes back to the mutex.
NotifyOne(t) ==
    /\ t \in signals
    /\ signals' = signals \ {t}
    /\ IF Waiting = {} THEN UNCHANGED worker
                       ELSE \E w \in Waiting : worker' = [worker EXCEPT ![w] = Loop]
    /\ UNCHANGED <<queue, accepted, done, stage>>

-----------------------------------------------------------------------------
\* WorkerLoop.  Mutant: a thread that finds the pool stopping leaves at once.
LeaveAtOnce(w) ==
    /\ worker[w] = Loop
    /\ stage # "open"
    /\ worker' = [worker EXCEPT ![w] = Gone]
    /\ UNCHANGED <<queue, accepted, done, signals, stage>>

Leave(w) ==
    /\ worker[w] = Loop
    /\ stage # "open" /\ queue = <<>>
    /\ worker' = [worker EXCEPT ![w] = Gone]
    /\ UNCHANGED <<queue, accepted, done, signals, stage>>

Wait(w) ==
    /\ worker[w] = Loop
    /\ stage = "open" /\ queue = <<>>
    /\ worker' = [worker EXCEPT ![w] = Waits]
    /\ UNCHANGED <<queue, accepted, done, signals, stage>>

\* wait may return without a notification, and asks again.
WakeUnasked(w) ==
    /\ worker[w] = Waits
    /\ worker' = [worker EXCEPT ![w] = Loop]
    /\ UNCHANGED <<queue, accepted, done, signals, stage>>

\* Mutant: the task stays in the queue.
TakeLeavesTask(w) ==
    /\ worker[w] = Loop
    /\ queue # <<>>
    /\ worker' = [worker EXCEPT ![w] = Runs(Head(queue))]
    /\ UNCHANGED <<queue, accepted, done, signals, stage>>

Take(w) ==
    /\ worker[w] = Loop
    /\ queue # <<>>
    /\ worker' = [worker EXCEPT ![w] = Runs(Head(queue))]
    /\ queue' = Tail(queue)
    /\ UNCHANGED <<accepted, done, signals, stage>>

\* The task w runs returns, or throws, which its future keeps.
Finish(w, t) ==
    /\ worker[w] = Runs(t)
    /\ worker' = [worker EXCEPT ![w] = Loop]
    /\ done' = done \cup {t}
    /\ UNCHANGED <<queue, accepted, signals, stage>>

-----------------------------------------------------------------------------
\* Shutdown, of which only the first call does anything.
BeginShutdown ==
    /\ stage = "open"
    /\ stage' = "stopping"
    /\ UNCHANGED <<queue, worker, accepted, done, signals>>

\* Mutant: one thread is told.
NotifyOnlyOne ==
    /\ stage = "stopping"
    /\ stage' = "notified"
    /\ IF Waiting = {} THEN UNCHANGED worker
                       ELSE \E w \in Waiting : worker' = [worker EXCEPT ![w] = Loop]
    /\ UNCHANGED <<queue, accepted, done, signals>>

NotifyAll ==
    /\ stage = "stopping"
    /\ stage' = "notified"
    /\ worker' = [w \in Workers |-> IF worker[w] = Waits THEN Loop ELSE worker[w]]
    /\ UNCHANGED <<queue, accepted, done, signals>>

Join ==
    /\ stage = "notified"
    /\ \A w \in Workers : worker[w] = Gone
    /\ stage' = "joined"
    /\ UNCHANGED <<queue, worker, accepted, done, signals>>

-----------------------------------------------------------------------------
PoolInit ==
    /\ queue = <<>>
    /\ worker = [w \in Workers |-> Loop]
    /\ accepted = {}
    /\ done = {}
    /\ signals = {}
    /\ stage = "open"

\* What a thread of the pool does of itself.
Work(w) == Leave(w) \/ Wait(w) \/ Take(w)

Notify == \E t \in Tasks : NotifyOne(t)

PoolNext ==
    \/ Notify \/ \E t \in Tasks : Submit(t)
    \/ \E w \in Workers : Work(w) \/ WakeUnasked(w) \/ \E t \in Tasks : Finish(w, t)
    \/ BeginShutdown \/ NotifyAll \/ Join

PoolSpec == PoolInit /\ [][PoolNext]_poolVars

-----------------------------------------------------------------------------
\* An accepted task is in the queue, with one worker, or done, and in one of them only:
\* no interleaving of submitters, workers and Shutdown drops it or runs it twice.
EachTaskIsSomewhere ==
    /\ accepted = Queued \cup Running \cup done
    /\ Queued \cap Running = {} /\ (Queued \cup Running) \cap done = {}
    /\ \A i, j \in DOMAIN queue : queue[i] = queue[j] => i = j
    /\ \A v, w \in Workers : worker[v].at = "run" /\ worker[v] = worker[w] => v = w

\* When Shutdown returns, every task that was accepted has been run: no caller waits for
\* a future that nobody will fulfil.
NoneLost == stage = "joined" => done = accepted

\* A task is never left in the queue while threads sleep: for each there is a thread
\* awake to take it or a notification to come.
NoLostWakeup ==
    Waiting # {} => Len(queue) <= Cardinality(signals) + Cardinality(Looping)
=============================================================================
