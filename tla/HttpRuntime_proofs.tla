-------------------------- MODULE HttpRuntime_proofs --------------------------
(***************************************************************************)
(* What TLAPS proves of HttpRuntime, for every number of connections,      *)
(* threads and embedders: the handlers' pool keeps its promises in the     *)
(* process that uses it, the server's pool of embeddings is a pool too,    *)
(* and Stop takes the server down only after the last request.             *)
(***************************************************************************)
EXTENDS HttpRuntime, ThreadPool_proofs

(***************************************************************************)
(* The invariant: a request that waits is with a thread of the pool, and   *)
(* Stop's steps are in order.                                              *)
(***************************************************************************)
RuntimeTypes ==
    /\ conn \in [Tasks -> ConnStates]
    /\ acceptor \in {Loop, Gone} \cup {Runs(t) : t \in Tasks}
    /\ main \in MainStages

\* The states of a connection whose handler waits for embeddings.
Embedding == {"embed", "drain"}

WaitingRun == \A t \in Tasks : conn[t] \in Embedding => t \in Running

StopsInOrder ==
    /\ main \in {"unaccepting", "draining", "stopped", "destroyed", "exited"} => acceptor = Gone
    /\ main \in {"serving", "stopping", "unlistened", "unaccepting"} => stage = "open"
    /\ main \in {"stopped", "destroyed", "exited"} => stage = "joined"

RuntimeInv == PoolInv /\ RuntimeTypes /\ WaitingRun /\ StopsInOrder

-----------------------------------------------------------------------------
\* Whatever the process does, its handlers' pool takes a step of a pool or none.
LEMMA PoolStep == [Next]_vars => [PoolNext]_poolVars
<1> SUFFICES ASSUME [Next]_vars PROVE [PoolNext]_poolVars
    OBVIOUS
<1>1. CASE \E t \in Tasks : Connect(t) \/ Speak(t)
    BY <1>1 DEF Connect, Speak
<1>2. CASE AcceptLoop
    BY <1>2 DEF AcceptLoop, EndAccept, Accept, SubmitClient, PoolNext
<1>3. CASE \E w \in Workers, t \in Tasks : Handle(w, t) \/ EndDrain(w, t)
  <2>1. PICK w \in Workers, t \in Tasks : Handle(w, t) \/ EndDrain(w, t)
      BY <1>3
  <2>2. Finish(w, t) \/ UNCHANGED poolVars
      BY <2>1 DEF Handle, Answer, Throw, Search, AnswerSearch, Drain, EndDrain, Close
  <2> QED BY <2>2 DEF PoolNext
<1>4. CASE SetStopping \/ Main
    BY <1>4 DEF SetStopping, Main, CloseListener, JoinAcceptor, ShutdownPool, StopServer,
                DestroyServices, Exit, PoolNext
<1>5. CASE PoolSteps /\ UNCHANGED Outside
    BY <1>5 DEF PoolSteps, PoolNext
<1>6. CASE EmbedSteps /\ UNCHANGED OutsideEmbed
    BY <1>6 DEF OutsideEmbed
<1>7. CASE UNCHANGED vars
    BY <1>7 DEF vars
<1> QED BY <1>1, <1>2, <1>3, <1>4, <1>5, <1>6, <1>7 DEF Next

\* Of the tasks that run, a step of the pool alone takes none away.
LEMMA StillRunning ==
    ASSUME PoolInv, \/ \E t \in Tasks : Submit(t)
                    \/ PoolSteps \/ BeginShutdown \/ UNCHANGED poolVars
    PROVE  Running \subseteq Running'
<1>1. worker \in [Workers -> {Loop, Waits, Gone} \cup {Runs(t) : t \in Tasks}]
    BY DEF PoolInv, PoolTypeOK
<1>2. ASSUME NEW w \in Workers, NEW t \in Tasks, worker[w] = Runs(t)
      PROVE  worker'[w] = Runs(t)
  <2>1. CASE UNCHANGED worker
      BY <1>2, <2>1
  <2>2. CASE NotifyAll
      BY <1>2, <2>2, StatesDiffer DEF NotifyAll
  <2>3. ASSUME NEW v \in Workers, NEW s, worker[v] \in {Loop, Waits}, worker' = [worker EXCEPT ![v] = s]
        PROVE  worker'[w] = Runs(t)
      BY <1>1, <1>2, <2>3, StatesDiffer
  <2>4. CASE Notify
      BY <2>1, <2>3, <2>4 DEF Notify, NotifyOne, Waiting
  <2>5. CASE \E v \in Workers : Work(v) \/ WakeUnasked(v)
      BY <2>3, <2>5 DEF Work, Leave, Wait, Take, WakeUnasked
  <2> QED BY <2>1, <2>2, <2>4, <2>5 DEF Submit, PoolSteps, Join, BeginShutdown, poolVars
<1> QED BY <1>2 DEF Running

\* A handler that ends leaves the others running.
LEMMA OthersStillRun ==
    ASSUME PoolInv, NEW w \in Workers, NEW t \in Tasks, Finish(w, t),
           NEW u \in Running, u # t
    PROVE  u \in Running'
<1>1. worker \in [Workers -> {Loop, Waits, Gone} \cup {Runs(s) : s \in Tasks}]
    BY DEF PoolInv, PoolTypeOK
<1>2. PICK v \in Workers : worker[v] = Runs(u)
    BY DEF Running
<1>3. v # w /\ worker'[v] = Runs(u)
    BY <1>1, <1>2, StatesDiffer DEF Finish
<1> QED BY <1>3 DEF Running

-----------------------------------------------------------------------------
\* The accept thread takes a connection, submits it, or leaves.
LEMMA AcceptKeeps ==
    ASSUME RuntimeInv, AcceptLoop
    PROVE  RuntimeTypes' /\ WaitingRun' /\ StopsInOrder'
<1> USE DEF RuntimeInv
<1>1. CASE EndAccept
    BY <1>1, StillRunning, StatesDiffer
    DEF EndAccept, RuntimeTypes, WaitingRun, StopsInOrder, poolVars, runtime
<1>2. ASSUME NEW t \in Tasks, Accept(t)
      PROVE  RuntimeTypes' /\ WaitingRun' /\ StopsInOrder'
  <2>1. RuntimeTypes'
      BY <1>2 DEF Accept, RuntimeTypes, ConnStates
  <2>2. \A u \in Tasks : conn'[u] \in Embedding => conn[u] \in Embedding
      BY <1>2 DEF Accept, RuntimeTypes, Embedding
  <2>3. WaitingRun'
      BY <1>2, <2>2, StillRunning DEF Accept, WaitingRun
  <2>4. StopsInOrder'
      BY <1>2, StatesDiffer DEF Accept, StopsInOrder, poolVars
  <2> QED BY <2>1, <2>3, <2>4
<1>3. ASSUME NEW t \in Tasks, SubmitClient(t)
      PROVE  RuntimeTypes' /\ WaitingRun' /\ StopsInOrder'
  <2>1. RuntimeTypes'
      BY <1>3 DEF SubmitClient, RuntimeTypes
  <2>2. WaitingRun'
      BY <1>3, StillRunning DEF SubmitClient, WaitingRun
  <2>3. StopsInOrder'
      BY <1>3, StatesDiffer DEF SubmitClient, Submit, StopsInOrder, poolVars
  <2> QED BY <2>1, <2>2, <2>3
<1> QED BY <1>1, <1>2, <1>3 DEF AcceptLoop

\* A handler reads, answers, fails, or begins to wait for embeddings: it is still running.
LEMMA HandleKeeps ==
    ASSUME RuntimeInv, NEW w \in Workers, NEW t \in Tasks, Handle(w, t) \/ EndDrain(w, t)
    PROVE  RuntimeTypes' /\ WaitingRun' /\ StopsInOrder'
<1> USE DEF RuntimeInv
<1>1. PICK s \in {"closed", "thrown", "embed", "drain"} : conn' = [conn EXCEPT ![t] = s]
      /\ UNCHANGED runtime
      /\ \/ Finish(w, t) /\ s \notin Embedding
         \/ UNCHANGED poolVars /\ worker[w] = Runs(t)
    BY DEF Handle, Answer, Throw, Search, AnswerSearch, Drain, EndDrain, Close, MayAnswer, Handler,
           Embedding
<1>2. RuntimeTypes'
    BY <1>1 DEF RuntimeTypes, ConnStates, runtime
<1>3. StopsInOrder'
    BY <1>1 DEF StopsInOrder, Finish, poolVars, runtime
<1>4. ASSUME NEW u \in Tasks, conn'[u] \in Embedding PROVE u \in Running'
  <2>1. CASE u = t
    <3>1. UNCHANGED poolVars /\ worker[w] = Runs(t)
        BY <1>1, <1>4, <2>1 DEF RuntimeTypes
    <3> QED BY <2>1, <3>1 DEF Running, poolVars
  <2>2. CASE u # t
    <3>1. u \in Running
        BY <1>1, <1>4, <2>2 DEF RuntimeTypes, WaitingRun
    <3> QED BY <1>1, <2>2, <3>1, OthersStillRun, StillRunning
  <2> QED BY <2>1, <2>2
<1> QED BY <1>2, <1>3, <1>4 DEF WaitingRun

\* Stop and the destructors, one after the other.
LEMMA MainKeeps ==
    ASSUME RuntimeInv, SetStopping \/ Main
    PROVE  RuntimeTypes' /\ WaitingRun' /\ StopsInOrder'
<1> USE DEF RuntimeInv
<1>1. BeginShutdown \/ UNCHANGED poolVars
    BY DEF SetStopping, Main, CloseListener, JoinAcceptor, ShutdownPool, StopServer,
           DestroyServices, Exit
<1>2. acceptor' = acceptor /\ main' \in MainStages
    BY DEF SetStopping, Main, CloseListener, JoinAcceptor, ShutdownPool, StopServer,
           DestroyServices, Exit, Goes, MainStages
<1>3. conn' \in [Tasks -> ConnStates] /\ \A t \in Tasks : conn'[t] \in Embedding => conn[t] \in Embedding
  <2>1. CASE CloseListener
      BY <2>1 DEF CloseListener, RuntimeTypes, ConnStates, Embedding
  <2>2. CASE UNCHANGED conn
      BY <2>2 DEF RuntimeTypes
  <2> QED BY <2>1, <2>2 DEF SetStopping, Main, JoinAcceptor, ShutdownPool, StopServer,
                            DestroyServices, Exit
<1>4. RuntimeTypes'
    BY <1>2, <1>3 DEF RuntimeTypes
<1>5. WaitingRun'
    BY <1>1, <1>3, StillRunning DEF WaitingRun
<1>6. StopsInOrder'
    BY DEF SetStopping, Main, CloseListener, JoinAcceptor, ShutdownPool, StopServer,
           DestroyServices, Exit, Goes, StopsInOrder, BeginShutdown, poolVars
<1> QED BY <1>4, <1>5, <1>6

-----------------------------------------------------------------------------
\* The process starts with nothing accepted.
LEMMA RuntimeInvInit == Init => RuntimeInv
<1> SUFFICES ASSUME Init PROVE RuntimeInv
    OBVIOUS
<1>1. PoolInv /\ stage = "open"
    BY PoolInvInit DEF Init, PoolInit
<1> QED BY <1>1 DEF Init, RuntimeInv, RuntimeTypes, ConnStates, MainStages, WaitingRun,
                    StopsInOrder, Embedding

\* Every step keeps the invariant.
LEMMA RuntimeInvNext == RuntimeInv /\ [Next]_vars => RuntimeInv'
<1> SUFFICES ASSUME RuntimeInv, [Next]_vars PROVE RuntimeInv'
    OBVIOUS
<1> USE DEF RuntimeInv
<1>1. PoolInv'
    BY PoolStep, PoolInvNext
<1>2. RuntimeTypes' /\ WaitingRun' /\ StopsInOrder'
  <2>1. CASE \E t \in Tasks : Connect(t) \/ Speak(t)
    <3>1. UNCHANGED <<poolVars, runtime>> /\ conn' \in [Tasks -> ConnStates]
          /\ \A t \in Tasks : conn'[t] \in Embedding => conn[t] \in Embedding
        BY <2>1 DEF Connect, Speak, RuntimeTypes, ConnStates, Embedding
    <3>2. WaitingRun'
        BY <3>1, StillRunning DEF WaitingRun
    <3> QED BY <3>1, <3>2 DEF RuntimeTypes, StopsInOrder, poolVars, runtime
  <2>2. CASE AcceptLoop
      BY <2>2, AcceptKeeps
  <2>3. CASE \E w \in Workers, t \in Tasks : Handle(w, t) \/ EndDrain(w, t)
      BY <2>3, HandleKeeps
  <2>4. CASE SetStopping \/ Main
      BY <2>4, MainKeeps
  <2>5. CASE PoolSteps /\ UNCHANGED Outside
    <3>1. WaitingRun'
        BY <2>5, StillRunning DEF WaitingRun, Outside
    <3>2. stage' = stage \/ (stage \in {"stopping", "notified"} /\ stage' \in {"notified", "joined"})
        BY <2>5 DEF PoolSteps, Work, Leave, Wait, Take, WakeUnasked, Notify, NotifyOne, NotifyAll, Join
    <3> QED BY <2>5, <3>1, <3>2 DEF RuntimeTypes, StopsInOrder, Outside, runtime
  <2>6. CASE UNCHANGED OutsideEmbed
    <3>1. WaitingRun'
        BY <2>6, StillRunning DEF WaitingRun, OutsideEmbed
    <3> QED BY <2>6, <3>1 DEF RuntimeTypes, StopsInOrder, OutsideEmbed, poolVars, runtime
  <2>7. CASE UNCHANGED vars
    <3>1. UNCHANGED OutsideEmbed
        BY <2>7 DEF vars, OutsideEmbed
    <3> QED BY <2>6, <3>1
  <2> QED BY <2>1, <2>2, <2>3, <2>4, <2>5, <2>6, <2>7 DEF Next
<1> QED BY <1>1, <1>2

-----------------------------------------------------------------------------
\* The pool of handlers, as the process uses it, is the pool of ThreadPool: what is proved of
\* that one holds here.
THEOREM RuntimeUsesPool == Spec => PoolSpec
<1>1. Init => PoolInit
    BY DEF Init
<1> QED BY <1>1, PoolStep, PTL DEF Spec, PoolSpec

\* No connection is dropped between accept and handler, or handled twice.
THEOREM RuntimeLosesNoTask == Spec => [](EachTaskIsSomewhere /\ NoneLost)
BY RuntimeUsesPool, NoTaskLostOrDoubled, ShutdownRunsAll, PTL

\* No connection waits in the queue while all threads sleep and nobody is to wake one.
THEOREM RuntimeWakesEnough == Spec => []NoLostWakeup
BY RuntimeUsesPool, WakeupsSuffice, PTL

\* When the server is stopped no handler runs or is still to run, searches and drains that
\* wait for embeddings included.
THEOREM RequestsEndFirst == Spec => []RequestsEndBeforeStop
<1>1. RuntimeInv => RequestsEndBeforeStop
  <2> SUFFICES ASSUME RuntimeInv, main \in {"stopped", "destroyed", "exited"}
               PROVE  Queued \cup Running = {} /\ \A t \in Tasks : conn[t] \notin {"embed", "drain"}
      BY DEF RequestsEndBeforeStop
  <2>1. \A w \in Workers : worker[w] = Gone
      BY DEF RuntimeInv, StopsInOrder, PoolInv, GoneOnlyWhenEmpty
  <2>2. queue = <<>>
      BY <2>1, ThreadPoolAssumption DEF RuntimeInv, PoolInv, GoneOnlyWhenEmpty
  <2>3. Queued = {} /\ Running = {}
      BY <2>1, <2>2, StatesDiffer DEF Queued, Running
  <2> QED BY <2>3 DEF RuntimeInv, WaitingRun, Embedding
<1> QED BY <1>1, RuntimeInvInit, RuntimeInvNext, PTL DEF Spec

\* While the accept thread has a connection to submit, the pool has not been told to stop.
THEOREM StopTurnsNoneAway == Spec => []NoneTurnedAwayByStop
<1>1. RuntimeInv => NoneTurnedAwayByStop
  <2> SUFFICES ASSUME RuntimeInv, acceptor.at = "run" PROVE stage = "open"
      BY DEF NoneTurnedAwayByStop
  <2>1. acceptor # Gone
      BY StatesDiffer
  <2> QED BY <2>1 DEF RuntimeInv, RuntimeTypes, StopsInOrder, MainStages
<1> QED BY <1>1, RuntimeInvInit, RuntimeInvNext, PTL DEF Spec

-----------------------------------------------------------------------------
(***************************************************************************)
(* The server's pool of embeddings.                                        *)
(***************************************************************************)
\* Whatever the process does, the server's pool takes a step of a pool or none.
LEMMA EmbedStep == [Next]_vars => [Embed!PoolNext]_(Embed!poolVars)
<1> SUFFICES ASSUME [Next]_vars PROVE Embed!PoolNext \/ UNCHANGED embedVars
    BY DEF embedVars, Embed!poolVars
<1>1. CASE \E t \in Tasks : Connect(t) \/ Speak(t)
    BY <1>1 DEF Connect, Speak
<1>2. CASE AcceptLoop
    BY <1>2 DEF AcceptLoop, EndAccept, Accept, SubmitClient
<1>3. CASE \E w \in Workers, t \in Tasks : Handle(w, t) \/ EndDrain(w, t)
  <2>1. PICK w \in Workers, t \in Tasks : Handle(w, t) \/ EndDrain(w, t)
      BY <1>3
  <2>2. Embed!Submit(t) \/ UNCHANGED embedVars
      BY <2>1 DEF Handle, Answer, Throw, Search, AnswerSearch, Drain, EndDrain, Close
  <2> QED BY <2>2 DEF Embed!PoolNext
<1>4. CASE SetStopping \/ Main
    BY <1>4 DEF SetStopping, Main, CloseListener, JoinAcceptor, ShutdownPool, StopServer,
                DestroyServices, Exit, Embed!PoolNext
<1>5. CASE PoolSteps /\ UNCHANGED Outside
    BY <1>5 DEF Outside
<1>6. CASE EmbedSteps /\ UNCHANGED OutsideEmbed
    BY <1>6 DEF EmbedSteps, Embed!PoolNext
<1>7. CASE UNCHANGED vars
    BY <1>7 DEF vars
<1> QED BY <1>1, <1>2, <1>3, <1>4, <1>5, <1>6, <1>7 DEF Next

\* The server's pool of embeddings, as the process uses it, is the pool of ThreadPool:
\* handlers submit to it, the destructor of the server shuts it down, and nothing else
\* touches it.
THEOREM RuntimeUsesEmbedPool == Spec => Embed!PoolSpec
<1>1. Init => Embed!PoolInit
    BY DEF Init
<1> QED BY <1>1, EmbedStep, PTL DEF Spec, Embed!PoolSpec

\* What is queued or run has been accepted: all that its types need to be kept.
EmbedInv ==
    /\ Embed!PoolTypeOK
    /\ \A i \in DOMAIN eQueue : eQueue[i] \in eAccepted
    /\ \A w \in Embedders, t \in Tasks : eWorker[w] = Embed!Runs(t) => t \in eAccepted

\* A thread's states are four different ones.
LEMMA EmbedStatesDiffer ==
    /\ Embed!Loop # Embed!Waits /\ Embed!Loop # Embed!Gone /\ Embed!Waits # Embed!Gone
    /\ \A t : /\ Embed!Runs(t) # Embed!Loop /\ Embed!Runs(t) # Embed!Waits
              /\ Embed!Runs(t) # Embed!Gone
    /\ \A s, t : Embed!Runs(s) = Embed!Runs(t) => s = t
<1>1. Embed!Loop.at = "loop" /\ Embed!Waits.at = "wait" /\ Embed!Gone.at = "gone"
    BY DEF Embed!Loop, Embed!Waits, Embed!Gone
<1>2. \A t : Embed!Runs(t).at = "run" /\ Embed!Runs(t).task = t
    BY DEF Embed!Runs
<1> QED BY <1>1, <1>2

\* One thread goes on to wait, to loop or to leave.
LEMMA EmbedThreadKeeps ==
    ASSUME EmbedInv, NEW w \in Embedders, NEW s \in {Embed!Loop, Embed!Waits, Embed!Gone},
           eWorker' = [eWorker EXCEPT ![w] = s],
           UNCHANGED <<eQueue, eAccepted, eDone, eStage>>, eSignals' \subseteq eAccepted
    PROVE  EmbedInv'
<1>1. eWorker' \in [Embedders -> {Embed!Loop, Embed!Waits, Embed!Gone} \cup {Embed!Runs(t) : t \in Tasks}]
    BY DEF EmbedInv, Embed!PoolTypeOK
<1>2. \A v \in Embedders, t \in Tasks : eWorker'[v] = Embed!Runs(t) => eWorker[v] = Embed!Runs(t)
    BY EmbedStatesDiffer DEF EmbedInv, Embed!PoolTypeOK
<1> QED BY <1>1, <1>2 DEF EmbedInv, Embed!PoolTypeOK

\* A pool's step keeps its types.
LEMMA EmbedInvNext == EmbedInv /\ [Next]_vars => EmbedInv'
<1> SUFFICES ASSUME EmbedInv, [Next]_vars PROVE EmbedInv'
    OBVIOUS
<1>1. Embed!PoolNext \/ UNCHANGED embedVars
    BY EmbedStep DEF embedVars, Embed!poolVars
<1>2. CASE UNCHANGED embedVars
    BY <1>2 DEF embedVars, EmbedInv, Embed!PoolTypeOK
<1>3. ASSUME NEW t \in Tasks, Embed!NotifyOne(t) PROVE EmbedInv'
  <2>1. CASE UNCHANGED eWorker
      BY <1>3, <2>1 DEF Embed!NotifyOne, EmbedInv, Embed!PoolTypeOK
  <2>2. CASE \E w \in Embed!Waiting : eWorker' = [eWorker EXCEPT ![w] = Embed!Loop]
    <3>1. eSignals' \subseteq eAccepted /\ UNCHANGED <<eQueue, eAccepted, eDone, eStage>>
        BY <1>3 DEF Embed!NotifyOne, EmbedInv, Embed!PoolTypeOK
    <3> QED BY <2>2, <3>1, EmbedThreadKeeps DEF Embed!Waiting
  <2> QED BY <1>3, <2>1, <2>2 DEF Embed!NotifyOne
<1>4. ASSUME NEW t \in Tasks, Embed!Submit(t) PROVE EmbedInv'
  <2>1. eQueue' \in Seq(Tasks) /\ Len(eQueue') <= EmbedCapacity
      BY <1>4, HttpRuntimeAssumption DEF Embed!Submit, Embed!Refuses, EmbedInv, Embed!PoolTypeOK
  <2>2. \A i \in DOMAIN eQueue' : eQueue'[i] \in eAccepted'
      BY <1>4 DEF Embed!Submit, EmbedInv, Embed!PoolTypeOK
  <2> QED BY <1>4, <2>1, <2>2 DEF Embed!Submit, EmbedInv, Embed!PoolTypeOK
<1>5. ASSUME NEW w \in Embedders, Embed!Leave(w) \/ Embed!Wait(w) \/ Embed!WakeUnasked(w)
      PROVE  EmbedInv'
  <2>1. eSignals' \subseteq eAccepted /\ UNCHANGED <<eQueue, eAccepted, eDone, eStage>>
      BY <1>5 DEF Embed!Leave, Embed!Wait, Embed!WakeUnasked, EmbedInv, Embed!PoolTypeOK
  <2> QED BY <1>5, <2>1, EmbedThreadKeeps DEF Embed!Leave, Embed!Wait, Embed!WakeUnasked
<1>6. ASSUME NEW w \in Embedders, Embed!Take(w) PROVE EmbedInv'
  <2>1. eQueue \in Seq(Tasks) /\ eQueue # <<>> /\ Len(eQueue) \in Nat
      BY <1>6 DEF Embed!Take, EmbedInv, Embed!PoolTypeOK
  <2>2. Head(eQueue) \in eAccepted /\ Head(eQueue) \in Tasks
      BY <2>1 DEF EmbedInv
  <2>3. /\ eQueue' \in Seq(Tasks) /\ Len(eQueue') <= EmbedCapacity
        /\ \A i \in DOMAIN eQueue' : eQueue'[i] \in eAccepted
    <3>1. eQueue' = Tail(eQueue) /\ Len(eQueue') = Len(eQueue) - 1
        BY <1>6, <2>1 DEF Embed!Take
    <3>2. \A i \in DOMAIN eQueue' : i + 1 \in DOMAIN eQueue /\ eQueue'[i] = eQueue[i + 1]
        BY <2>1, <3>1
    <3> QED BY <2>1, <3>1, <3>2, HttpRuntimeAssumption DEF EmbedInv, Embed!PoolTypeOK
  <2>4. eWorker' \in [Embedders -> {Embed!Loop, Embed!Waits, Embed!Gone} \cup {Embed!Runs(t) : t \in Tasks}]
      BY <1>6, <2>2 DEF Embed!Take, EmbedInv, Embed!PoolTypeOK
  <2>5. \A v \in Embedders, t \in Tasks :
            eWorker'[v] = Embed!Runs(t) => eWorker[v] = Embed!Runs(t) \/ t = Head(eQueue)
      BY <1>6, EmbedStatesDiffer DEF Embed!Take, EmbedInv, Embed!PoolTypeOK
  <2> QED BY <1>6, <2>2, <2>3, <2>4, <2>5 DEF Embed!Take, EmbedInv, Embed!PoolTypeOK
<1>7. ASSUME NEW w \in Embedders, NEW t \in Tasks, Embed!Finish(w, t) PROVE EmbedInv'
  <2>1. t \in eAccepted
      BY <1>7 DEF Embed!Finish, EmbedInv
  <2>2. eWorker' \in [Embedders -> {Embed!Loop, Embed!Waits, Embed!Gone} \cup {Embed!Runs(s) : s \in Tasks}]
      BY <1>7 DEF Embed!Finish, EmbedInv, Embed!PoolTypeOK
  <2>3. \A v \in Embedders, s \in Tasks :
            eWorker'[v] = Embed!Runs(s) => eWorker[v] = Embed!Runs(s)
      BY <1>7, EmbedStatesDiffer DEF Embed!Finish, EmbedInv, Embed!PoolTypeOK
  <2> QED BY <1>7, <2>1, <2>2, <2>3 DEF Embed!Finish, EmbedInv, Embed!PoolTypeOK
<1>8. CASE Embed!NotifyAll
  <2>1. /\ eWorker' \in [Embedders -> {Embed!Loop, Embed!Waits, Embed!Gone} \cup {Embed!Runs(s) : s \in Tasks}]
        /\ \A v \in Embedders, s \in Tasks :
              eWorker'[v] = Embed!Runs(s) => eWorker[v] = Embed!Runs(s)
      BY <1>8, EmbedStatesDiffer DEF Embed!NotifyAll, EmbedInv, Embed!PoolTypeOK
  <2> QED BY <1>8, <2>1 DEF Embed!NotifyAll, EmbedInv, Embed!PoolTypeOK
<1>9. CASE Embed!BeginShutdown \/ Embed!Join
    BY <1>9 DEF Embed!BeginShutdown, Embed!Join, EmbedInv, Embed!PoolTypeOK
<1> QED BY <1>1, <1>2, <1>3, <1>4, <1>5, <1>6, <1>7, <1>8, <1>9
        DEF Embed!PoolNext, Embed!Notify, Embed!Work

\* The variables of the process have their types, both pools' included; neither queue
\* exceeds its capacity.
THEOREM RuntimeTypeCorrect == Spec => []TypeOK
<1> DEFINE Inv == RuntimeInv /\ EmbedInv /\ spoken \subseteq Tasks
<1>1. Init => Inv
  <2> SUFFICES ASSUME Init PROVE EmbedInv /\ spoken \subseteq Tasks
      BY RuntimeInvInit
  <2>1. /\ eQueue = <<>> /\ eWorker = [w \in Embedders |-> Embed!Loop]
        /\ eAccepted = {} /\ eDone = {} /\ eSignals = {} /\ eStage = "open"
      BY DEF Init, Embed!PoolInit
  <2>2. eQueue \in Seq(Tasks) /\ Len(eQueue) <= EmbedCapacity /\ DOMAIN eQueue = {}
      BY <2>1, HttpRuntimeAssumption
  <2> QED BY <2>1, <2>2, EmbedStatesDiffer DEF Init, EmbedInv, Embed!PoolTypeOK
<1>2. Inv /\ [Next]_vars => Inv'
  <2> SUFFICES ASSUME Inv, [Next]_vars PROVE spoken' \subseteq Tasks
      BY RuntimeInvNext, EmbedInvNext
  <2>1. UNCHANGED spoken \/ \E t \in Tasks : spoken' = spoken \cup {t}
      BY DEF Next, vars, Connect, Speak, AcceptLoop, EndAccept, Accept, SubmitClient, Handle, Answer,
             Throw, Search, AnswerSearch, Drain, EndDrain, Close, SetStopping, Main, CloseListener, JoinAcceptor,
             ShutdownPool, StopServer, DestroyServices, Exit, Outside, OutsideEmbed
  <2> QED BY <2>1
<1>3. Inv => TypeOK
    BY DEF RuntimeInv, PoolInv, RuntimeTypes, EmbedInv, TypeOK
<1> QED BY <1>1, <1>2, <1>3, PTL DEF Spec
=============================================================================
