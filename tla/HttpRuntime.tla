----------------------------- MODULE HttpRuntime -----------------------------
(***************************************************************************)
(* The life of the gateway process as its connections see it               *)
(* (src/gateway/http_runtime.cpp, main.cpp): a thread accepts connections  *)
(* and submits each to a pool (ThreadPool, extended here); a request for a *)
(* search waits, for a limited time, for an embedding from the server's    *)
(* own pool (src/gateway/semantic_search_service.cpp); one that writes a   *)
(* document drains the outbox itself, for as long as the embeddings of all *)
(* pending tasks take (src/gateway/server.cpp); and the main thread stops  *)
(* all of it in order.                                                     *)
(***************************************************************************)
EXTENDS ThreadPool

CONSTANTS
    Embedders,      \* the threads of the server's pool
    EmbedCapacity,  \* and the capacity of its queue
    Backlog         \* connections the kernel keeps for accept

\* The server's pool is one like any other.
ASSUME HttpRuntimeAssumption ==
    /\ IsFiniteSet(Embedders) /\ Embedders # {}
    /\ EmbedCapacity \in Nat \ {0}

VARIABLES
    conn,       \* each connection, by the task that is to handle it
    spoken,     \* the connections whose client has sent a request, or has gone
    acceptor,   \* what the accept thread is doing: it loops, has a connection, or is gone
    main,       \* what the main thread is doing
    eQueue, eWorker, eAccepted, eDone, eSignals, eStage  \* the server's pool

Embed == INSTANCE ThreadPool WITH
    Workers <- Embedders, Capacity <- EmbedCapacity,
    queue <- eQueue, worker <- eWorker, accepted <- eAccepted, done <- eDone,
    signals <- eSignals, stage <- eStage

embedVars == <<eQueue, eWorker, eAccepted, eDone, eSignals, eStage>>
runtime == <<acceptor, main>>
vars == <<poolVars, embedVars, conn, spoken, runtime>>

\* new: not made.  backlog: the kernel has it.  open: the process has it.  embed: its
\* handler waits for an embedding.  drain: its handler drains the outbox.  thrown: the
\* handler ended without closing it.  reset: the listening socket was closed over it.
ConnStates == {"new", "backlog", "open", "embed", "drain", "closed", "thrown", "reset"}

\* The steps of Stop and of the destructors after it.
MainStages == {"serving", "stopping", "unlistened", "unaccepting", "draining", "stopped",
               "destroyed", "exited"}

TypeOK ==
    /\ PoolTypeOK
    /\ Embed!PoolTypeOK
    /\ conn \in [Tasks -> ConnStates]
    /\ spoken \subseteq Tasks
    /\ acceptor \in {Loop, Gone} \cup {Runs(t) : t \in Tasks}
    /\ main \in MainStages

Listening == main \in {"serving", "stopping"}

Handler(w, t, state) == worker[w] = Runs(t) /\ conn[t] = state

-----------------------------------------------------------------------------
(***************************************************************************)
(* The clients and the kernel.                                             *)
(***************************************************************************)
Connect(t) ==
    /\ Listening
    /\ conn[t] = "new"
    /\ Cardinality({u \in Tasks : conn[u] = "backlog"}) < Backlog
    /\ conn' = [conn EXCEPT ![t] = "backlog"]
    /\ UNCHANGED <<poolVars, embedVars, spoken, runtime>>

Speak(t) ==
    /\ conn[t] = "open" /\ t \notin spoken
    /\ spoken' = spoken \cup {t}
    /\ UNCHANGED <<poolVars, embedVars, conn, runtime>>

-----------------------------------------------------------------------------
(***************************************************************************)
(* AcceptLoop.  Whether stopping_ is set is asked before accept and when   *)
(* accept fails, which it does once the socket has been shut down.  The    *)
(* thread has called notify_one before it loops: "signals = {}".           *)
(***************************************************************************)
Accept(t) ==
    /\ acceptor = Loop /\ signals = {}
    /\ conn[t] = "backlog"
    /\ conn' = [conn EXCEPT ![t] = "open"]
    /\ acceptor' = Runs(t)
    /\ UNCHANGED <<poolVars, embedVars, spoken, main>>

EndAccept ==
    /\ acceptor = Loop /\ signals = {}
    /\ main # "serving"
    /\ acceptor' = Gone
    /\ UNCHANGED <<poolVars, embedVars, conn, spoken, main>>

\* What Submit returns is not looked at: a connection the pool refuses stays open.
SubmitClient(t) ==
    /\ acceptor = Runs(t)
    /\ IF Refuses THEN UNCHANGED poolVars ELSE Submit(t)
    /\ acceptor' = Loop
    /\ UNCHANGED <<embedVars, conn, spoken, main>>

-----------------------------------------------------------------------------
(***************************************************************************)
(* HandleClient, on a thread of the pool.                                  *)
(***************************************************************************)
Close(w, t) ==
    /\ conn' = [conn EXCEPT ![t] = "closed"]
    /\ Finish(w, t)
    /\ UNCHANGED <<embedVars, spoken, runtime>>

\* The request has been read, or the connection ended.
MayAnswer(w, t) == Handler(w, t, "open") /\ t \in spoken

\* Anything but a search, a document or a migrated record is answered at once; a client
\* that has gone is not.
Answer(w, t) ==
    /\ MayAnswer(w, t)
    /\ Close(w, t)

\* A content-length that is no number: stoul throws and the task's future keeps it.
Throw(w, t) ==
    /\ MayAnswer(w, t)
    /\ conn' = [conn EXCEPT ![t] = "thrown"]
    /\ Finish(w, t)
    /\ UNCHANGED <<embedVars, spoken, runtime>>

\* A search.  When the pool refuses the embedding the future throws as it is asked, and
\* the keywords are searched instead.
Search(w, t) ==
    /\ MayAnswer(w, t)
    /\ IF Embed!Refuses
       THEN Close(w, t)
       ELSE /\ Embed!Submit(t)
            /\ conn' = [conn EXCEPT ![t] = "embed"]
            /\ UNCHANGED <<poolVars, spoken, runtime>>

\* Mutant: the search waits for the embedding however long it takes.
AnswerSearchWaits(w, t) ==
    /\ Handler(w, t, "embed")
    /\ t \in eDone
    /\ Close(w, t)

\* With the embedding, or without it once ai_timeout_ms is over.
AnswerSearch(w, t) ==
    /\ Handler(w, t, "embed") /\ t \notin eSignals
    /\ Close(w, t)

\* A document, or a migrated record that is to be searched: once it is stored and its task
\* is in the outbox the handler calls DrainOnce, on its own thread.
Drain(w, t) ==
    /\ MayAnswer(w, t)
    /\ conn' = [conn EXCEPT ![t] = "drain"]
    /\ UNCHANGED <<poolVars, embedVars, spoken, runtime>>

\* The drain has embedded all it found, which may take for ever: no embedding is timed.
EndDrain(w, t) ==
    /\ Handler(w, t, "drain")
    /\ Close(w, t)

Handle(w, t) ==
    Answer(w, t) \/ Throw(w, t) \/ Search(w, t) \/ AnswerSearch(w, t) \/ Drain(w, t)

-----------------------------------------------------------------------------
(***************************************************************************)
(* The main thread: Stop after SIGTERM, and the destructors.               *)
(***************************************************************************)
Goes(from, to) ==
    /\ main = from
    /\ main' = to
    /\ UNCHANGED acceptor

SetStopping ==
    /\ Goes("serving", "stopping")
    /\ UNCHANGED <<poolVars, embedVars, conn, spoken>>

CloseListener ==
    /\ Goes("stopping", "unlistened")
    /\ conn' = [t \in Tasks |-> IF conn[t] = "backlog" THEN "reset" ELSE conn[t]]
    /\ UNCHANGED <<poolVars, embedVars, spoken>>

\* Mutant: the pool is shut down without waiting for the accept thread.
JoinAcceptorNot ==
    /\ Goes("unlistened", "unaccepting")
    /\ UNCHANGED <<poolVars, embedVars, conn, spoken>>

JoinAcceptor ==
    /\ Goes("unlistened", "unaccepting")
    /\ acceptor = Gone
    /\ UNCHANGED <<poolVars, embedVars, conn, spoken>>

ShutdownPool ==
    /\ Goes("unaccepting", "draining")
    /\ BeginShutdown
    /\ UNCHANGED <<embedVars, conn, spoken>>

\* Mutant: the server is stopped while the pool drains.
StopServerEarly ==
    /\ Goes("draining", "stopped")
    /\ UNCHANGED <<poolVars, embedVars, conn, spoken>>

StopServer ==
    /\ Goes("draining", "stopped")
    /\ stage = "joined"
    /\ UNCHANGED <<poolVars, embedVars, conn, spoken>>

\* Stop of the server, which drains the outbox itself (server.cpp), has returned.  The
\* services go before the pool that runs their embeddings.
DestroyServices ==
    /\ Goes("stopped", "destroyed")
    /\ Embed!BeginShutdown
    /\ UNCHANGED <<poolVars, conn, spoken>>

Exit ==
    /\ Goes("destroyed", "exited")
    /\ eStage = "joined"
    /\ UNCHANGED <<poolVars, embedVars, conn, spoken>>

Main == CloseListener \/ JoinAcceptor \/ ShutdownPool \/ StopServer \/ DestroyServices \/ Exit

-----------------------------------------------------------------------------
Outside == <<embedVars, conn, spoken, runtime>>
OutsideEmbed == <<poolVars, conn, spoken, runtime>>

PoolSteps ==
    \/ \E w \in Workers : Work(w) \/ WakeUnasked(w)
    \/ Notify \/ NotifyAll \/ Join

EmbedSteps ==
    \/ \E w \in Embedders : Embed!Work(w) \/ Embed!WakeUnasked(w) \/ \E t \in Tasks : Embed!Finish(w, t)
    \/ Embed!Notify \/ Embed!NotifyAll \/ Embed!Join

AcceptLoop == EndAccept \/ \E t \in Tasks : Accept(t) \/ SubmitClient(t)

Init ==
    /\ PoolInit
    /\ Embed!PoolInit
    /\ conn = [t \in Tasks |-> "new"]
    /\ spoken = {}
    /\ acceptor = Loop
    /\ main = "serving"

Next ==
    \/ \E t \in Tasks : Connect(t) \/ Speak(t)
    \/ AcceptLoop
    \/ \E w \in Workers, t \in Tasks : Handle(w, t) \/ EndDrain(w, t)
    \/ SetStopping \/ Main
    \/ PoolSteps /\ UNCHANGED Outside
    \/ EmbedSteps /\ UNCHANGED OutsideEmbed

Spec == Init /\ [][Next]_vars

-----------------------------------------------------------------------------
\* Threads are scheduled, and a client sends its request or goes.  That an embedding is
\* ever done is not assumed, neither a search's nor one of a drain (EndDrain, and
\* DestroyServices, which waits for the server's own), nor that anyone stops the process.
Fairness ==
    /\ WF_vars(\E t \in Tasks : Speak(t))
    /\ WF_vars(AcceptLoop \/ (Notify /\ UNCHANGED Outside))
    /\ \A w \in Workers :
          WF_vars((Work(w) /\ UNCHANGED Outside) \/ \E t \in Tasks : Handle(w, t))
    /\ WF_vars(Embed!Notify /\ UNCHANGED OutsideEmbed)
    /\ WF_vars(\/ CloseListener \/ JoinAcceptor \/ ShutdownPool \/ StopServer
               \/ (NotifyAll \/ Join) /\ UNCHANGED Outside)

FairSpec == Spec /\ Fairness

-----------------------------------------------------------------------------
\* No handler runs, or is still to run, once the server it calls is being stopped: the
\* order of Stop is what lets the outbox, the migration and the stores be taken down
\* without looking at who uses them.
RequestsEndBeforeStop ==
    main \in {"stopped", "destroyed", "exited"} =>
        /\ Queued \cup Running = {}
        /\ \A t \in Tasks : conn[t] \notin {"embed", "drain"}

\* No connection is accepted for a pool that already refuses because it stops.
NoneTurnedAwayByStop == acceptor.at = "run" => stage = "open"

\* A drain ends unless one of its embeddings never does (DrainOnce).
DrainEnds(t) == []<>(conn[t] # "drain")
SomeThreadDrainsNot == []<>(\E w \in Workers : \A t \in Tasks : ~Handler(w, t, "drain"))

\* Every connection whose handler was accepted by the pool is answered and closed, even
\* if no embedding a search asks for ever arrives and all the server's own threads are
\* stuck.  The exceptions are a request that makes its handler throw, one whose own drain
\* never ends, and the case that drains without end hold every thread of the pool.
AcceptedIsAnswered ==
    \A t \in Tasks :
        DrainEnds(t) /\ SomeThreadDrainsNot =>
            (t \in accepted ~> conn[t] \in {"closed", "thrown"})

\* Once Stop is called it gets as far as stopping the server, whichever threads sleep,
\* wait for a client or wait for a search's embedding; only a drain that never ends keeps
\* it from there.
StopGetsThrough ==
    (\A t \in Tasks : DrainEnds(t)) =>
        (main = "stopping" ~> main \in {"stopped", "destroyed", "exited"})
=============================================================================
