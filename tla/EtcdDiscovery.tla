---------------------------- MODULE EtcdDiscovery ----------------------------
(***************************************************************************)
(* How one node learns of the others (src/infra/etcd_discovery.cpp): it    *)
(* registers itself under a lease, a thread lists the nodes and watches    *)
(* for changes, and the server that started all this stops it again        *)
(* (src/gateway/server.cpp).  A step is what a thread does between two     *)
(* calls of etcd, or under client_mutex_.  etcd is external: a set of      *)
(* nodes that others change, a watcher that reports changes or breaks.     *)
(***************************************************************************)
EXTENDS ClusterRouting

CONSTANTS
    Self,         \* this node
    StaticNodes,  \* the nodes cluster.nodes names
    Unreadable,   \* nodes whose value in etcd does not parse
    MaxChanges,   \* bound on what other nodes do
    MaxFaults     \* bound on failing calls, broken watches and lost leases

ASSUME DiscoveryAssumption ==
    /\ Self \in Nodes
    /\ StaticNodes \subseteq Nodes /\ StaticNodes # {}
    /\ Unreadable \subseteq Nodes
    /\ MaxChanges \in Nat /\ MaxFaults \in Nat

VARIABLES
    keys,      \* the nodes etcd has
    ring,      \* the nodes the router's ring was built from
    main,      \* how far the server's thread is
    watch,     \* where the watch thread is in WatchLoop
    callback,  \* what the watcher's callback is doing
    listed,    \* what the last ls of each of the three returned, until it is applied
    watcher,   \* the watcher, if there is one
    events,    \* changes it has still to report
    mutex,     \* who holds client_mutex_
    degraded,  \* status_.degraded
    keepalive_error,  \* status_.keepalive_error_count > 0
    missed,    \* a change may have been missed: see MayMiss
    changes,
    faults

process == <<main, watch, callback, listed>>
status == <<degraded, keepalive_error>>
bounds == <<changes, faults>>
vars == <<keys, ring, process, watcher, events, mutex, status, missed, bounds>>

MainStages == {"down", "static", "registered", "listed", "loaded", "spawned", "running",
               "stopping", "cancelling", "releasing", "joining", "stopped", "exited", "crashed"}

WatchStages == {"none", "test", "list", "rebuild", "lock", "create", "wait", "ended",
                "backoff", "gone"}

Readers == {"main", "watch", "callback"}

TypeOK ==
    /\ keys \subseteq Nodes /\ ring \subseteq Nodes
    /\ main \in MainStages
    /\ watch \in WatchStages
    /\ callback \in {"idle", "rebuild"}
    /\ listed \in [Readers -> SUBSET Nodes]
    /\ watcher \in {"none", "up", "broken", "cancelled"}
    /\ events \in 0..(MaxChanges + 1)
    /\ mutex \in {"free", "watch"}
    /\ degraded \in BOOLEAN /\ keepalive_error \in BOOLEAN /\ missed \in BOOLEAN
    /\ changes \in 0..MaxChanges
    /\ faults \in 0..MaxFaults

stopping == main \in {"stopping", "cancelling", "releasing", "joining", "stopped", "exited"}

Alive == main # "crashed"

Fault == faults < MaxFaults /\ faults' = faults + 1

\* Values that do not parse are left out, with a warning.
Readable == keys \ Unreadable

-----------------------------------------------------------------------------
(***************************************************************************)
(* etcd and the other nodes.  A change is reported to a watcher that is    *)
(* up; one that falls between the list of the watch thread and its new     *)
(* watcher is reported to nobody.                                          *)
(***************************************************************************)
MayMiss == watch \in {"rebuild", "lock", "create"}

Change(new) ==
    /\ keys' = new
    /\ events' = IF watcher = "up" /\ new # keys THEN events + 1 ELSE events
    /\ missed' = (missed \/ MayMiss)

\* Another node registers, or stops or loses its lease.
OtherNode(n) ==
    /\ n # Self
    /\ changes < MaxChanges /\ changes' = changes + 1
    /\ Change(IF n \in keys THEN keys \ {n} ELSE keys \cup {n})
    /\ UNCHANGED <<ring, process, watcher, mutex, status, faults>>

\* The lease could not be kept alive and the callback of KeepAlive is called.
KeepAliveError ==
    /\ main \in {"registered", "listed", "loaded", "spawned", "running"}
    /\ ~ keepalive_error
    /\ Fault
    /\ degraded' = TRUE
    /\ keepalive_error' = TRUE
    /\ UNCHANGED <<keys, ring, process, watcher, events, mutex, missed, changes>>

\* Nobody asks for another lease.
LeaseExpires ==
    /\ keepalive_error
    /\ Self \in keys
    /\ Change(keys \ {Self})
    /\ UNCHANGED <<ring, process, watcher, mutex, status, bounds>>

\* The stream ends, and with it what it had still to report.  The callback may be told.
BreakWatch ==
    /\ watcher = "up"
    /\ Fault
    /\ watcher' = "broken"
    /\ events' = 0
    /\ degraded' \in {degraded, degraded \/ ~ stopping}
    /\ UNCHANGED <<keys, ring, process, mutex, keepalive_error, missed, changes>>

-----------------------------------------------------------------------------
(***************************************************************************)
(* ReloadNodes, in two steps: the list, and RebuildRing with RecordSuccess. *)
(***************************************************************************)
List(reader) == listed' = [listed EXCEPT ![reader] = Readable]

\* Mutant: a success clears the flag whatever the lease does.
RecordSuccessAnyway == degraded' = FALSE

RecordSuccess == degraded' = keepalive_error

RecordError == degraded' = TRUE

RecordErrorUnlessStopping == degraded' = (degraded \/ ~ stopping)

RebuildRing(reader) ==
    /\ ring' = listed[reader]
    /\ listed' = [listed EXCEPT ![reader] = {}]
    /\ RecordSuccess

-----------------------------------------------------------------------------
(***************************************************************************)
(* Start, on the server's thread.                                          *)
(***************************************************************************)
Goes(from, to) == main = from /\ main' = to

\* Connect, be granted a lease, and set the node's key under it.
Register ==
    /\ Goes("down", "registered")
    /\ Change(keys \cup {Self})
    /\ UNCHANGED <<ring, watch, callback, listed, watcher, mutex, status, bounds>>

\* The server lets go of the discovery and keeps to the static ring.
RegisterFails ==
    /\ Goes("down", "static")
    /\ Fault
    /\ RecordError
    /\ UNCHANGED <<keys, ring, watch, callback, listed, watcher, events, mutex,
                   keepalive_error, missed, changes>>

ListAtStart ==
    /\ Goes("registered", "listed")
    /\ List("main")
    /\ UNCHANGED <<keys, ring, watch, callback, watcher, events, mutex, status, missed, bounds>>

\* Only a warning.
ListAtStartFails ==
    /\ Goes("registered", "loaded")
    /\ Fault
    /\ UNCHANGED <<keys, ring, watch, callback, listed, watcher, events, mutex, status,
                   missed, changes>>

RebuildAtStart ==
    /\ Goes("listed", "loaded")
    /\ RebuildRing("main")
    /\ UNCHANGED <<keys, watch, callback, watcher, events, mutex, keepalive_error, missed, bounds>>

SpawnWatchThread ==
    /\ Goes("loaded", "spawned")
    /\ watch' = "test"
    /\ UNCHANGED <<keys, ring, callback, listed, watcher, events, mutex, status, missed, bounds>>

Started ==
    /\ Goes("spawned", "running")
    /\ RecordSuccess
    /\ UNCHANGED <<keys, ring, watch, callback, listed, watcher, events, mutex,
                   keepalive_error, missed, bounds>>

Start == Register \/ ListAtStart \/ RebuildAtStart \/ SpawnWatchThread \/ Started

-----------------------------------------------------------------------------
(***************************************************************************)
(* WatchLoop.                                                              *)
(***************************************************************************)
Moves(from, to) == Alive /\ watch = from /\ watch' = to

TestStopping ==
    /\ Moves("test", IF stopping THEN "gone" ELSE "list")
    /\ UNCHANGED <<keys, ring, main, callback, listed, watcher, events, mutex, status,
                   missed, bounds>>

ListInLoop ==
    /\ Moves("list", "rebuild")
    /\ List("watch")
    /\ missed' = FALSE
    /\ UNCHANGED <<keys, ring, main, callback, watcher, events, mutex, status, bounds>>

\* The loop goes on to watch, without a list.
ListInLoopFails ==
    /\ Moves("list", "lock")
    /\ Fault
    /\ RecordError
    /\ missed' = TRUE
    /\ UNCHANGED <<keys, ring, main, callback, listed, watcher, events, mutex,
                   keepalive_error, changes>>

RebuildInLoop ==
    /\ Moves("rebuild", "lock")
    /\ RebuildRing("watch")
    /\ UNCHANGED <<keys, main, callback, watcher, events, mutex, keepalive_error, missed, bounds>>

LockForWatcher ==
    /\ mutex = "free"
    /\ Moves("lock", IF stopping THEN "gone" ELSE "create")
    /\ mutex' = IF stopping THEN "free" ELSE "watch"
    /\ UNCHANGED <<keys, ring, main, callback, listed, watcher, events, status, missed, bounds>>

\* Mutant: the mutex is kept while the thread waits.
CreateWatcherKeepsMutex ==
    /\ Moves("create", "wait")
    /\ watcher' = "up"
    /\ UNCHANGED <<keys, ring, main, callback, listed, events, mutex, status, missed, bounds>>

CreateWatcher ==
    /\ Moves("create", "wait")
    /\ watcher' = "up"
    /\ mutex' = "free"
    /\ UNCHANGED <<keys, ring, main, callback, listed, events, status, missed, bounds>>

\* The constructor throws.
CreateWatcherFails ==
    /\ Moves("create", "ended")
    /\ Fault
    /\ mutex' = "free"
    /\ RecordErrorUnlessStopping
    /\ UNCHANGED <<keys, ring, main, callback, listed, watcher, events, keepalive_error,
                   missed, changes>>

\* Wait returns once the watcher has ended and its callback has returned.
WaitEnds ==
    /\ watcher \in {"broken", "cancelled"} /\ callback = "idle"
    /\ Moves("wait", "ended")
    /\ UNCHANGED <<keys, ring, main, callback, listed, watcher, events, mutex, status,
                   missed, bounds>>

ResetWatcher ==
    /\ mutex = "free"
    /\ Moves("ended", IF stopping THEN "gone" ELSE "backoff")
    /\ watcher' = "none"
    /\ degraded' = (degraded \/ ~ stopping)
    /\ UNCHANGED <<keys, ring, main, callback, listed, events, mutex, keepalive_error,
                   missed, bounds>>

\* Mutant: the loop goes back to the watch and not to the list.
BackoffToWatch ==
    /\ Moves("backoff", "lock")
    /\ UNCHANGED <<keys, ring, main, callback, listed, watcher, events, mutex, status,
                   missed, bounds>>

EndBackoff ==
    /\ Moves("backoff", "test")
    /\ UNCHANGED <<keys, ring, main, callback, listed, watcher, events, mutex, status,
                   missed, bounds>>

WatchLoop ==
    \/ TestStopping \/ ListInLoop \/ RebuildInLoop \/ LockForWatcher \/ CreateWatcher
    \/ WaitEnds \/ ResetWatcher \/ EndBackoff

-----------------------------------------------------------------------------
(***************************************************************************)
(* The watcher's callback, called for one change after the other.  Mutant: *)
(* it is called again for a change it was called for already.              *)
(***************************************************************************)
TakeNoEvent ==
    /\ Alive
    /\ watcher = "up" /\ callback = "idle"
    /\ events' = events - 1

TakeEvent ==
    /\ Alive
    /\ watcher = "up" /\ callback = "idle"
    /\ events > 0 /\ events' = events - 1

ListOnEvent ==
    /\ TakeEvent
    /\ callback' = "rebuild"
    /\ List("callback")
    /\ missed' = FALSE
    /\ UNCHANGED <<keys, ring, main, watch, watcher, mutex, status, bounds>>

ListOnEventFails ==
    /\ TakeEvent
    /\ Fault
    /\ RecordErrorUnlessStopping
    /\ missed' = TRUE
    /\ UNCHANGED <<keys, ring, process, watcher, mutex, keepalive_error, changes>>

RebuildOnEvent ==
    /\ Alive
    /\ callback = "rebuild" /\ callback' = "idle"
    /\ RebuildRing("callback")
    /\ UNCHANGED <<keys, main, watch, watcher, events, mutex, keepalive_error, missed, bounds>>

Callback == ListOnEvent \/ RebuildOnEvent

-----------------------------------------------------------------------------
(***************************************************************************)
(* Stop, and what the server stops after it.                               *)
(***************************************************************************)
SetStopping ==
    /\ Goes("running", "stopping")
    /\ UNCHANGED <<keys, ring, watch, callback, listed, watcher, events, mutex, status,
                   missed, bounds>>

\* The pointer is read without the mutex: while the watch thread stores it, either value
\* may be read.
LookForWatcher ==
    /\ \E seen \in IF watch = "create" THEN BOOLEAN ELSE {watcher # "none"} :
        Goes("stopping", IF seen THEN "cancelling" ELSE "releasing")
    /\ UNCHANGED <<keys, ring, watch, callback, listed, watcher, events, mutex, status,
                   missed, bounds>>

\* A watcher reset between the look and the lock is called all the same.
CancelWatcher ==
    /\ mutex = "free"
    /\ Goes("cancelling", IF watcher = "none" THEN "crashed" ELSE "releasing")
    /\ watcher' = IF watcher = "none" THEN "none" ELSE "cancelled"
    /\ events' = 0
    /\ UNCHANGED <<keys, ring, watch, callback, listed, mutex, status, missed, bounds>>

\* The keep-alive is cancelled and the lease revoked; an error is not looked at.
RevokeLease ==
    /\ Goes("releasing", "joining")
    /\ \E new \in {keys, keys \ {Self}} : Change(new)
    /\ UNCHANGED <<ring, watch, callback, listed, watcher, mutex, status, bounds>>

\* Mutant: the watch thread is left to itself.
DetachWatchThread ==
    /\ Goes("joining", "stopped")
    /\ UNCHANGED <<keys, ring, watch, callback, listed, watcher, events, mutex, status,
                   missed, bounds>>

JoinWatchThread ==
    /\ watch = "gone"
    /\ Goes("joining", "stopped")
    /\ UNCHANGED <<keys, ring, watch, callback, listed, watcher, events, mutex, status,
                   missed, bounds>>

\* The client is destroyed, then the migration, which rebuilds of the ring notify.
StopMigration ==
    /\ Goes("stopped", "exited")
    /\ UNCHANGED <<keys, ring, watch, callback, listed, watcher, events, mutex, status,
                   missed, bounds>>

Stop == LookForWatcher \/ CancelWatcher \/ RevokeLease \/ JoinWatchThread \/ StopMigration

-----------------------------------------------------------------------------
Init ==
    /\ keys \in SUBSET (Nodes \ {Self})
    /\ ring = StaticNodes
    /\ main = "down" /\ watch = "none" /\ callback = "idle"
    /\ listed = [r \in Readers |-> {}]
    /\ watcher = "none" /\ events = 0 /\ mutex = "free"
    /\ degraded = FALSE /\ keepalive_error = FALSE
    /\ missed = FALSE
    /\ changes = 0 /\ faults = 0

Etcd == KeepAliveError \/ LeaseExpires \/ BreakWatch \/ \E n \in Nodes : OtherNode(n)

Failing ==
    \/ RegisterFails \/ ListAtStartFails
    \/ ListInLoopFails \/ CreateWatcherFails \/ ListOnEventFails

Next == Etcd \/ Start \/ WatchLoop \/ Callback \/ SetStopping \/ Stop \/ Failing

Spec == Init /\ [][Next]_vars

\* Threads are scheduled, calls of etcd answered and changes reported.  Nothing makes
\* anyone stop the node, other nodes change or a watch break.
Fairness ==
    /\ WF_vars(Start)
    /\ WF_vars(WatchLoop)
    /\ WF_vars(Callback)
    /\ WF_vars(Stop)

FairSpec == Spec /\ Fairness

-----------------------------------------------------------------------------
\* Once etcd no longer changes, a running node's ring is what etcd has, through broken
\* watches, their restarts and changes that come while a list is being applied.  The
\* exceptions are the two in which nobody lists again: the last change fell between a list
\* and its watcher, or the list for it failed.
RingSettles == <>[](main = "running" => missed \/ ring = Readable)

\* Whatever reloads succeed after it, the health report goes on saying that the lease was
\* not kept alive: the watch thread, the callback and Start all write the same flag.
LeaseTroubleStaysVisible == keepalive_error => degraded

\* When Stop returns nothing runs that would use the client it destroys, rebuild the ring
\* or notify the migration, which the server destroys next.
StoppedIsQuiet ==
    main \in {"stopped", "exited"} => watch \in {"none", "gone"} /\ callback = "idle"

\* A watcher that Stop has overlooked and that nothing breaks.
Overlooked == main = "joining" /\ watch = "wait" /\ watcher = "up"

\* Stop ends wherever the watch thread is, in a list, in a wait or between two watches;
\* except that a watcher stored just after Stop looked for one keeps it until that watch
\* breaks, and one destroyed just after it ends the process.
StopEnds == main = "stopping" ~> (main \in {"stopped", "crashed"} \/ Overlooked)

\* When the ring is rebuilt a slot goes to or from a node only if a node that has joined
\* takes its place or one that has left frees it: keys never move between nodes that were
\* members before and after.
SlotsMoveOnlyWithNodes ==
    [][ring' # ring =>
        \A slot \in Slots, count \in 1..Replication :
            LET before == Route(ring, slot, count)
                after  == Route(ring', slot, count)
            IN  /\ (before \ after) \cap ring' # {} => after \cap (ring' \ ring) # {}
                /\ (after \ before) \cap ring # {} => before \cap (ring \ ring') # {}]_vars
=============================================================================
