------------------------- MODULE EtcdDiscovery_proofs -------------------------
(***************************************************************************)
(* What TLAPS proves of ClusterRouting and EtcdDiscovery, for every number *)
(* of nodes and points, every hash and every number of changes and faults: *)
(* slots move only with nodes, the report of a lost lease stays, and Stop  *)
(* leaves nothing behind.                                                  *)
(***************************************************************************)
EXTENDS EtcdDiscovery, FiniteSetTheorems, TLAPS

-----------------------------------------------------------------------------
(***************************************************************************)
(* The ring.                                                               *)
(***************************************************************************)
\* Every nonempty set of numbers has a least one.
LEMMA LeastNumber ==
    ASSUME NEW S \in SUBSET Nat, S # {}
    PROVE  \E least \in S : \A i \in S : least <= i
<1>1. IsWellFoundedOn(OpToRel(<, Nat), Nat)
    BY NatLessThanWellFounded
<1>2. \E least \in S : \A i \in S : ~ (<<i, least>> \in OpToRel(<, Nat))
    BY <1>1, WFMin
<1>3. \A i, j \in Nat : i < j => <<i, j>> \in OpToRel(<, Nat)
    BY DEF OpToRel
<1>4. PICK least \in S : \A i \in S : ~ (<<i, least>> \in OpToRel(<, Nat))
    BY <1>2
<1>5. \A i \in S : ~ (i < least)
    BY <1>3, <1>4
<1>6. \A i \in S : least <= i
    BY <1>5
<1> QED BY <1>6

\* Nodes are met one after the other: the relation is a strict order, and does not depend on
\* who the members are.
LEMMA MeetingOrder ==
    ASSUME NEW nodes \in SUBSET Nodes, NEW slot \in Slots
    PROVE  /\ \A n \in Nodes : ~ MetBefore(nodes, slot, n, n)
           /\ \A k, m, n \in Nodes :
                MetBefore(nodes, slot, k, m) /\ MetBefore(nodes, slot, m, n) => MetBefore(nodes, slot, k, n)
<1>1. \A n \in Nodes, v \in VirtualNodes : Ahead(nodes, slot, n, v) \in Int
  <2>1. \A n \in Nodes, v \in VirtualNodes : Position[n, v] \in Int
    <3>1. \A p \in Nodes \X VirtualNodes : Position[p] \in 0..(RingSize - 1)
        BY RoutingAssumption
    <3>2. \A n \in Nodes, v \in VirtualNodes : <<n, v>> \in Nodes \X VirtualNodes
        OBVIOUS
    <3>3. 0..(RingSize - 1) \subseteq Int
        BY RoutingAssumption
    <3> HIDE DEF Nodes
    <3> QED BY <3>1, <3>2, <3>3
  <2>2. SlotPosition[slot] \in Int /\ RingSize \in Nat \ {0}
      BY RoutingAssumption
  <2>3. \A i, j \in Int : (i - j) % RingSize \in Int
      BY <2>2
  <2> QED BY <2>1, <2>2, <2>3 DEF Ahead, Point
<1> HIDE DEF Nodes, Ahead
<1> QED BY <1>1 DEF MetBefore

\* Who is met before whom is not a matter of who the members are.
LEMMA SameOrder ==
    ASSUME NEW A, NEW B, NEW slot, NEW m, NEW n
    PROVE  MetBefore(A, slot, m, n) <=> MetBefore(B, slot, m, n)
BY DEF MetBefore, Ahead, Point

\* A node that loses a slot and stays a member has lost it to one that has joined: of those
\* that have joined and are met before it the first one has the slot.
LEMMA LostToANewNode ==
    ASSUME NEW A \in SUBSET Nodes, NEW B \in SUBSET Nodes, NEW slot \in Slots,
           NEW count \in Nat,
           NEW n \in Route(A, slot, count), n \in B, n \notin Route(B, slot, count)
    PROVE  \E m \in Route(B, slot, count) : m \in B \ A
<1> DEFINE before(m) == {k \in Nodes : MetBefore(A, slot, k, m)}
<1>1. /\ \A m \in Nodes : m \notin before(m)
      /\ \A k, m \in Nodes : k \in before(m) => before(k) \subseteq before(m)
    BY MeetingOrder
<1>2. \A m : {k \in A : MetBefore(A, slot, k, m)} = before(m) \cap A
    OBVIOUS
<1>3. \A m : {k \in B : MetBefore(B, slot, k, m)} = before(m) \cap B
    BY SameOrder
<1>4. /\ Route(A, slot, count) = {m \in A : Cardinality(before(m) \cap A) < count}
      /\ Route(B, slot, count) = {m \in B : Cardinality(before(m) \cap B) < count}
    BY <1>2, <1>3 DEF Route
<1> DEFINE new == (before(n) \cap B) \ A
<1>5. n \in Nodes /\ Cardinality(before(n) \cap A) < count /\ ~ (Cardinality(before(n) \cap B) < count)
    BY <1>4
<1>6. \A S \in SUBSET Nodes : IsFiniteSet(S) /\ Cardinality(S) \in Nat
  <2>1. IsFiniteSet(Nodes)
      BY FS_Interval, RoutingAssumption DEF Nodes
  <2>2. \A S \in SUBSET Nodes : IsFiniteSet(S)
      BY <2>1, FS_Subset
  <2> QED BY <2>2, FS_CardinalityType
<1>7. \A m \in Nodes : before(m) \in SUBSET Nodes
    OBVIOUS
<1> HIDE DEF before
<1>8. \A S, T \in SUBSET Nodes : S \subseteq T => Cardinality(S) <= Cardinality(T)
    BY <1>6, FS_Subset
<1>9. \A S, T \in SUBSET Nodes : S \subseteq T /\ S # T => Cardinality(S) < Cardinality(T)
    BY <1>6, FS_Subset
<1>10. new # {}
  <2> SUFFICES ASSUME new = {} PROVE FALSE
      OBVIOUS
  <2>1. before(n) \cap B \subseteq before(n) \cap A
      OBVIOUS
  <2>2. Cardinality(before(n) \cap B) <= Cardinality(before(n) \cap A)
      BY <2>1, <1>5, <1>7, <1>8
  <2>3. Cardinality(before(n) \cap B) \in Nat /\ Cardinality(before(n) \cap A) \in Nat
      BY <1>5, <1>6, <1>7
  <2> QED BY <2>2, <2>3, <1>5
<1>11. PICK first \in new : \A m \in new : Cardinality(before(first)) <= Cardinality(before(m))
  <2> DEFINE ranks == {Cardinality(before(m)) : m \in new}
  <2>1. new \subseteq Nodes
      OBVIOUS
  <2>2. ranks \in SUBSET Nat /\ ranks # {}
      BY <2>1, <1>6, <1>7, <1>10
  <2>3. \E least \in ranks : \A i \in ranks : least <= i
    <3> HIDE DEF ranks
    <3> QED BY <2>2, LeastNumber
  <2> QED BY <2>3
<1>12. first \in Nodes /\ first \in before(n) /\ first \in B /\ first \notin A
    OBVIOUS
<1>13. before(first) \cap B \subseteq before(n) \cap A
  <2> SUFFICES ASSUME NEW m \in before(first) \cap B, m \notin A
               PROVE  FALSE
      BY <1>1, <1>5, <1>12
  <2>1. m \in Nodes /\ m \in new
      BY <1>1, <1>5, <1>12
  <2>2. before(m) \subseteq before(first) /\ m \in before(first) /\ m \notin before(m)
      BY <2>1, <1>1, <1>12
  <2>3. Cardinality(before(m)) < Cardinality(before(first))
      BY <2>1, <2>2, <1>7, <1>9, <1>12
  <2>4. Cardinality(before(m)) \in Nat /\ Cardinality(before(first)) \in Nat
      BY <2>1, <1>6, <1>7, <1>12
  <2> QED BY <2>1, <2>3, <2>4, <1>11
<1>14. Cardinality(before(first) \cap B) < count
  <2>1. /\ before(first) \cap B \in SUBSET Nodes
        /\ before(n) \cap A \in SUBSET Nodes
      OBVIOUS
  <2>2. Cardinality(before(first) \cap B) <= Cardinality(before(n) \cap A)
      BY <2>1, <1>8, <1>13
  <2>3. /\ Cardinality(before(first) \cap B) \in Nat
        /\ Cardinality(before(n) \cap A) \in Nat
      BY <2>1, <1>6
  <2> QED BY <2>2, <2>3, <1>5
<1> QED BY <1>4, <1>12, <1>14

\* Whatever the two rings are, a slot leaves a node that stays for one that joins, and comes
\* to a node that was there from one that leaves.
LEMMA SlotsFollowNodes ==
    ASSUME NEW A \in SUBSET Nodes, NEW B \in SUBSET Nodes, NEW slot \in Slots, NEW count \in Nat
    PROVE  /\ (Route(A, slot, count) \ Route(B, slot, count)) \cap B # {}
              => Route(B, slot, count) \cap (B \ A) # {}
           /\ (Route(B, slot, count) \ Route(A, slot, count)) \cap A # {}
              => Route(A, slot, count) \cap (A \ B) # {}
<1> USE RoutingAssumption
<1>1. ASSUME NEW n \in (Route(A, slot, count) \ Route(B, slot, count)) \cap B
      PROVE  Route(B, slot, count) \cap (B \ A) # {}
    BY <1>1, LostToANewNode
<1>2. ASSUME NEW n \in (Route(B, slot, count) \ Route(A, slot, count)) \cap A
      PROVE  Route(A, slot, count) \cap (A \ B) # {}
    BY <1>2, LostToANewNode
<1> QED BY <1>1, <1>2

-----------------------------------------------------------------------------
(***************************************************************************)
(* The invariant.  TypeOK bounds the events by what others may do and one  *)
(* more for the node's own lease, which is lost once (EventsAreChanges);   *)
(* Stop leaves nothing behind since nothing happens before the watch       *)
(* thread runs (NotYetWatching), a watcher and its callback live only      *)
(* while the thread waits for them (OnlyWhileWaiting), and Stop joins it.  *)
(***************************************************************************)
NotYetWatching ==
    main \in {"down", "static", "registered", "listed", "loaded"} =>
        watch = "none" /\ watcher = "none" /\ events = 0

OnlyWhileWaiting ==
    /\ watcher = "up" => watch = "wait"
    /\ callback # "idle" => watch = "wait"

EventsAreChanges == events <= changes + (IF Self \in keys THEN 0 ELSE 1)

JoinedIsGone == main \in {"stopped", "exited"} => watch = "gone"

DiscoveryInv ==
    /\ TypeOK
    /\ NotYetWatching
    /\ OnlyWhileWaiting
    /\ EventsAreChanges
    /\ JoinedIsGone
    /\ LeaseTroubleStaysVisible

\* The invariant holds before the start.
LEMMA InvInit == Init => DiscoveryInv
<1> SUFFICES ASSUME Init PROVE DiscoveryInv
    OBVIOUS
<1> USE DiscoveryAssumption DEF Init
<1>1. TypeOK
  <2> HIDE DEF Nodes
  <2>1. listed \in [Readers -> SUBSET Nodes]
      OBVIOUS
  <2>2. keys \subseteq Nodes /\ ring \subseteq Nodes
      OBVIOUS
  <2>3. /\ 0 \in 0..(MaxChanges + 1)
        /\ 0 \in 0..MaxChanges /\ 0 \in 0..MaxFaults
      OBVIOUS
  <2> QED BY <2>1, <2>2, <2>3 DEF TypeOK, MainStages, WatchStages
<1>2. NotYetWatching /\ OnlyWhileWaiting /\ JoinedIsGone /\ LeaseTroubleStaysVisible
    BY DEF NotYetWatching, OnlyWhileWaiting, JoinedIsGone, LeaseTroubleStaysVisible
<1>3. EventsAreChanges
    BY DEF EventsAreChanges
<1> QED BY <1>1, <1>2, <1>3 DEF DiscoveryInv

\* What etcd and the other nodes do.
LEMMA EtcdKeeps ==
    DiscoveryInv /\ Etcd => DiscoveryInv'
<1> SUFFICES ASSUME DiscoveryInv, Etcd PROVE DiscoveryInv'
    OBVIOUS
<1> USE DiscoveryAssumption DEF DiscoveryInv, TypeOK, NotYetWatching, OnlyWhileWaiting, EventsAreChanges,
         JoinedIsGone, LeaseTroubleStaysVisible, MainStages, WatchStages, Readers, stopping, Alive,
         Fault, Readable, Change, MayMiss, List, RecordSuccess, RecordError,
         RecordErrorUnlessStopping, RebuildRing, Goes, Moves, TakeEvent, process, status, bounds
<1> HIDE DEF Nodes
<1>1. CASE KeepAliveError
    BY <1>1 DEF KeepAliveError
<1>2. CASE LeaseExpires
    BY <1>2 DEF LeaseExpires
<1>3. CASE BreakWatch
  <2>1. degraded' \in BOOLEAN /\ (degraded => degraded')
      BY <1>3 DEF BreakWatch
  <2> QED BY <1>3, <2>1 DEF BreakWatch
<1>4. ASSUME NEW n \in Nodes, OtherNode(n) PROVE DiscoveryInv'
    BY <1>4 DEF OtherNode
<1> QED BY <1>1, <1>2, <1>3, <1>4 DEF Etcd

\* The server's thread at the start.
LEMMA StartKeeps ==
    DiscoveryInv /\ Start => DiscoveryInv'
<1> SUFFICES ASSUME DiscoveryInv, Start PROVE DiscoveryInv'
    OBVIOUS
<1> USE DiscoveryAssumption DEF DiscoveryInv, TypeOK, NotYetWatching, OnlyWhileWaiting, EventsAreChanges,
         JoinedIsGone, LeaseTroubleStaysVisible, MainStages, WatchStages, Readers, stopping, Alive,
         Fault, Readable, Change, MayMiss, List, RecordSuccess, RecordError,
         RecordErrorUnlessStopping, RebuildRing, Goes, Moves, TakeEvent, process, status, bounds
<1> HIDE DEF Nodes
<1>1. CASE Register
    BY <1>1 DEF Register
<1>2. CASE ListAtStart
    BY <1>2 DEF ListAtStart
<1>3. CASE RebuildAtStart
    BY <1>3 DEF RebuildAtStart
<1>4. CASE SpawnWatchThread
    BY <1>4 DEF SpawnWatchThread
<1>5. CASE Started
    BY <1>5 DEF Started
<1> QED BY <1>1, <1>2, <1>3, <1>4, <1>5 DEF Start

\* The watch thread.
LEMMA WatchLoopKeeps ==
    DiscoveryInv /\ WatchLoop => DiscoveryInv'
<1> SUFFICES ASSUME DiscoveryInv, WatchLoop PROVE DiscoveryInv'
    OBVIOUS
<1> USE DiscoveryAssumption DEF DiscoveryInv, TypeOK, NotYetWatching, OnlyWhileWaiting, EventsAreChanges,
         JoinedIsGone, LeaseTroubleStaysVisible, MainStages, WatchStages, Readers, stopping, Alive,
         Fault, Readable, Change, MayMiss, List, RecordSuccess, RecordError,
         RecordErrorUnlessStopping, RebuildRing, Goes, Moves, TakeEvent, process, status, bounds
<1> HIDE DEF Nodes
<1>1. CASE TestStopping
    BY <1>1 DEF TestStopping
<1>2. CASE ListInLoop
    BY <1>2 DEF ListInLoop
<1>3. CASE RebuildInLoop
    BY <1>3 DEF RebuildInLoop
<1>4. CASE LockForWatcher
    BY <1>4 DEF LockForWatcher
<1>5. CASE CreateWatcher
    BY <1>5 DEF CreateWatcher
<1>6. CASE WaitEnds
    BY <1>6 DEF WaitEnds
<1>7. CASE ResetWatcher
    BY <1>7 DEF ResetWatcher
<1>8. CASE EndBackoff
    BY <1>8 DEF EndBackoff
<1> QED BY <1>1, <1>2, <1>3, <1>4, <1>5, <1>6, <1>7, <1>8 DEF WatchLoop

\* The watcher's callback.
LEMMA CallbackKeeps ==
    DiscoveryInv /\ Callback => DiscoveryInv'
<1> SUFFICES ASSUME DiscoveryInv, Callback PROVE DiscoveryInv'
    OBVIOUS
<1> USE DiscoveryAssumption DEF DiscoveryInv, TypeOK, NotYetWatching, OnlyWhileWaiting, EventsAreChanges,
         JoinedIsGone, LeaseTroubleStaysVisible, MainStages, WatchStages, Readers, stopping, Alive,
         Fault, Readable, Change, MayMiss, List, RecordSuccess, RecordError,
         RecordErrorUnlessStopping, RebuildRing, Goes, Moves, TakeEvent, process, status, bounds
<1> HIDE DEF Nodes
<1>1. CASE ListOnEvent
  <2>1. listed' \in [Readers -> SUBSET Nodes]
      BY <1>1 DEF ListOnEvent
  <2>2. /\ watcher = "up" /\ watch = "wait" /\ callback' = "rebuild" /\ missed' = FALSE
        /\ events > 0 /\ events' = events - 1
        /\ UNCHANGED <<keys, ring, main, watch, watcher, mutex, degraded, keepalive_error, changes, faults>>
      BY <1>1 DEF ListOnEvent
  <2>3. events' \in 0..(MaxChanges + 1) /\ EventsAreChanges'
      BY <2>2
  <2>4. TypeOK'
      BY <2>1, <2>2, <2>3
  <2> QED BY <2>2, <2>3, <2>4
<1>2. CASE RebuildOnEvent
    BY <1>2 DEF RebuildOnEvent
<1> QED BY <1>1, <1>2 DEF Callback

\* The server's thread at the end.
LEMMA StopKeeps ==
    DiscoveryInv /\ (SetStopping \/ Stop) => DiscoveryInv'
<1> SUFFICES ASSUME DiscoveryInv, SetStopping \/ Stop PROVE DiscoveryInv'
    OBVIOUS
<1> USE DiscoveryAssumption DEF DiscoveryInv, TypeOK, NotYetWatching, OnlyWhileWaiting, EventsAreChanges,
         JoinedIsGone, LeaseTroubleStaysVisible, MainStages, WatchStages, Readers, stopping, Alive,
         Fault, Readable, Change, MayMiss, List, RecordSuccess, RecordError,
         RecordErrorUnlessStopping, RebuildRing, Goes, Moves, TakeEvent, process, status, bounds
<1> HIDE DEF Nodes
<1>1. CASE SetStopping
    BY <1>1 DEF SetStopping
<1>2. CASE LookForWatcher
    BY <1>2 DEF LookForWatcher
<1>3. CASE CancelWatcher
    BY <1>3 DEF CancelWatcher
<1>4. CASE RevokeLease
    BY <1>4 DEF RevokeLease
<1>5. CASE JoinWatchThread
    BY <1>5 DEF JoinWatchThread
<1>6. CASE StopMigration
    BY <1>6 DEF StopMigration
<1> QED BY <1>1, <1>2, <1>3, <1>4, <1>5, <1>6 DEF Stop

\* What fails.
LEMMA FailingKeeps ==
    DiscoveryInv /\ Failing => DiscoveryInv'
<1> SUFFICES ASSUME DiscoveryInv, Failing PROVE DiscoveryInv'
    OBVIOUS
<1> USE DiscoveryAssumption DEF DiscoveryInv, TypeOK, NotYetWatching, OnlyWhileWaiting, EventsAreChanges,
         JoinedIsGone, LeaseTroubleStaysVisible, MainStages, WatchStages, Readers, stopping, Alive,
         Fault, Readable, Change, MayMiss, List, RecordSuccess, RecordError,
         RecordErrorUnlessStopping, RebuildRing, Goes, Moves, TakeEvent, process, status, bounds
<1> HIDE DEF Nodes
<1>1. CASE RegisterFails
    BY <1>1 DEF RegisterFails
<1>2. CASE ListAtStartFails
    BY <1>2 DEF ListAtStartFails
<1>3. CASE ListInLoopFails
    BY <1>3 DEF ListInLoopFails
<1>4. CASE CreateWatcherFails
    BY <1>4 DEF CreateWatcherFails
<1>5. CASE ListOnEventFails
    BY <1>5 DEF ListOnEventFails
<1> QED BY <1>1, <1>2, <1>3, <1>4, <1>5 DEF Failing

\* Every step keeps the invariant.
LEMMA InvNext == DiscoveryInv /\ [Next]_vars => DiscoveryInv'
<1> SUFFICES ASSUME DiscoveryInv, [Next]_vars PROVE DiscoveryInv'
    OBVIOUS
<1>1. CASE Next
    BY <1>1, EtcdKeeps, StartKeeps, WatchLoopKeeps, CallbackKeeps, StopKeeps, FailingKeeps DEF Next
<1>2. CASE UNCHANGED vars
  <2>1. UNCHANGED <<keys, ring, main, watch, callback, listed, watcher, events, mutex, degraded,
                    keepalive_error, missed, changes, faults>>
      BY <1>2 DEF vars, process, status, bounds
  <2> QED BY <2>1 DEF DiscoveryInv, TypeOK, NotYetWatching, OnlyWhileWaiting, EventsAreChanges,
                      JoinedIsGone, LeaseTroubleStaysVisible
<1> QED BY <1>1, <1>2

\* So it holds always.
LEMMA Invariant == Spec => []DiscoveryInv
BY InvInit, InvNext, PTL DEF Spec

-----------------------------------------------------------------------------
\* The variables keep their types, and a watcher never has more to report than there were
\* changes.
THEOREM DiscoveryTypeCorrect == Spec => []TypeOK
<1>1. DiscoveryInv => TypeOK
    BY DEF DiscoveryInv
<1> QED BY <1>1, Invariant, PTL

\* However reloads, callbacks and the keep-alive's error come after one another, health goes
\* on showing a lease that was not kept alive.
THEOREM LeaseTroubleStays == Spec => []LeaseTroubleStaysVisible
<1>1. DiscoveryInv => LeaseTroubleStaysVisible
    BY DEF DiscoveryInv
<1> QED BY <1>1, Invariant, PTL

\* What Stop leaves behind: neither the watch thread nor a callback, wherever the two were
\* when it came.
THEOREM StopLeavesQuiet == Spec => []StoppedIsQuiet
<1>1. DiscoveryInv => StoppedIsQuiet
    BY DEF DiscoveryInv, OnlyWhileWaiting, JoinedIsGone, StoppedIsQuiet
<1> QED BY <1>1, Invariant, PTL

\* Keys move only with nodes, for every ring, every hash and any number of points, replicas
\* and nodes that come and go at once.
THEOREM SlotsStay == Spec => SlotsMoveOnlyWithNodes
<1> DEFINE
      Kept(before, after, old, new) ==
          /\ (before \ after) \cap new # {} => after \cap (new \ old) # {}
          /\ (after \ before) \cap old # {} => before \cap (old \ new) # {}
      Moved == \A slot \in Slots, count \in 1..Replication :
                   Kept(Route(ring, slot, count), Route(ring', slot, count), ring, ring')
<1>1. DiscoveryInv /\ DiscoveryInv' => Moved
  <2> SUFFICES ASSUME DiscoveryInv, DiscoveryInv', NEW slot \in Slots, NEW count \in 1..Replication
               PROVE  Kept(Route(ring, slot, count), Route(ring', slot, count), ring, ring')
      OBVIOUS
  <2>1. ring \in SUBSET Nodes /\ ring' \in SUBSET Nodes
      BY DEF DiscoveryInv, TypeOK
  <2>2. count \in Nat
      BY RoutingAssumption
  <2> QED BY <2>1, <2>2, SlotsFollowNodes
<1>2. Moved => [ring' # ring =>
        \A slot \in Slots, count \in 1..Replication :
            LET before == Route(ring, slot, count)
                after  == Route(ring', slot, count)
            IN  /\ (before \ after) \cap ring' # {} => after \cap (ring' \ ring) # {}
                /\ (after \ before) \cap ring # {} => before \cap (ring \ ring') # {}]_vars
    OBVIOUS
<1> QED BY <1>1, <1>2, Invariant, PTL DEF SlotsMoveOnlyWithNodes
=============================================================================
