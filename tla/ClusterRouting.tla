--------------------------- MODULE ClusterRouting ---------------------------
(***************************************************************************)
(* The ring of src/infra/cluster_routing.cpp: every node has its virtual   *)
(* nodes at places given by hashes of its id, a slot is kept by the first  *)
(* nodes met going round from the slot's own place.                        *)
(***************************************************************************)
EXTENDS Integers, FiniteSets

CONSTANTS
    NodeCount,      \* number of nodes that may ever be members
    VirtualNodes,   \* replica_index of each node's points
    Slots,          \* slot_count_ slots, to which keys are hashed
    RingSize,       \* number of hash values
    Position,       \* hash of "<id>#<replica_index>"
    SlotPosition,   \* hash of "slot:<slot>"
    Replication     \* replication_factor

\* The nodes in the order of their ids.
Nodes == 1..NodeCount

\* Hashes of 64 bits, taken not to collide.
ASSUME RoutingAssumption ==
    /\ NodeCount \in Nat \ {0}
    /\ IsFiniteSet(VirtualNodes) /\ VirtualNodes # {}
    /\ RingSize \in Nat \ {0}
    /\ Position \in [Nodes \X VirtualNodes -> 0..(RingSize - 1)]
    /\ \A p, q \in Nodes \X VirtualNodes : Position[p] = Position[q] => p = q
    /\ SlotPosition \in [Slots -> 0..(RingSize - 1)]
    /\ Replication \in Nat \ {0}

\* Mutant: the place is the hash of the node's place in the list.
PointByPlace(nodes, n, v) == Position[Cardinality({m \in nodes : m <= n}), v]

\* Where Rebuild puts the virtual node v of n.
Point(nodes, n, v) == Position[n, v]

\* How far Route has to go from the slot, around the end of the ring if need be.
Ahead(nodes, slot, n, v) == (Point(nodes, n, v) - SlotPosition[slot]) % RingSize

\* m is met before n.
MetBefore(nodes, slot, m, n) ==
    \E v \in VirtualNodes : \A u \in VirtualNodes :
        Ahead(nodes, slot, m, v) < Ahead(nodes, slot, n, u)

\* The first count nodes met; the first one of all is the primary.
Route(nodes, slot, count) ==
    {n \in nodes : Cardinality({m \in nodes : MetBefore(nodes, slot, m, n)}) < count}
=============================================================================
