--------------------------- MODULE MCEtcdDiscovery ---------------------------
(***************************************************************************)
(* Instances of EtcdDiscovery for TLC.                                     *)
(***************************************************************************)
EXTENDS EtcdDiscovery

\* Sixteen hash values, four nodes with two points each, and slots between them.
Points == [p \in Nodes \X VirtualNodes |-> <<1, 8, 4, 6, 10, 3, 15, 7>>[2 * (p[1] - 1) + p[2]]]

SlotPoints == [s \in Slots |-> (5 * s) % 16]
=============================================================================
