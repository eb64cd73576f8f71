--------------------------- MODULE MCSearchService ---------------------------
(***************************************************************************)
(* Instances of SearchService: three keys in two collections, the first    *)
(* and the third hashed to one stripe, so that two batches of two records  *)
(* want the same two stripes.                                              *)
(***************************************************************************)
EXTENDS SearchService

CONSTANTS m, text

KeyStripes == <<1, 2, 1>>
KeyCollections == <<1, 2, 1>>

Older == [version |-> 1, mutation_id |-> NoMutation, payload |-> text]
Newer == [version |-> 2, mutation_id |-> m, payload |-> text]

OneDocument == {Newer}
TwoBatches == {[k \in {1, 2} |-> Older], [k \in {2, 3} |-> Newer]}

\* Demo data of two documents of one collection, or none.
TwoSeeds == [k \in {1, 3} |-> Older]
NoSeeds == NoBatch

\* Old metadata with a gap between its ids, where a document was removed.
GapMetadata == 1 :> [key |-> 1, document |-> Older] @@ 3 :> [key |-> 2, document |-> Older]
GapIndex == [kind |-> "flat", vectors |-> {Vector(1, 1, Older), Vector(3, 2, Older)}]
=============================================================================
