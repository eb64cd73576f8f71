--------------------------- MODULE MCVectorOutbox ---------------------------
(***************************************************************************)
(* Instances of VectorOutbox for TLC.                                      *)
(***************************************************************************)
EXTENDS VectorOutbox, TLC

CONSTANTS p, m1, m2, q1, q2

\* Two writes of a document, the second the newer one.
OldAndNew == {[version |-> 1, mutation_id |-> m1, payload |-> p],
              [version |-> 2, mutation_id |-> m2, payload |-> p]}

OnlyOne == {[version |-> 1, mutation_id |-> m1, payload |-> p]}

\* Request threads are interchangeable.
ThreadSymmetry == Permutations({q1, q2})
=============================================================================
