----------------------------- MODULE MCMigration -----------------------------
(***************************************************************************)
(* Instances of Migration for TLC.                                         *)
(***************************************************************************)
EXTENDS Migration

CONSTANTS a, b, c, p, m1, m2

OnlyOne == {[version |-> 1, mutation_id |-> m1, payload |-> p]}

\* Every key moves from one node to the next.
Moves(owners) == [i \in DOMAIN owners |-> [k \in Keys |-> owners[i]]]

Once == Moves(<<a, b>>)

Onwards == Moves(<<a, b, c>>)
=============================================================================
