----------------------------- MODULE MCWalStore -----------------------------
(***************************************************************************)
(* Instances of WalStore for TLC: the files a first start may find.        *)
(***************************************************************************)
EXTENDS WalStore

CONSTANT p   \* the payload

\* A new node: no file at all.
FreshLogs == {<<>>}
FreshSnapshots == {Nothing}

\* Files of an older build, in the text format: a log of one or two frames, of any
\* kind, and any snapshot.
OldRecord == [version |-> 0, mutation_id |-> NoMutation, payload |-> p]
OldValues == {OldRecord, Absent}
OldEntries == [key : Keys, value : OldValues]
OldLogs == {<<>>} \cup {<<e>> : e \in OldEntries} \cup {<<e, f>> : e \in OldEntries, f \in OldEntries}
OldSnapshots == [Keys -> OldValues]
=============================================================================
