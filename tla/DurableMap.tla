----------------------------- MODULE DurableMap -----------------------------
(***************************************************************************)
(* What a KvStore promises its callers, with no file in sight: one durable *)
(* map.  An acknowledged write is in the map at once and for ever; a write *)
(* the process did not live to acknowledge may or may not be in it, and of *)
(* a batch any part may be; a restart finds the map as it was left.        *)
(***************************************************************************)
EXTENDS KvRecord

VARIABLES
    store,    \* what a restart would find
    serving   \* the process is up

vars == <<store, serving>>

Init == store = Nothing /\ serving = FALSE

\* The acknowledgement is sent, or the process dies between the two.
AckOrDie == serving' \in BOOLEAN

Put(k, r) ==
    /\ serving
    /\ Replaces(store[k], r)
    /\ store' = [store EXCEPT ![k] = r]
    /\ AckOrDie

Delete(k) ==
    /\ serving
    /\ store' = [store EXCEPT ![k] = Absent]
    /\ AckOrDie

BatchPut(batch) ==
    /\ serving
    /\ BatchAdmitted(store, batch)
    /\ \/ /\ store' = Staged(store, batch, ToApply(store, batch))
          /\ AckOrDie
       \/ /\ \E part \in SUBSET ToApply(store, batch) :
                store' = Staged(store, batch, part)
          /\ serving' = FALSE

Restart == ~ serving /\ serving' = TRUE /\ UNCHANGED store

Die == serving /\ serving' = FALSE /\ UNCHANGED store

Next ==
    \/ \E k \in Keys : Delete(k) \/ \E r \in Record : Put(k, r)
    \/ \E batch \in Batches : BatchPut(batch)
    \/ Restart
    \/ Die

Spec == Init /\ [][Next]_vars
=============================================================================
