--------------------------- MODULE RocksStore_proofs ---------------------------
(***************************************************************************)
(* What TLAPS proves of RocksStore, for every number of threads, keys,     *)
(* stripes and collections and every hash: each operation of the store     *)
(* keeps the invariant by which its writes are those of a durable map.     *)
(***************************************************************************)
EXTENDS RocksStore, TLAPS

\* What a call may be about.
Deletions == {[j \in {k} |-> Absent] : k \in Keys}

Calls == [at    : {"out", "ok", "refused", "failed", "lock", "read", "write", "erase"},
          batch : Batches \cup Deletions \cup {NoBatch},
          todo  : SUBSET Nat,
          fresh : SUBSET Keys]

(***************************************************************************)
(* The invariant.  A call that reads or writes holds the stripes of all    *)
(* its keys, so what it found of them is still true: none of the records   *)
(* it has read refuses, and those to be written are those not ignored      *)
(* (Checked).  A key is stored only in a family that is there, and every   *)
(* family there is has its handle.                                         *)
(***************************************************************************)
Checked(c) ==
    \A k \in DOMAIN op[c].batch \ op[c].todo :
        /\ ~ Rejects(db[k], op[c].batch[k])
        /\ k \in op[c].fresh <=> ~ Ignores(db[k], op[c].batch[k])
        /\ CollectionOf[k] \in opened

Holds(c, keys) == \A k \in keys : stripe[StripeOf[k]] = c

CallInv(c) ==
    /\ op[c].fresh \subseteq DOMAIN op[c].batch
    /\ op[c].at \in {"lock", "read", "write", "erase"} => up
    /\ op[c].at = "lock" =>
        /\ op[c].batch \in Batches \cup Deletions
        /\ \A s \in StripesOf(DOMAIN op[c].batch) \ op[c].todo : stripe[s] = c
    /\ op[c].at \in {"read", "write"} =>
        /\ op[c].batch \in Batches
        /\ Holds(c, DOMAIN op[c].batch)
        /\ op[c].todo \subseteq DOMAIN op[c].batch
        /\ op[c].fresh \subseteq DOMAIN op[c].batch \ op[c].todo
        /\ Checked(c)
    /\ op[c].at = "write" => op[c].todo = {}
    /\ op[c].at = "erase" => op[c].batch \in Deletions /\ Holds(c, DOMAIN op[c].batch)

Types ==
    /\ db \in [Keys -> Value]
    /\ families \subseteq Collections
    /\ up \in BOOLEAN
    /\ stripe \in [Stripes -> Clients \cup {Free}]
    /\ op \in [Clients -> Calls]

FamiliesInv ==
    /\ up => opened = families
    /\ ~ up => opened = {}
    /\ \A k \in Keys : db[k] # Absent => CollectionOf[k] \in families

StoreInv == Types /\ FamiliesInv /\ \A c \in Clients : CallInv(c)

-----------------------------------------------------------------------------
(***************************************************************************)
(* What a call is about.                                                   *)
(***************************************************************************)
\* A batch has records, each under a key of its own, and deletes nothing.
LEMMA BatchFacts ==
    ASSUME NEW batch \in Batches
    PROVE  /\ DOMAIN batch \subseteq Keys /\ DOMAIN batch # {}
           /\ \A k \in DOMAIN batch : batch[k] \in Record
           /\ ~ Deletes(batch)
<1>1. PICK P \in (SUBSET Keys) \ {{}} : batch \in [P -> Record]
    BY DEF Batches
<1> HIDE DEF Keys, Record
<1>2. DOMAIN batch = P /\ \A k \in P : batch[k] \in Record
    BY <1>1
<1>3. P \subseteq Keys /\ P # {}
    BY Zenon
<1>4. PICK k : k \in P
    BY <1>3
<1>5. batch[k] # Absent
    BY <1>2, <1>4, KvRecordAssumption
<1> QED BY <1>2, <1>3, <1>4, <1>5 DEF Deletes

\* A deletion is of one key.
LEMMA DeletionFacts ==
    ASSUME NEW batch \in Deletions
    PROVE  \E k \in Keys : DOMAIN batch = {k} /\ batch[k] = Absent
<1>1. PICK k \in Keys : batch = [j \in {k} |-> Absent]
    BY DEF Deletions
<1>2. DOMAIN batch = {k} /\ batch[k] = Absent
    BY <1>1
<1> QED BY <1>2

\* A call that begins, or goes on with another stage.
LEMMA CallType ==
    ASSUME NEW at \in {"out", "ok", "refused", "failed", "lock", "read", "write", "erase"},
           NEW batch \in Batches \cup Deletions \cup {NoBatch},
           NEW todo \in SUBSET Nat, NEW fresh \in SUBSET Keys
    PROVE  /\ Call(at, batch, todo, fresh) \in Calls
           /\ Call(at, batch, todo, fresh).at = at
           /\ Call(at, batch, todo, fresh).batch = batch
           /\ Call(at, batch, todo, fresh).todo = todo
           /\ Call(at, batch, todo, fresh).fresh = fresh
BY DEF Call, Calls

\* A client that is in no call says nothing.
LEMMA BackFacts ==
    ASSUME NEW result \in {"out", "ok", "refused", "failed"}
    PROVE  /\ Back(result) \in Calls
           /\ Back(result).at = result /\ Back(result).fresh = {}
<1>1. NoBatch \in Batches \cup Deletions \cup {NoBatch}
    OBVIOUS
<1> QED BY <1>1, CallType DEF Back

\* Every call is about at least one key.
LEMMA DomainInKeys ==
    ASSUME NEW batch \in Batches \cup Deletions
    PROVE  DOMAIN batch \subseteq Keys /\ DOMAIN batch # {}
BY BatchFacts, DeletionFacts

\* The hash of a key is a stripe.
LEMMA StripesFacts ==
    ASSUME NEW keys \in SUBSET Keys
    PROVE  /\ StripesOf(keys) \subseteq Stripes /\ StripesOf(keys) \subseteq Nat
           /\ \A k \in keys : StripeOf[k] \in StripesOf(keys)
BY RocksAssumption DEF StripesOf

-----------------------------------------------------------------------------
(***************************************************************************)
(* A step of one client leaves what is known of the others.                *)
(***************************************************************************)
\* What CallInv says of a client depends on no call but its own.
LEMMA OthersKeep ==
    ASSUME NEW c \in Clients, NEW d \in Clients, CallInv(d),
           op'[d] = op[d], up' = up,
           opened \subseteq opened',
           \A s \in Stripes : stripe[s] = d => stripe'[s] = d,
           \A k \in DOMAIN op[d].batch : Holds(d, DOMAIN op[d].batch) /\ op[d].at \in {"read", "write"}
                => db'[k] = db[k],
           op[d].batch \in Batches \cup Deletions \cup {NoBatch}
    PROVE  CallInv(d)'
<1>1. op[d].at \in {"lock", "read", "write", "erase"} => DOMAIN op[d].batch \subseteq Keys
    BY DomainInKeys DEF CallInv
<1>2. op[d].at \in {"lock", "read", "write", "erase"} =>
        /\ StripesOf(DOMAIN op[d].batch) \subseteq Stripes
        /\ \A k \in DOMAIN op[d].batch : StripeOf[k] \in Stripes
    BY <1>1, StripesFacts
<1>3. op[d].at \in {"read", "write", "erase"} /\ Holds(d, DOMAIN op[d].batch) => Holds(d, DOMAIN op[d].batch)'
    BY <1>2 DEF Holds
<1>4. op[d].at \in {"read", "write"} => Checked(d)'
    BY DEF CallInv, Checked
<1> QED BY <1>2, <1>3, <1>4 DEF CallInv

-----------------------------------------------------------------------------
(***************************************************************************)
(* Each operation keeps the invariant.                                     *)
(***************************************************************************)
\* A call begins.
LEMMA BeginKeeps ==
    ASSUME StoreInv, NEW c \in Clients, NEW batch \in Batches \cup Deletions, BeginPut(c, batch)
    PROVE  StoreInv'
<1> DEFINE begun == Call("lock", batch, StripesOf(DOMAIN batch), {})
<1>1. /\ up /\ op' = [op EXCEPT ![c] = begun]
      /\ UNCHANGED <<db, families, opened, up, stripe>>
    BY DEF BeginPut
<1>2. DOMAIN batch \subseteq Keys
    BY DomainInKeys
<1>3. /\ begun \in Calls /\ begun.at = "lock" /\ begun.batch = batch /\ begun.fresh = {}
      /\ begun.todo = StripesOf(DOMAIN batch)
    BY <1>2, StripesFacts, CallType
<1> HIDE DEF begun
<1>4. op \in [Clients -> Calls]
    BY DEF StoreInv, Types
<1>5. op'[c] = begun /\ \A d \in Clients : d # c => op'[d] = op[d]
    BY <1>1, <1>4
<1>6. Types'
    BY <1>1, <1>3 DEF StoreInv, Types
<1>7. FamiliesInv'
    BY <1>1 DEF StoreInv, FamiliesInv
<1>8. CallInv(c)'
    BY <1>1, <1>3, <1>5 DEF CallInv
<1>9. ASSUME NEW d \in Clients, d # c PROVE CallInv(d)'
  <2>1. CallInv(d) /\ op[d].batch \in Batches \cup Deletions \cup {NoBatch}
      BY <1>4 DEF StoreInv, Calls
  <2> QED BY <1>1, <1>5, <1>9, <2>1, OthersKeep
<1> QED BY <1>6, <1>7, <1>8, <1>9 DEF StoreInv

\* A stripe is locked, the last one or not.
LEMMA LockKeeps ==
    ASSUME StoreInv, NEW c \in Clients, LockStripe(c)
    PROVE  StoreInv'
<1> DEFINE batch == op[c].batch
<1>1. PICK s \in First(op[c].todo) :
        /\ stripe[s] = Free /\ stripe' = [stripe EXCEPT ![s] = c]
        /\ op' = [op EXCEPT ![c] = IF op[c].todo = {s} THEN Locked(batch)
                                                      ELSE [op[c] EXCEPT !.todo = @ \ {s}]]
    BY DEF LockStripe
<1>2. op[c].at = "lock" /\ UNCHANGED <<db, families, opened, up>>
    BY DEF LockStripe
<1>3. /\ op \in [Clients -> Calls] /\ stripe \in [Stripes -> Clients \cup {Free}]
      /\ op[c] \in Calls
    BY DEF StoreInv, Types
<1>4. CallInv(c) /\ up /\ batch \in Batches \cup Deletions
    BY <1>2 DEF StoreInv, CallInv
<1>5. DOMAIN batch \subseteq Keys
    BY <1>4, DomainInKeys
<1>6. /\ StripesOf(DOMAIN batch) \subseteq Stripes
      /\ \A k \in DOMAIN batch : StripeOf[k] \in StripesOf(DOMAIN batch)
    BY <1>5, StripesFacts
<1>7. \A t \in StripesOf(DOMAIN batch) \ (op[c].todo \ {s}) : stripe'[t] = c
    BY <1>1, <1>2, <1>3, <1>4, <1>6 DEF CallInv
<1>8. Locked(batch) \in Calls /\ Locked(batch).batch = batch
      /\ Locked(batch).todo = DOMAIN batch /\ Locked(batch).fresh = {}
      /\ \/ batch \in Batches /\ Locked(batch).at = "read"
         \/ batch \in Deletions /\ Locked(batch).at = "erase"
  <2>1. batch \in Batches \cup Deletions \cup {NoBatch} /\ DOMAIN batch \in SUBSET Nat
      BY <1>4, <1>5 DEF Keys
  <2>2. CASE Deletes(batch)
    <3>1. Locked(batch) = Call("erase", batch, DOMAIN batch, {}) /\ batch \in Deletions
        BY <2>2, <1>4, BatchFacts DEF Locked
    <3> QED BY <2>1, <3>1, CallType
  <2>3. CASE ~ Deletes(batch)
    <3>1. \A deletion \in Deletions : Deletes(deletion)
        BY DeletionFacts DEF Deletes
    <3>2. Locked(batch) = Call("read", batch, DOMAIN batch, {}) /\ batch \in Batches
        BY <2>3, <3>1, <1>4 DEF Locked
    <3> QED BY <2>1, <3>2, CallType
  <2> QED BY <2>2, <2>3
<1> DEFINE next == op'[c]
<1>9. /\ next \in Calls /\ next.batch = batch
      /\ op' \in [Clients -> Calls]
      /\ \A d \in Clients : d # c => op'[d] = op[d]
      /\ \/ next = Locked(batch) /\ op[c].todo = {s}
         \/ next = [op[c] EXCEPT !.todo = @ \ {s}]
  <2>1. [op[c] EXCEPT !.todo = @ \ {s}] \in Calls
      BY <1>3 DEF Calls
  <2> QED BY <1>1, <1>3, <1>8, <2>1 DEF Calls
<1>10. Types'
    BY <1>1, <1>2, <1>3, <1>9 DEF StoreInv, Types
<1>11. FamiliesInv'
    BY <1>2 DEF StoreInv, FamiliesInv
<1>12. CallInv(c)'
  <2>1. CASE next = Locked(batch) /\ op[c].todo = {s}
    <3>1. \A k \in DOMAIN batch : stripe'[StripeOf[k]] = c
        BY <2>1, <1>6, <1>7
    <3>2. DOMAIN op'[c].batch \ op'[c].todo = {}
        BY <2>1, <1>8
    <3>3. Checked(c)'
        BY <3>2 DEF Checked
    <3> QED BY <2>1, <1>2, <1>4, <1>8, <3>1, <3>3 DEF CallInv, Holds
  <2>2. CASE next = [op[c] EXCEPT !.todo = @ \ {s}]
    <3>1. /\ next.at = "lock" /\ next.batch = batch /\ next.todo = op[c].todo \ {s}
          /\ next.fresh = op[c].fresh
        BY <2>2, <1>2, <1>3 DEF Calls
    <3> QED BY <3>1, <1>2, <1>4, <1>7 DEF CallInv
  <2> QED BY <1>9, <2>1, <2>2
<1>13. ASSUME NEW d \in Clients, d # c PROVE CallInv(d)'
  <2>1. CallInv(d) /\ op[d].batch \in Batches \cup Deletions \cup {NoBatch}
      BY <1>3 DEF StoreInv, Calls
  <2>2. \A t \in Stripes : stripe[t] = d => stripe'[t] = d
      BY <1>1, <1>3, RocksAssumption
  <2>3. op'[d] = op[d]
      BY <1>9, <1>13
  <2> QED BY <1>2, <2>1, <2>2, <2>3, OthersKeep
<1> QED BY <1>10, <1>11, <1>12, <1>13 DEF StoreInv

\* A call returns, whatever with.
LEMMA ReturnKeeps ==
    ASSUME StoreInv, NEW c \in Clients, NEW result \in {"out", "ok", "refused", "failed"},
           op' = [op EXCEPT ![c] = Back(result)],
           up' = up, opened \subseteq opened',
           \A s \in Stripes, d \in Clients : d # c /\ stripe[s] = d => stripe'[s] = d,
           \A d \in Clients, k \in Keys :
               d # c /\ stripe[StripeOf[k]] = d => db'[k] = db[k]
    PROVE  op' \in [Clients -> Calls] /\ \A d \in Clients : CallInv(d)'
<1>1. op \in [Clients -> Calls] /\ \A d \in Clients : CallInv(d)
    BY DEF StoreInv, Types
<1>2. /\ Back(result) \in Calls
      /\ Back(result).at = result /\ Back(result).fresh = {}
    BY BackFacts
<1>3. /\ op' \in [Clients -> Calls]
      /\ op'[c] = Back(result) /\ \A d \in Clients : d # c => op'[d] = op[d]
    BY <1>1, <1>2
<1>4. CallInv(c)'
    BY <1>2, <1>3 DEF CallInv
<1>5. ASSUME NEW d \in Clients, d # c PROVE CallInv(d)'
  <2>1. CallInv(d) /\ op[d].batch \in Batches \cup Deletions \cup {NoBatch}
      BY <1>1 DEF Calls
  <2>2. op[d].at \in {"read", "write"} => DOMAIN op[d].batch \subseteq Keys
      BY <2>1, DomainInKeys DEF CallInv
  <2>3. \A k \in DOMAIN op[d].batch : Holds(d, DOMAIN op[d].batch) /\ op[d].at \in {"read", "write"}
            => db'[k] = db[k]
      BY <2>2, <1>5 DEF Holds
  <2>4. \A s \in Stripes : stripe[s] = d => stripe'[s] = d
      BY <1>5
  <2> QED BY <1>3, <1>5, <2>1, <2>3, <2>4, OthersKeep
<1> QED BY <1>3, <1>4, <1>5

\* A call that returns gives back its own stripes and no other.
LEMMA UnlockFacts ==
    ASSUME StoreInv, NEW c \in Clients, Unlock(c)
    PROVE  /\ stripe' \in [Stripes -> Clients \cup {Free}]
           /\ \A s \in Stripes, d \in Clients : d # c /\ stripe[s] = d => stripe'[s] = d
BY DEF StoreInv, Types, Unlock

\* A record of the batch is read: it refuses the batch, or the next one is read, or all are.
LEMMA ReadKeeps ==
    ASSUME StoreInv, NEW c \in Clients, ReadExisting(c)
    PROVE  StoreInv'
<1> DEFINE batch == op[c].batch
<1>1. PICK k \in op[c].todo :
        /\ GetOrCreateColumnFamily(CollectionOf[k])
        /\ IF Rejects(db[k], batch[k])
           THEN Return(c, "refused")
           ELSE /\ op' = [op EXCEPT ![c] =
                     Call(IF op[c].todo \ {k} = {} THEN "write" ELSE "read", batch, op[c].todo \ {k},
                          IF Ignores(db[k], batch[k]) THEN op[c].fresh ELSE op[c].fresh \cup {k})]
                /\ UNCHANGED stripe
    BY DEF ReadExisting
<1>2. op[c].at = "read" /\ UNCHANGED <<db, up>>
    BY DEF ReadExisting
<1>3. /\ op \in [Clients -> Calls] /\ stripe \in [Stripes -> Clients \cup {Free}]
      /\ op[c] \in Calls
    BY DEF StoreInv, Types
<1>4. /\ CallInv(c) /\ up /\ batch \in Batches /\ opened = families
      /\ op[c].todo \subseteq DOMAIN batch
    BY <1>2 DEF StoreInv, CallInv, FamiliesInv
<1>5. DOMAIN batch \subseteq Keys /\ k \in DOMAIN batch
    BY <1>4, DomainInKeys
<1>6. /\ families' \subseteq Collections /\ opened' = families' /\ opened \subseteq opened'
      /\ families \subseteq families' /\ CollectionOf[k] \in opened'
  <2>1. CollectionOf[k] \in Collections
      BY <1>5, RocksAssumption
  <2> QED BY <1>1, <1>4, <2>1 DEF GetOrCreateColumnFamily, StoreInv, Types
<1>7. FamiliesInv'
    BY <1>2, <1>4, <1>6 DEF StoreInv, FamiliesInv
<1>8. CASE Rejects(db[k], batch[k])
  <2>1. op' = [op EXCEPT ![c] = Back("refused")] /\ Unlock(c)
      BY <1>1, <1>8 DEF Return
  <2>2. op' \in [Clients -> Calls] /\ \A d \in Clients : CallInv(d)'
      BY <2>1, <1>2, <1>6, UnlockFacts, ReturnKeeps
  <2> QED BY <2>1, <2>2, <1>2, <1>6, <1>7, UnlockFacts DEF StoreInv, Types
<1>9. CASE ~ Rejects(db[k], batch[k])
  <2> DEFINE at    == IF op[c].todo \ {k} = {} THEN "write" ELSE "read"
             fresh == IF Ignores(db[k], batch[k]) THEN op[c].fresh ELSE op[c].fresh \cup {k}
             next  == Call(at, batch, op[c].todo \ {k}, fresh)
  <2>1. op' = [op EXCEPT ![c] = next] /\ UNCHANGED stripe
      BY <1>1, <1>9
  <2>2. /\ fresh \subseteq Keys /\ op[c].todo \ {k} \in SUBSET Nat
        /\ batch \in Batches \cup Deletions \cup {NoBatch}
      BY <1>3, <1>4, <1>5 DEF Calls
  <2>3. /\ next \in Calls
        /\ next.at = at /\ next.batch = batch /\ next.todo = op[c].todo \ {k} /\ next.fresh = fresh
    <3>1. at \in {"out", "ok", "refused", "failed", "lock", "read", "write", "erase"}
        OBVIOUS
    <3> HIDE DEF at, fresh
    <3> QED BY <2>2, <3>1, CallType
  <2> HIDE DEF next
  <2>4. op' \in [Clients -> Calls] /\ op'[c] = next /\ \A d \in Clients : d # c => op'[d] = op[d]
      BY <2>1, <2>3, <1>3
  <2>5. Types'
      BY <2>1, <2>4, <1>2, <1>6 DEF StoreInv, Types
  <2>6. fresh \subseteq DOMAIN batch \ (op[c].todo \ {k})
      BY <1>2, <1>4, <1>5 DEF CallInv
  <2>7. ASSUME NEW j \in DOMAIN batch \ (op[c].todo \ {k})
        PROVE  /\ ~ Rejects(db'[j], batch[j])
               /\ j \in fresh <=> ~ Ignores(db'[j], batch[j])
               /\ CollectionOf[j] \in opened'
    <3>1. CASE j = k
        BY <3>1, <1>2, <1>4, <1>6, <1>9 DEF CallInv
    <3>2. CASE j # k
      <4>1. j \in DOMAIN batch \ op[c].todo
          BY <3>2
      <4>2. /\ ~ Rejects(db[j], batch[j])
            /\ j \in op[c].fresh <=> ~ Ignores(db[j], batch[j])
            /\ CollectionOf[j] \in opened
          BY <4>1, <1>2, <1>4 DEF CallInv, Checked
      <4> QED BY <3>2, <4>2, <1>2, <1>6
    <3> QED BY <3>1, <3>2
  <2>8. Checked(c)'
    <3> HIDE DEF fresh
    <3> QED BY <2>3, <2>4, <2>7 DEF Checked
  <2>9. Holds(c, DOMAIN batch) /\ \A j \in DOMAIN batch : stripe'[StripeOf[j]] = c
      BY <2>1, <1>2, <1>4 DEF CallInv, Holds
  <2>10. CallInv(c)'
    <3>1. at = "read" \/ (at = "write" /\ op[c].todo \ {k} = {})
        OBVIOUS
    <3> HIDE DEF at, fresh
    <3>2. Holds(c, DOMAIN op[c].batch)'
        BY <2>3, <2>4, <2>9 DEF Holds
    <3> QED BY <3>1, <3>2, <2>3, <2>4, <2>6, <2>8, <1>2, <1>4 DEF CallInv
  <2>11. ASSUME NEW d \in Clients, d # c PROVE CallInv(d)'
    <3>1. CallInv(d) /\ op[d].batch \in Batches \cup Deletions \cup {NoBatch}
        BY <1>3 DEF StoreInv, Calls
    <3> QED BY <2>1, <2>4, <2>11, <3>1, <1>2, <1>6, OthersKeep
  <2> QED BY <2>5, <2>10, <2>11, <1>7 DEF StoreInv
<1> QED BY <1>8, <1>9

\* What a write or a deletion changes is of keys whose stripes its call holds.
LEMMA WriteOwn ==
    ASSUME StoreInv, NEW c \in Clients, NEW keys \in SUBSET Keys, Holds(c, keys),
           \A k \in Keys \ keys : db'[k] = db[k]
    PROVE  \A d \in Clients, k \in Keys : d # c /\ stripe[StripeOf[k]] = d => db'[k] = db[k]
BY DEF Holds

\* The map admits and applies batches by the rules of the store.
LEMMA SameRules ==
    /\ Map!Keys = Keys /\ Map!Batches = Batches
    /\ \A map, batch : /\ Map!BatchAdmitted(map, batch) <=> BatchAdmitted(map, batch)
                       /\ Map!ToApply(map, batch) = ToApply(map, batch)
    /\ \A map, batch, S : Map!Staged(map, batch, S) = Staged(map, batch, S)
<1>1. Map!Keys = Keys /\ Map!Record = Record
    BY DEF Map!Keys, Keys, Map!Record, Record
<1>2. Map!Batches = Batches
    BY <1>1 DEF Map!Batches, Batches
<1> USE DEF Map!Ignores, Ignores, Map!Rejects, Rejects, Map!IsDuplicateMutation, IsDuplicateMutation,
            Map!IsStale, IsStale
<1>3. ASSUME NEW map, NEW batch
      PROVE  Map!BatchAdmitted(map, batch) <=> BatchAdmitted(map, batch)
    BY DEF Map!BatchAdmitted, BatchAdmitted
<1>4. ASSUME NEW map, NEW batch
      PROVE  Map!ToApply(map, batch) = ToApply(map, batch)
    BY DEF Map!ToApply, ToApply
<1>5. \A map, batch, S : Map!Staged(map, batch, S) = Staged(map, batch, S)
  <2>1. ASSUME NEW map, NEW batch, NEW S PROVE Map!Staged(map, batch, S) = Staged(map, batch, S)
      BY <1>1, Zenon DEF Map!Staged, Staged
  <2> QED BY <2>1
<1> QED BY <1>1, <1>2, <1>3, <1>4, <1>5

\* The batch is written: in the map this is the batch admitted and applied at once.
LEMMA WriteKeeps ==
    ASSUME StoreInv, NEW c \in Clients, Write(c)
    PROVE  StoreInv' /\ Map!Next
<1> DEFINE batch == op[c].batch
           fresh == op[c].fresh
<1>1. /\ op[c].at = "write" /\ db' = Staged(db, batch, fresh)
      /\ op' = [op EXCEPT ![c] = Back("ok")] /\ Unlock(c)
      /\ UNCHANGED <<families, opened, up>>
    BY DEF Write, Return
<1>2. /\ up /\ batch \in Batches /\ Holds(c, DOMAIN batch) /\ fresh \subseteq DOMAIN batch
      /\ opened = families
      /\ \A k \in DOMAIN batch : /\ ~ Rejects(db[k], batch[k])
                                 /\ k \in fresh <=> ~ Ignores(db[k], batch[k])
                                 /\ CollectionOf[k] \in opened
    BY <1>1 DEF StoreInv, CallInv, Checked, FamiliesInv
<1>3. DOMAIN batch \subseteq Keys /\ \A k \in DOMAIN batch : batch[k] \in Record
    BY <1>2, BatchFacts
<1> HIDE DEF batch, fresh
<1>4. /\ db' \in [Keys -> Value]
      /\ \A k \in Keys : db'[k] = IF k \in fresh THEN batch[k] ELSE db[k]
  <2>1. db \in [Keys -> Value] /\ \A k \in fresh : batch[k] \in Value
      BY <1>2, <1>3 DEF StoreInv, Types, Value
  <2> HIDE DEF Keys, Value
  <2> QED BY <2>1, <1>1 DEF Staged
<1>5. FamiliesInv'
    BY <1>1, <1>2, <1>4 DEF StoreInv, FamiliesInv
<1>6. op' \in [Clients -> Calls] /\ \A d \in Clients : CallInv(d)'
  <2>1. \A k \in Keys \ DOMAIN batch : db'[k] = db[k]
      BY <1>2, <1>4
  <2>2. \A d \in Clients, k \in Keys : d # c /\ stripe[StripeOf[k]] = d => db'[k] = db[k]
      BY <2>1, <1>2, <1>3, WriteOwn
  <2> QED BY <2>2, <1>1, UnlockFacts, ReturnKeeps
<1>7. StoreInv'
    BY <1>1, <1>4, <1>5, <1>6, UnlockFacts DEF StoreInv, Types
<1>8. Map!BatchPut(batch)
  <2>1. BatchAdmitted(db, batch)
      BY <1>2 DEF BatchAdmitted
  <2>2. fresh = ToApply(db, batch)
      BY <1>2 DEF ToApply
  <2>3. up' \in BOOLEAN
      BY <1>1 DEF StoreInv, Types
  <2>4. /\ Map!BatchAdmitted(db, batch)
        /\ db' = Map!Staged(db, batch, Map!ToApply(db, batch))
      BY <2>1, <2>2, <1>1, SameRules
  <2> QED BY <2>3, <2>4, <1>2 DEF Map!BatchPut, Map!AckOrDie
<1> QED BY <1>2, <1>7, <1>8, SameRules DEF Map!Next

\* The key is deleted.
LEMMA EraseKeeps ==
    ASSUME StoreInv, NEW c \in Clients, Erase(c)
    PROVE  StoreInv' /\ Map!Next
<1> DEFINE batch == op[c].batch
<1>1. op[c].at = "erase" /\ UNCHANGED up
    BY DEF Erase
<1>2. /\ up /\ batch \in Deletions /\ Holds(c, DOMAIN batch) /\ opened = families
    BY <1>1 DEF StoreInv, CallInv, FamiliesInv
<1>3. PICK k \in Keys : DOMAIN batch = {k}
    BY <1>2, DeletionFacts
<1>4. /\ GetOrCreateColumnFamily(CollectionOf[k])
      /\ db' = [db EXCEPT ![k] = Absent]
      /\ op' = [op EXCEPT ![c] = Back("ok")] /\ Unlock(c)
    BY <1>3 DEF Erase, Return
<1>5. Holds(c, {k})
    BY <1>2, <1>3
<1> HIDE DEF batch
<1>6. /\ families' \subseteq Collections /\ opened' = families' /\ opened \subseteq opened'
      /\ families \subseteq families'
  <2>1. CollectionOf[k] \in Collections
      BY RocksAssumption
  <2> QED BY <2>1, <1>2, <1>4 DEF GetOrCreateColumnFamily, StoreInv, Types
<1>7. /\ db' \in [Keys -> Value] /\ db'[k] = Absent
      /\ \A j \in Keys \ {k} : db'[j] = db[j]
  <2>1. db \in [Keys -> Value] /\ Absent \in Value
      BY DEF StoreInv, Types, Value
  <2> HIDE DEF Keys, Value
  <2> QED BY <2>1, <1>4
<1>8. FamiliesInv'
    BY <1>1, <1>2, <1>6, <1>7 DEF StoreInv, FamiliesInv
<1>9. op' \in [Clients -> Calls] /\ \A d \in Clients : CallInv(d)'
  <2>1. \A d \in Clients, j \in Keys : d # c /\ stripe[StripeOf[j]] = d => db'[j] = db[j]
      BY <1>5, <1>7, WriteOwn
  <2> QED BY <2>1, <1>1, <1>4, <1>6, UnlockFacts, ReturnKeeps
<1>10. StoreInv'
    BY <1>1, <1>4, <1>6, <1>7, <1>8, <1>9, UnlockFacts DEF StoreInv, Types
<1>11. up' \in BOOLEAN
    BY <1>1 DEF StoreInv, Types
<1>12. Map!Delete(k)
    BY <1>2, <1>4, <1>11 DEF Map!Delete, Map!AckOrDie
<1> QED BY <1>10, <1>12, SameRules DEF Map!Next

\* RocksDB refuses.
LEMMA FailKeeps ==
    ASSUME StoreInv, NEW c \in Clients, Fail(c)
    PROVE  StoreInv'
<1>1. PICK result \in {"out", "ok", "refused", "failed"} :
        op' = [op EXCEPT ![c] = Back(result)] /\ Unlock(c)
    BY DEF Fail, Return
<1>2. UNCHANGED <<db, families, opened, up>>
    BY DEF Fail
<1>3. op' \in [Clients -> Calls] /\ \A d \in Clients : CallInv(d)'
    BY <1>1, <1>2, UnlockFacts, ReturnKeeps
<1> QED BY <1>1, <1>2, <1>3, UnlockFacts DEF StoreInv, Types, FamiliesInv

\* The process ends: nothing is held and nobody is in a call.
LEMMA EndsKeeps ==
    ASSUME StoreInv, StoreEnds
    PROVE  StoreInv' /\ Map!Next
<1>1. op' \in [Clients -> Calls] /\ \A c \in Clients : op'[c] = Out
  <2>1. Out \in Calls
      BY CallType DEF Out
  <2> QED BY <2>1 DEF StoreEnds
<1>2. Out.at = "out" /\ Out.fresh = {}
    BY CallType DEF Out
<1>3. \A c \in Clients : CallInv(c)'
    BY <1>1, <1>2 DEF CallInv
<1>4. Types' /\ FamiliesInv'
    BY <1>1 DEF StoreInv, Types, FamiliesInv, StoreEnds
<1>5. Map!Die
    BY DEF StoreEnds, Map!Die
<1> QED BY <1>3, <1>4, <1>5 DEF StoreInv, Map!Next

\* The process starts.
LEMMA RecoverKeeps ==
    ASSUME StoreInv, \A c \in Clients : op[c] = Out, Recover
    PROVE  StoreInv' /\ Map!Next
<1>1. Out.at = "out" /\ Out.fresh = {}
    BY CallType DEF Out
<1>2. \A c \in Clients : op'[c] = Out
    BY DEF Recover
<1>3. \A c \in Clients : CallInv(c)'
    BY <1>1, <1>2 DEF CallInv
<1>4. Types' /\ FamiliesInv'
    BY DEF StoreInv, Types, FamiliesInv, Recover
<1>5. Map!Restart
    BY DEF Recover, Map!Restart
<1> QED BY <1>3, <1>4, <1>5 DEF StoreInv, Map!Next

-----------------------------------------------------------------------------
(***************************************************************************)
(* What the invariant is for.                                              *)
(***************************************************************************)
\* Before the first start nothing is stored and nobody calls.
LEMMA StoreInvInit == StoreInit => StoreInv /\ Map!Init
<1> SUFFICES ASSUME StoreInit PROVE StoreInv /\ Map!Init
    OBVIOUS
<1>1. Out \in Calls /\ Out.at = "out" /\ Out.fresh = {}
    BY CallType DEF Out
<1>2. op \in [Clients -> Calls] /\ \A c \in Clients : CallInv(c)
    BY <1>1 DEF StoreInit, CallInv
<1>3. db \in [Keys -> Value] /\ \A k \in Keys : db[k] = Absent
    BY DEF StoreInit, Nothing, Value
<1>4. Types /\ FamiliesInv
    BY <1>2, <1>3 DEF StoreInit, Types, FamiliesInv
<1> QED BY <1>2, <1>4 DEF StoreInv, StoreInit, Map!Init, Map!Nothing, Nothing, Map!Keys, Keys

\* The types of the store follow, and that what it has can be read.
LEMMA StoreInvTypes == StoreInv => StoreTypeOK /\ (up => \A k \in Keys : db[k] # Absent => Readable(k))
<1> SUFFICES ASSUME StoreInv PROVE StoreTypeOK /\ (up => \A k \in Keys : db[k] # Absent => Readable(k))
    OBVIOUS
<1>1. opened \subseteq families
    BY DEF StoreInv, FamiliesInv, Types
<1>2. ASSUME NEW c \in Clients
      PROVE  /\ op[c].at \in {"out", "ok", "refused", "failed", "lock", "read", "write", "erase"}
             /\ op[c].fresh \subseteq DOMAIN op[c].batch /\ DOMAIN op[c].batch \subseteq Keys
  <2>1. op[c] \in Calls /\ CallInv(c)
      BY DEF StoreInv, Types
  <2>2. DOMAIN NoBatch = {}
      BY DEF NoBatch
  <2>3. DOMAIN op[c].batch \subseteq Keys
      BY <2>1, <2>2, DomainInKeys DEF Calls
  <2> QED BY <2>1, <2>3 DEF Calls, CallInv
<1>3. StoreTypeOK
    BY <1>1, <1>2 DEF StoreInv, Types, StoreTypeOK
<1>4. up => \A k \in Keys : db[k] # Absent => Readable(k)
    BY DEF StoreInv, FamiliesInv, Readable
<1> QED BY <1>3, <1>4
=============================================================================
