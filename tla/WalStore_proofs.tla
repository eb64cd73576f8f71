--------------------------- MODULE WalStore_proofs ---------------------------
(***************************************************************************)
(* Theorems about WalStore, for any number of keys and records: its types, *)
(* and that one which started without files loses nothing it acknowledged, *)
(* whether the process ends in its writes or its files cannot be opened.   *)
(***************************************************************************)
EXTENDS WalStore, FiniteSetTheorems, WellFoundedInduction, TLAPS

\* The frames write keys of S only, each at most once, with the value it has in map.
WritesOf(frames, S, map) ==
    /\ frames \in Seq(Entry)
    /\ \A i \in 1..Len(frames) :
          frames[i].key \in S /\ frames[i].value = map[frames[i].key]
    /\ \A i, j \in 1..Len(frames) : frames[i].key = frames[j].key => i = j

\* Every key of S is written.
Covers(frames, S) == \A k \in S : \E i \in 1..Len(frames) : frames[i].key = k

\* A part of the keys is a finite set.
LEMMA KeysFinite ==
    ASSUME NEW S \in SUBSET Keys
    PROVE  IsFiniteSet(S) /\ Cardinality(S) \in Nat
<1>1. IsFiniteSet(Keys)
  BY FS_Interval, KvRecordAssumption DEF Keys
<1>2. IsFiniteSet(S)
  BY <1>1, FS_Subset
<1> QED
  BY <1>2, FS_CardinalityType

\* An ordering of S, in the sense of SetToSeqs, lists every element of S once.
LEMMA OrderLists ==
    ASSUME NEW S \in SUBSET Keys, NEW order \in SetToSeqs(S)
    PROVE  /\ order \in Seq(S)
           /\ \A i, j \in 1..Len(order) : order[i] = order[j] => i = j
           /\ \A k \in S : \E i \in 1..Len(order) : order[i] = k
<1> DEFINE n == Cardinality(S)
<1>1. n \in Nat /\ IsFiniteSet(S)
  BY KeysFinite
<1>2. /\ order \in [1..n -> S]
      /\ \A i, j \in 1..n : i # j => order[i] # order[j]
  BY DEF SetToSeqs
<1>3. order \in Seq(S) /\ Len(order) = n
  BY <1>1, <1>2
<1>4. ASSUME NEW k \in S, \A i \in 1..n : order[i] # k
      PROVE  FALSE
  <2>1. IsFiniteSet(S \ {k}) /\ Cardinality(S \ {k}) = n - 1
    BY <1>1, FS_RemoveElement
  <2>2. order \in [1..n -> S \ {k}]
    BY <1>2, <1>4
  <2>3. IsFiniteSet(1..n) /\ Cardinality(1..n) = n
    BY <1>1, FS_Interval
  <2>4. \E i, j \in 1..n : i # j /\ order[i] = order[j]
    BY <1>1, <2>1, <2>2, <2>3, FS_PigeonHole
  <2> QED
    BY <1>2, <2>4
<1> QED
  BY <1>2, <1>3, <1>4

\* The put frames of the keys of S, in any order, write S and cover it.
LEMMA PutsWrite ==
    ASSUME NEW S \in SUBSET Keys, NEW order \in SetToSeqs(S), NEW map \in [Keys -> Value]
    PROVE  WritesOf(Puts(order, map), S, map) /\ Covers(Puts(order, map), S)
<1> DEFINE frames == Puts(order, map)
<1>1. /\ order \in Seq(S)
      /\ \A i, j \in 1..Len(order) : order[i] = order[j] => i = j
      /\ \A k \in S : \E i \in 1..Len(order) : order[i] = k
  BY OrderLists
<1>2. Len(order) \in Nat /\ \A i \in 1..Len(order) : order[i] \in S
  BY <1>1
<1>3. \A i \in 1..Len(order) : PutEntry(order[i], map[order[i]]) \in Entry
  BY <1>2 DEF PutEntry, Entry
<1>4. frames \in Seq(Entry) /\ Len(frames) = Len(order)
  BY <1>2, <1>3 DEF Puts
<1>5. \A i \in 1..Len(order) : frames[i].key = order[i] /\ frames[i].value = map[order[i]]
  BY <1>2 DEF Puts, PutEntry
<1> HIDE DEF frames
<1>6. WritesOf(frames, S, map)
  BY <1>1, <1>2, <1>4, <1>5 DEF WritesOf
<1>7. Covers(frames, S)
  BY <1>1, <1>4, <1>5 DEF Covers
<1> QED
  BY <1>6, <1>7 DEF frames

\* A cut of the frames writes the same keys, or fewer of them.
LEMMA CutWritesOf ==
    ASSUME NEW S, NEW map, NEW frames, WritesOf(frames, S, map), NEW n \in 0..Len(frames)
    PROVE  WritesOf(SubSeq(frames, 1, n), S, map)
<1> DEFINE cut == SubSeq(frames, 1, n)
<1>1. frames \in Seq(Entry) /\ Len(frames) \in Nat
  BY DEF WritesOf
<1>2. cut \in Seq(Entry) /\ Len(cut) = n /\ \A i \in 1..n : cut[i] = frames[i]
  BY <1>1
<1> QED
  BY <1>1, <1>2 DEF WritesOf
-----------------------------------------------------------------------------
\* A non-empty finite set of positions has a last one.
LEMMA HasLast ==
    ASSUME NEW T, T \subseteq Nat, IsFiniteSet(T), T # {}
    PROVE  \E i \in T : \A j \in T : j <= i
<1> DEFINE After(i) == {j \in T : i < j}
           R == StrictSubsetOrdering(T)
<1>1. IsWellFoundedOn(R, SUBSET T)
  BY FS_StrictSubsetOrderingWellFounded, FS_FiniteSubsetsOfFinite
<1>2. {After(i) : i \in T} \subseteq SUBSET T /\ {After(i) : i \in T} # {}
  OBVIOUS
<1>3. PICK U \in {After(i) : i \in T} : \A W \in {After(i) : i \in T} : ~ (<<W, U>> \in R)
  <2> HIDE DEF R
  <2> QED
    BY <1>1, <1>2, WFMin
<1>4. PICK i \in T : U = After(i)
  BY <1>3
<1>5. ASSUME NEW j \in T, i < j
      PROVE  FALSE
  <2>1. After(j) \subseteq After(i) /\ j \in After(i) /\ ~ (j \in After(j))
    <3>1. i \in Nat /\ j \in Nat /\ \A m \in T : m \in Nat
      OBVIOUS
    <3>2. \A m \in T : j < m => i < m
      BY <1>5, <3>1
    <3>3. ~ (j < j)
      BY <3>1
    <3> QED
      BY <1>5, <3>2, <3>3, Zenon
  <2>2. <<After(j), After(i)>> \in R
    BY <2>1 DEF StrictSubsetOrdering
  <2> QED
    BY <1>3, <1>4, <2>2
<1> QED
  BY <1>5

\* The last touch of a key that is touched is one of its touches.
LEMMA LastTouchTouches ==
    ASSUME NEW log \in Seq(Entry), NEW k, Touches(log, k) # {}
    PROVE  LastTouch(log, k) \in Touches(log, k)
<1>1. Len(log) \in Nat
  OBVIOUS
<1>2. IsFiniteSet(1..Len(log))
  BY <1>1, FS_Interval
<1>3. Touches(log, k) \subseteq 1..Len(log) /\ Touches(log, k) \subseteq Nat
  BY <1>1 DEF Touches
<1>4. IsFiniteSet(Touches(log, k))
  BY <1>2, <1>3, FS_Subset
<1>5. \E i \in Touches(log, k) : \A j \in Touches(log, k) : j <= i
  BY <1>3, <1>4, HasLast
<1> QED
  BY <1>5 DEF LastTouch

\* A key the frames do not write is replayed as it was without them.
LEMMA ReplayUntouched ==
    ASSUME NEW base, NEW log \in Seq(Entry), NEW frames \in Seq(Entry), NEW k \in Keys,
           \A i \in 1..Len(frames) : frames[i].key # k
    PROVE  /\ Touches(log \o frames, k) = Touches(log, k)
           /\ Replay(base, log \o frames)[k] = Replay(base, log)[k]
<1> DEFINE whole == log \o frames
<1>1. /\ Len(log) \in Nat /\ Len(frames) \in Nat
      /\ Len(whole) = Len(log) + Len(frames)
      /\ \A i \in 1..Len(whole) :
            whole[i] = IF i <= Len(log) THEN log[i] ELSE frames[i - Len(log)]
  OBVIOUS
<1>2. \A i \in 1..Len(whole) : i <= Len(log) \/ i - Len(log) \in 1..Len(frames)
  BY <1>1
<1>3. Touches(whole, k) = Touches(log, k)
  BY <1>1, <1>2 DEF Touches
<1>4. \A i \in Touches(log, k) : whole[i] = log[i]
  BY <1>1 DEF Touches
<1> HIDE DEF whole
<1>5. LastTouch(whole, k) = LastTouch(log, k)
  BY <1>3 DEF LastTouch
<1>7. CASE Touches(log, k) = {}
  BY <1>3, <1>7 DEF Replay, whole
<1>8. CASE Touches(log, k) # {}
  <2>1. LastTouch(log, k) \in Touches(log, k)
    BY <1>8, LastTouchTouches
  <2> QED
    BY <1>3, <1>4, <1>5, <2>1 DEF Replay, whole
<1> QED
  BY <1>7, <1>8

\* A key the frames write once is replayed as they write it.
LEMMA ReplayWritten ==
    ASSUME NEW S, NEW map, NEW frames, WritesOf(frames, S, map),
           NEW w \in 1..Len(frames), NEW k \in Keys, frames[w].key = k,
           NEW base, NEW log \in Seq(Entry)
    PROVE  /\ Touches(log \o frames, k) # {}
           /\ Replay(base, log \o frames)[k] = map[k]
<1> DEFINE whole == log \o frames
           last  == Len(log) + w
<1>1. frames \in Seq(Entry) /\ Len(log) \in Nat /\ Len(frames) \in Nat
  BY DEF WritesOf
<1>2. /\ Len(whole) = Len(log) + Len(frames)
      /\ \A i \in 1..Len(whole) :
            whole[i] = IF i <= Len(log) THEN log[i] ELSE frames[i - Len(log)]
  BY <1>1
<1>3. last \in 1..Len(whole) /\ whole[last] = frames[w]
  BY <1>1, <1>2
<1>4. last \in Touches(whole, k)
  BY <1>3 DEF Touches
<1>5. ASSUME NEW j \in Touches(whole, k)
      PROVE  j <= last
  <2>1. j \in 1..Len(whole) /\ whole[j].key = k
    BY DEF Touches
  <2>2. CASE j <= Len(log)
    BY <1>1, <2>1, <2>2
  <2>3. CASE ~ (j <= Len(log))
    <3>1. j - Len(log) \in 1..Len(frames) /\ frames[j - Len(log)].key = k
      BY <1>1, <1>2, <2>1, <2>3
    <3>2. j - Len(log) = w
      BY <3>1 DEF WritesOf
    <3> QED
      BY <1>1, <2>1, <3>2
  <2> QED
    BY <2>2, <2>3
<1>6. Touches(whole, k) \subseteq Int
  BY DEF Touches
<1> HIDE DEF whole, last
<1>7. LastTouch(whole, k) = last
  <2>1. \A i \in Touches(whole, k) :
           (\A j \in Touches(whole, k) : j <= i) <=> i = last
    BY <1>4, <1>5, <1>6
  <2> QED
    BY <1>4, <2>1 DEF LastTouch
<1>8. whole[last].value = map[k]
  BY <1>3 DEF WritesOf
<1> QED
  BY <1>4, <1>7, <1>8 DEF Replay, whole
-----------------------------------------------------------------------------
\* A node whose first start found no file.
Fresh == StartLogs = {<<>>} /\ StartSnapshots = {Nothing}

\* The log knows of every key the snapshot has a record for.
LogHoldsAll ==
    \A k \in Keys : Touches(wal.entries, k) = {} => snapshot.content[k] = Absent

\* Only a cut header leaves a fresh node with a log that is not a framed one.
TextLogIsEmpty == wal.format # "proto" => wal.entries = <<>>

\* The inductive invariant of a fresh node whose files can always be opened.
IInv == TypeOK /\ LogHoldsAll /\ TextLogIsEmpty /\ MemoryIsDisk /\ DurableAck

\* What an operation may hand to Writes: frames that write the keys it changes.
OwnFrames(own, S, after) == \A f \in own : WritesOf(f, S, after) /\ Covers(f, S)

\* Every choice of Writes writes the changed keys, or in a rewrite the stored ones.
LEMMA FramesWrite ==
    ASSUME NEW S \in SUBSET Keys, NEW after \in [Keys -> Value],
           NEW own, OwnFrames(own, S, after), NEW frames \in Writes(own, after)
    PROVE  /\ wal.format # "text" => WritesOf(frames, S, after) /\ Covers(frames, S)
           /\ wal.format = "text" => /\ WritesOf(frames, Stored(after), after)
                                     /\ Covers(frames, Stored(after))
           /\ frames \in Seq(Entry)
<1>1. CASE wal.format # "text"
  BY <1>1 DEF Writes, OwnFrames, WritesOf
<1>2. CASE wal.format = "text"
  <2>1. PICK order \in InKeyOrder(Stored(after)) : frames = Puts(order, after)
    BY <1>2 DEF Writes
  <2>2. order \in SetToSeqs(Stored(after)) /\ Stored(after) \in SUBSET Keys
    BY <2>1 DEF InKeyOrder, Stored
  <2>3. WritesOf(frames, Stored(after), after) /\ Covers(frames, Stored(after))
    BY <2>1, <2>2, PutsWrite
  <2> QED
    BY <1>2, <2>3 DEF WritesOf
<1> QED
  BY <1>1, <1>2

\* Nothing is replayed for a key of a fresh node whose log has no frame of it.
LEMMA UntouchedAbsent ==
    ASSUME LogHoldsAll, NEW k \in Keys, Touches(wal.entries, k) = {}
    PROVE  Disk[k] = Absent
<1>1. ReplaySnapshot[k] = Absent
  BY DEF LogHoldsAll, ReplaySnapshot, Nothing
<1> QED
  BY <1>1 DEF Disk, Replay

\* With a frame for every key the snapshot has, the snapshot adds nothing.
LEMMA DiskIsByLog == LogHoldsAll => LogAloneSuffices
<1> SUFFICES ASSUME LogHoldsAll PROVE Disk = Replay(Nothing, wal.entries)
  BY DEF LogAloneSuffices
<1>1. ASSUME NEW k \in Keys
      PROVE  Disk[k] = Replay(Nothing, wal.entries)[k]
  <2>1. CASE Touches(wal.entries, k) = {}
    BY <2>1, UntouchedAbsent DEF Replay, Nothing
  <2>2. CASE Touches(wal.entries, k) # {}
    BY <2>2 DEF Disk, Replay
  <2> QED
    BY <2>1, <2>2
<1> QED
  BY <1>1 DEF Disk, Replay

\* The heart of it: once n of the frames of an operation are in the log, a restart
\* finds under each key what it would have found before or what the operation leaves
\* there, and once all of them are, what the operation leaves.
LEMMA AppendedFrames ==
    ASSUME IInv, status = "up",
           NEW S \in SUBSET Keys, NEW after \in [Keys -> Value],
           \A k \in Keys \ S : after[k] = records[k],
           NEW own, OwnFrames(own, S, after), NEW frames \in Writes(own, after),
           NEW n \in 0..Len(frames), wal'.entries = Kept \o SubSeq(frames, 1, n),
           snapshot' = snapshot
    PROVE  /\ \A k \in Keys : /\ Disk'[k] \in {Disk[k], after[k]}
                              /\ n = Len(frames) => Disk'[k] = after[k]
           /\ LogHoldsAll'
<1> DEFINE cut == SubSeq(frames, 1, n)
           K   == IF wal.format = "text" THEN Stored(after) ELSE S
<1>1. WritesOf(frames, K, after) /\ Covers(frames, K) /\ frames \in Seq(Entry)
  BY FramesWrite
<1>2. WritesOf(cut, K, after) /\ cut \in Seq(Entry) /\ (n = Len(frames) => cut = frames)
  <2>1. WritesOf(cut, K, after)
    BY <1>1, CutWritesOf
  <2>2. n = Len(frames) => cut = frames
    BY <1>1
  <2> QED
    BY <2>1, <2>2 DEF WritesOf
<1>3. /\ Kept = wal.entries /\ wal.entries \in Seq(Entry)
      /\ wal.format = "text" => wal.entries = <<>>
  BY DEF IInv, TypeOK, TextLogIsEmpty, Kept
<1>4. ReplaySnapshot' = ReplaySnapshot
  BY DEF ReplaySnapshot
<1> HIDE DEF cut, K
<1>5. ASSUME NEW k \in Keys
      PROVE  /\ Disk'[k] \in {Disk[k], after[k]}
             /\ n = Len(frames) => Disk'[k] = after[k]
             /\ Touches(wal'.entries, k) = {} => snapshot'.content[k] = Absent
  <2>1. CASE \E w \in 1..Len(cut) : cut[w].key = k
    <3>1. PICK w \in 1..Len(cut) : cut[w].key = k
      BY <2>1
    <3>2. /\ Touches(wal.entries \o cut, k) # {}
          /\ Replay(ReplaySnapshot, wal.entries \o cut)[k] = after[k]
      <4>1. wal.entries \in Seq(Entry) /\ WritesOf(cut, K, after)
        BY <1>2, <1>3
      <4>2. \A base : \A log \in Seq(Entry) :
               /\ Touches(log \o cut, k) # {}
               /\ Replay(base, log \o cut)[k] = after[k]
        BY <3>1, <4>1, ReplayWritten
      <4> QED
        BY <4>1, <4>2
    <3> QED
      BY <1>3, <1>4, <3>2 DEF Disk, cut
  <2>2. CASE ~ \E w \in 1..Len(cut) : cut[w].key = k
    <3>1. /\ Touches(wal.entries \o cut, k) = Touches(wal.entries, k)
          /\ Replay(ReplaySnapshot, wal.entries \o cut)[k]
             = Replay(ReplaySnapshot, wal.entries)[k]
      BY <1>2, <1>3, <2>2, ReplayUntouched
    <3>2. Disk'[k] = Disk[k]
      BY <1>3, <1>4, <3>1 DEF Disk, cut
    <3>3. Touches(wal'.entries, k) = {} => snapshot'.content[k] = Absent
      BY <1>3, <3>1 DEF IInv, LogHoldsAll, cut
    <3>4. n = Len(frames) => Disk[k] = after[k]
      <4> SUFFICES ASSUME n = Len(frames) PROVE Disk[k] = after[k]
        OBVIOUS
      <4>1. k \notin K
        BY <1>1, <1>2, <2>2 DEF Covers
      <4> USE DEF K
      <4>2. CASE wal.format = "text"
        <5>1. Touches(wal.entries, k) = {}
          BY <1>3, <4>2 DEF Touches
        <5>2. Disk[k] = Absent
          BY <5>1, UntouchedAbsent DEF IInv
        <5> QED
          BY <4>1, <4>2, <5>2 DEF Stored
      <4>3. CASE wal.format # "text"
        BY <4>1, <4>3 DEF IInv, MemoryIsDisk
      <4> QED
        BY <4>2, <4>3
    <3> QED
      BY <3>2, <3>3, <3>4
  <2> QED
    BY <2>1, <2>2
<1> QED
  BY <1>5 DEF LogHoldsAll
-----------------------------------------------------------------------------
\* A log of typed frames replayed on a typed map gives a typed map.
LEMMA ReplayTyped ==
    ASSUME NEW base \in [Keys -> Value], NEW log \in Seq(Entry)
    PROVE  Replay(base, log) \in [Keys -> Value]
<1>1. ASSUME NEW k \in Keys, Touches(log, k) # {}
      PROVE  log[LastTouch(log, k)].value \in Value
  <2>1. LastTouch(log, k) \in Touches(log, k)
    BY <1>1, LastTouchTouches
  <2>2. LastTouch(log, k) \in 1..Len(log)
    BY <2>1 DEF Touches
  <2>3. \A i \in 1..Len(log) : log[i] \in Entry
    OBVIOUS
  <2>4. \A e \in Entry : e.value \in Value
    BY DEF Entry
  <2> QED
    BY <2>2, <2>3, <2>4
<1> QED
  BY <1>1 DEF Replay

\* The empty map is a map of records.
LEMMA NothingTyped == Nothing \in [Keys -> Value]
  BY DEF Nothing, Value

\* What a restart finds is a map of records.
LEMMA DiskTyped == TypeOK => Disk \in [Keys -> Value]
<1> SUFFICES ASSUME TypeOK PROVE Disk \in [Keys -> Value]
  OBVIOUS
<1>1. ReplaySnapshot \in [Keys -> Value] /\ wal.entries \in Seq(Entry)
  BY NothingTyped DEF TypeOK, ReplaySnapshot
<1> QED
  BY <1>1, ReplayTyped DEF Disk

\* The frames that Put, Delete and BatchPut hand to Writes.
LEMMA OneOwnFrame ==
    ASSUME NEW k \in Keys, NEW v \in Value
    PROVE  LET after == [records EXCEPT ![k] = v]
           IN  TypeOK => /\ after \in [Keys -> Value]
                         /\ \A j \in Keys \ {k} : after[j] = records[j]
                         /\ OwnFrames({<<[key |-> k, value |-> v]>>}, {k}, after)
<1> DEFINE after == [records EXCEPT ![k] = v]
           e == [key |-> k, value |-> v]
<1> SUFFICES ASSUME TypeOK
             PROVE  /\ after \in [Keys -> Value]
                    /\ \A j \in Keys \ {k} : after[j] = records[j]
                    /\ OwnFrames({<<e>>}, {k}, after)
  OBVIOUS
<1>1. /\ after \in [Keys -> Value]
      /\ \A j \in Keys \ {k} : after[j] = records[j]
      /\ after[k] = v
  BY DEF TypeOK
<1>2. e \in Entry /\ e.key = k /\ e.value = v
  BY DEF Entry
<1>3. /\ <<e>> \in Seq(Entry) /\ Len(<<e>>) = 1
      /\ \A i \in 1..1 : i = 1 /\ <<e>>[i] = e
  BY <1>2
<1> HIDE DEF after, e
<1>4. WritesOf(<<e>>, {k}, after) /\ Covers(<<e>>, {k})
  BY <1>1, <1>2, <1>3 DEF WritesOf, Covers
<1> QED
  BY <1>1, <1>4 DEF OwnFrames

\* A batch's frames are of the keys it applies, with the values they then have in memory.
LEMMA BatchOwnFrames ==
    ASSUME NEW batch \in Batches, NEW S \in SUBSET DOMAIN batch, TypeOK
    PROVE  LET after == Staged(records, batch, S)
           IN  /\ S \in SUBSET Keys
               /\ DOMAIN batch \in SUBSET Keys
               /\ after \in [Keys -> Value]
               /\ \A j \in Keys \ S : after[j] = records[j]
               /\ \A j \in S : after[j] = batch[j]
               /\ OwnFrames({Puts(order, after) : order \in SetToSeqs(S)}, S, after)
<1> DEFINE after == Staged(records, batch, S)
<1>1. PICK P \in (SUBSET Keys) \ {{}} : batch \in [P -> Record]
  BY DEF Batches
<1>2. S \in SUBSET Keys /\ DOMAIN batch \in SUBSET Keys /\ \A k \in S : batch[k] \in Value
  BY <1>1 DEF Value
<1>3. /\ after \in [Keys -> Value]
      /\ \A j \in Keys \ S : after[j] = records[j]
      /\ \A j \in S : after[j] = batch[j]
  BY <1>2 DEF Staged, TypeOK
<1> HIDE DEF after
<1>4. OwnFrames({Puts(order, after) : order \in SetToSeqs(S)}, S, after)
  BY <1>2, <1>3, PutsWrite DEF OwnFrames
<1> QED
  BY <1>2, <1>3, <1>4 DEF after

\* The files an append may leave if the process ends during it: n of the frames are
\* in, or a file that had no header yet holds none of them.
LEMMA CutWritesAre ==
    ASSUME NEW frames \in Seq(Entry), wal' \in CutWrites(frames)
    PROVE  \/ \E n \in 0..Len(frames), torn \in BOOLEAN :
                 wal' = LogFile(Kept \o SubSeq(frames, 1, n), torn)
           \/ /\ wal.format # "proto"
              /\ \E f \in {"empty", "text"} :
                    wal' = [format |-> f, entries |-> <<>>, torn |-> FALSE]
<1>1. /\ Len(frames) \in 0..Len(frames)
      /\ SubSeq(frames, 1, Len(frames)) = frames
      /\ \A n \in 0..(Len(frames) - 1) : n \in 0..Len(frames)
  OBVIOUS
<1>2. \/ \E n \in 0..(Len(frames) - 1), torn \in BOOLEAN :
             wal' = LogFile(Kept \o SubSeq(frames, 1, n), torn)
      \/ wal' = LogFile(Kept \o frames, FALSE)
      \/ /\ wal.format # "proto"
         /\ \E f \in {"empty", "text"} :
               wal' = [format |-> f, entries |-> <<>>, torn |-> FALSE]
  <2> DEFINE A == {LogFile(Kept \o SubSeq(frames, 1, n), torn) :
                      n \in 0..(Len(frames) - 1), torn \in BOOLEAN}
             B == {[format |-> f, entries |-> <<>>, torn |-> FALSE] : f \in {"empty", "text"}}
  <2>1. CutWrites(frames) = A \cup {WholeWrite(frames)}
                              \cup IF wal.format = "proto" THEN {} ELSE B
    BY DEF CutWrites
  <2>2. wal' \in A \/ wal' = WholeWrite(frames) \/ (wal.format # "proto" /\ wal' \in B)
    <3> HIDE DEF A, B
    <3> QED
      BY <2>1
  <2>3. wal' \in A => \E n \in 0..(Len(frames) - 1), torn \in BOOLEAN :
                          wal' = LogFile(Kept \o SubSeq(frames, 1, n), torn)
    OBVIOUS
  <2>4. wal' \in B => \E f \in {"empty", "text"} :
                          wal' = [format |-> f, entries |-> <<>>, torn |-> FALSE]
    BY Zenon
  <2>5. WholeWrite(frames) = LogFile(Kept \o frames, FALSE)
    BY DEF WholeWrite
  <2> HIDE DEF A, B
  <2> QED
    BY <2>2, <2>3, <2>4, <2>5
<1> QED
  BY <1>1, <1>2, Zenon

\* However an operation ends, it leaves typed files and promises.
LEMMA AppendTyped ==
    ASSUME TypeOK, NEW S \in SUBSET Keys, NEW after \in [Keys -> Value],
           NEW own, OwnFrames(own, S, after), NEW P \in SUBSET Keys,
           \/ Acknowledge(own, after, P)
           \/ EndInAppend(own, after, P)
           \/ FailToAppend(after, P)
    PROVE  TypeOK'
<1>1. Kept \in Seq(Entry)
  BY DEF Kept, TypeOK
<1>2. ASSUME NEW frames \in Writes(own, after), NEW n \in 0..Len(frames)
      PROVE  Kept \o SubSeq(frames, 1, n) \in Seq(Entry) /\ Kept \o frames \in Seq(Entry)
  <2>1. frames \in Seq(Entry)
    BY FramesWrite
  <2> QED
    BY <1>1, <2>1
<1>3. CASE Acknowledge(own, after, P)
  <2>1. wal' \in [format : {"empty", "text", "proto"}, entries : Seq(Entry), torn : BOOLEAN]
    BY <1>2, <1>3 DEF Acknowledge, WholeWrite, LogFile
  <2>2. allowed' \in [Keys -> SUBSET Value]
    BY <1>3 DEF Acknowledge, Promise, TypeOK
  <2> QED
    BY <1>3, <2>1, <2>2 DEF Acknowledge, TypeOK
<1>4. CASE EndInAppend(own, after, P)
  <2>1. PICK frames \in Writes(own, after) : wal' \in CutWrites(frames)
    BY <1>4 DEF EndInAppend
  <2>2. frames \in Seq(Entry)
    BY FramesWrite
  <2>3. wal' \in [format : {"empty", "text", "proto"}, entries : Seq(Entry), torn : BOOLEAN]
    <3>1. CASE \E n \in 0..Len(frames), torn \in BOOLEAN :
                  wal' = LogFile(Kept \o SubSeq(frames, 1, n), torn)
      BY <1>2, <3>1 DEF LogFile
    <3>2. CASE \E f \in {"empty", "text"} :
                  wal' = [format |-> f, entries |-> <<>>, torn |-> FALSE]
      BY <3>2
    <3> QED
      BY <2>1, <2>2, <3>1, <3>2, CutWritesAre, Zenon
  <2>4. allowed' \in [Keys -> SUBSET Value]
    BY <1>4 DEF EndInAppend, LeaveOpen, TypeOK
  <2> QED
    BY <1>4, <2>3, <2>4, NothingTyped DEF EndInAppend, ProcessEnds, TypeOK
<1>5. CASE FailToAppend(after, P)
  <2>1. allowed' \in [Keys -> SUBSET Value]
    BY <1>5 DEF FailToAppend, LeaveOpen, TypeOK
  <2> QED
    BY <1>5, <2>1 DEF FailToAppend, TypeOK
<1> QED
  BY <1>3, <1>4, <1>5

\* A cut of a typed map is a typed snapshot file.
LEMMA CutSnapshotsTyped ==
    ASSUME NEW map \in [Keys -> Value], NEW s \in CutSnapshots(map)
    PROVE  /\ s \in [content : [Keys -> Value], torn : BOOLEAN]
           /\ \A k \in Keys : s.content[k] \in {Absent, map[k]}
<1>1. ASSUME NEW cut
      PROVE  /\ Below(cut, map) \in [Keys -> Value]
             /\ \A k \in Keys : Below(cut, map)[k] \in {Absent, map[k]}
  BY DEF Below, Value
<1>2. \/ \E cut \in 1..(KeyCount + 1) : s = [content |-> Below(cut, map), torn |-> FALSE]
      \/ \E cut \in Stored(map) \cup {1} : s = [content |-> Below(cut, map), torn |-> TRUE]
  BY Zenon DEF CutSnapshots, WholeSnapshot
<1>3. ASSUME NEW cut, NEW torn \in BOOLEAN, s = [content |-> Below(cut, map), torn |-> torn]
      PROVE  /\ s \in [content : [Keys -> Value], torn : BOOLEAN]
             /\ \A k \in Keys : s.content[k] \in {Absent, map[k]}
  BY <1>1, <1>3
<1> QED
  BY <1>2, <1>3
-----------------------------------------------------------------------------
\* Below(1, m) and the map a failed start flushes are typed.
LEMMA ReplaySnapshotTyped == TypeOK => ReplaySnapshot \in [Keys -> Value]
  BY NothingTyped DEF TypeOK, ReplaySnapshot

\* The first start finds one of the files it may find.
LEMMA InitTyped == Init => TypeOK
<1> SUFFICES ASSUME Init PROVE TypeOK
  OBVIOUS
<1>1. records \in [Keys -> Value]
  BY NothingTyped DEF Init
<1>2. wal \in [format : {"empty", "text", "proto"}, entries : Seq(Entry), torn : BOOLEAN]
  <2>1. PICK log \in StartLogs :
           wal = [format |-> IF log = <<>> THEN "empty" ELSE "text",
                  entries |-> log, torn |-> FALSE]
    BY DEF Init
  <2>2. log \in Seq(Entry)
    BY WalStoreAssumption
  <2> QED
    BY <2>1, <2>2
<1>3. snapshot \in [content : [Keys -> Value], torn : BOOLEAN]
  BY WalStoreAssumption DEF Init, WholeSnapshot
<1>4. wal.entries \in Seq(Entry) /\ ReplaySnapshot \in [Keys -> Value]
  BY <1>2, <1>3, NothingTyped DEF ReplaySnapshot
<1>5. Disk \in [Keys -> Value]
  BY <1>4, ReplayTyped DEF Disk
<1>6. allowed \in [Keys -> SUBSET Value]
  BY <1>5 DEF Init
<1> QED
  BY <1>1, <1>2, <1>3, <1>6 DEF Init, TypeOK

\* Every step keeps the types, whatever the fault and the files of the first start.
LEMMA StepTyped == TypeOK /\ [Next]_vars => TypeOK'
<1> SUFFICES ASSUME TypeOK, [Next]_vars PROVE TypeOK'
  OBVIOUS
<1>1. ASSUME NEW k \in Keys, NEW r \in Record, Put(k, r)
      PROVE  TypeOK'
  <2> DEFINE after == [records EXCEPT ![k] = r]
             own   == {<<PutEntry(k, r)>>}
  <2>1. r \in Value
    BY DEF Value
  <2>2. after \in [Keys -> Value] /\ OwnFrames(own, {k}, after)
    BY <2>1, OneOwnFrame DEF PutEntry
  <2>3. \/ Acknowledge(own, after, {k})
        \/ EndInAppend(own, after, {k})
        \/ FailToAppend(after, {k})
    BY <1>1 DEF Put
  <2> HIDE DEF after, own
  <2> QED
    BY <2>2, <2>3, AppendTyped
<1>2. ASSUME NEW k \in Keys, NEW r \in Record, PutRepeated(k, r)
      PROVE  TypeOK'
  BY <1>2 DEF PutRepeated, Promise, TypeOK
<1>3. ASSUME NEW k \in Keys, Delete(k)
      PROVE  TypeOK'
  <2> DEFINE after == [records EXCEPT ![k] = Absent]
             own   == {<<DeleteEntry(k)>>}
  <2>1. Absent \in Value
    BY DEF Value
  <2>2. after \in [Keys -> Value] /\ OwnFrames(own, {k}, after)
    BY <2>1, OneOwnFrame DEF DeleteEntry
  <2>3. \/ Acknowledge(own, after, {k})
        \/ EndInAppend(own, after, {k})
        \/ FailToAppend(after, {k})
    BY <1>3 DEF Delete
  <2> HIDE DEF after, own
  <2> QED
    BY <2>2, <2>3, AppendTyped
<1>4. ASSUME NEW batch \in Batches, BatchPut(batch)
      PROVE  TypeOK'
  <2> DEFINE S     == ToApply(records, batch)
             after == Staged(records, batch, S)
             own   == {Puts(order, after) : order \in SetToSeqs(S)}
  <2>1. S \in SUBSET DOMAIN batch
    BY DEF ToApply
  <2>2. /\ S \in SUBSET Keys /\ DOMAIN batch \in SUBSET Keys
        /\ after \in [Keys -> Value] /\ OwnFrames(own, S, after)
    <3> HIDE DEF S
    <3> QED
      BY <2>1, BatchOwnFrames
  <2>3. Acknowledge(own, after, DOMAIN batch) \/ EndInAppend(own, after, S)
    BY <1>4 DEF BatchPut
  <2> HIDE DEF S, after, own
  <2> QED
    BY <2>2, <2>3, AppendTyped
<1>5. ASSUME NEW batch \in Batches, BatchPutRepeated(batch)
      PROVE  TypeOK'
  BY <1>5 DEF BatchPutRepeated, Promise, TypeOK
<1>6. CASE FlushSnapshot
  BY <1>6 DEF FlushSnapshot, WholeSnapshot, TypeOK
<1>7. CASE Shutdown
  BY <1>7, NothingTyped DEF Shutdown, ProcessEnds, WholeSnapshot, TypeOK
<1>8. CASE EndInFlush
  BY <1>8, NothingTyped, CutSnapshotsTyped DEF EndInFlush, ProcessEnds, TypeOK
<1>9. CASE Crash
  BY <1>9, NothingTyped DEF Crash, ProcessEnds, TypeOK
<1>10. CASE Recover
  BY <1>10, DiskTyped DEF Recover, TypeOK
<1>11. CASE RecoverBlind
  <2>1. PICK base \in {snapshot.content, Nothing}, log \in {wal.entries, <<>>} :
           records' = Replay(base, log)
    BY <1>11 DEF RecoverBlind
  <2>2. base \in [Keys -> Value] /\ log \in Seq(Entry)
    <3>1. snapshot.content \in [Keys -> Value] /\ wal.entries \in Seq(Entry)
      BY DEF TypeOK
    <3>2. <<>> \in Seq(Entry)
      OBVIOUS
    <3> QED
      BY <3>1, <3>2, NothingTyped
  <2>3. records' \in [Keys -> Value]
    BY <2>1, <2>2, ReplayTyped
  <2> QED
    BY <1>11, <2>3 DEF RecoverBlind, TypeOK
<1>12. CASE FailedStart
  BY <1>12, ReplaySnapshotTyped DEF FailedStart, WholeSnapshot, TypeOK
<1>13. CASE EndInFailedStart
  BY <1>13, ReplaySnapshotTyped, CutSnapshotsTyped DEF EndInFailedStart, TypeOK
<1>14. CASE UNCHANGED vars
  BY <1>14 DEF vars, TypeOK
<1> QED
  BY <1>1, <1>2, <1>3, <1>4, <1>5, <1>6, <1>7, <1>8, <1>9, <1>10, <1>11, <1>12,
     <1>13, <1>14 DEF Next

\* The variables of the store keep their types for every number of keys, every kind of
\* record, every fault and whatever files the first start finds.
THEOREM TypeCorrect == Spec => []TypeOK
<1>1. Init => TypeOK
  BY InitTyped
<1>2. TypeOK /\ [Next]_vars => TypeOK'
  BY StepTyped
<1> QED
  BY <1>1, <1>2, PTL DEF Spec
-----------------------------------------------------------------------------
\* A snapshot that has records only for keys the log knows of does not matter.
LEMMA SnapshotIsMoot ==
    ASSUME NEW base, NEW log,
           \A k \in Keys : Touches(log, k) = {} => base[k] = Absent
    PROVE  Replay(base, log) = Replay(Nothing, log)
<1>1. ASSUME NEW k \in Keys
      PROVE  Replay(base, log)[k] = Replay(Nothing, log)[k]
  BY DEF Replay, Nothing
<1> QED
  BY <1>1 DEF Replay

\* Overwriting or cutting the snapshot changes nothing a restart would find.
LEMMA SnapshotKeeps ==
    ASSUME LogHoldsAll, LogHoldsAll', wal' = wal
    PROVE  Disk' = Disk
<1>1. \A k \in Keys : Touches(wal.entries, k) = {} => ReplaySnapshot[k] = Absent
  BY DEF LogHoldsAll, ReplaySnapshot, Nothing
<1>2. \A k \in Keys : Touches(wal'.entries, k) = {} => ReplaySnapshot'[k] = Absent
  BY DEF LogHoldsAll, ReplaySnapshot, Nothing
<1>3. Replay(ReplaySnapshot, wal.entries) = Replay(Nothing, wal.entries)
  BY <1>1, SnapshotIsMoot
<1>4. Replay(ReplaySnapshot', wal.entries) = Replay(Nothing, wal.entries)
  BY <1>2, SnapshotIsMoot
<1> QED
  BY <1>3, <1>4 DEF Disk

\* An operation that leaves after in the keys of S, however it ends: the invariant is
\* kept, and a restart finds under a key what it would have found or what is in after.
LEMMA OperationKeeps ==
    ASSUME IInv, status = "up",
           NEW S \in SUBSET Keys, NEW after \in [Keys -> Value],
           \A k \in Keys \ S : after[k] = records[k],
           NEW own, OwnFrames(own, S, after), NEW P \in SUBSET Keys, S \subseteq P,
           Acknowledge(own, after, P) \/ EndInAppend(own, after, S)
    PROVE  /\ IInv'
           /\ \A k \in Keys : Disk'[k] \in {Disk[k], after[k]}
           /\ Acknowledge(own, after, P) => Disk' = after
<1>1. records = Disk
  BY DEF IInv, MemoryIsDisk
<1>2. TypeOK'
  BY AppendTyped DEF IInv
<1>3. \A k \in Keys \ S : after[k] = Disk[k]
  BY <1>1
<1>4. Disk' = [k \in Keys |-> Disk'[k]] /\ Disk = [k \in Keys |-> Disk[k]]
  BY DEF Disk, Replay
<1>5. CASE Acknowledge(own, after, P)
  <2>1. PICK frames \in Writes(own, after) : wal' = WholeWrite(frames)
    BY <1>5 DEF Acknowledge
  <2>2. frames \in Seq(Entry)
    BY FramesWrite DEF IInv
  <2>3. Len(frames) \in 0..Len(frames) /\ SubSeq(frames, 1, Len(frames)) = frames
    BY <2>2
  <2>4. wal'.entries = Kept \o SubSeq(frames, 1, Len(frames)) /\ wal'.format = "proto"
    BY <2>1, <2>3 DEF WholeWrite, LogFile
  <2>5. snapshot' = snapshot
    BY <1>5 DEF Acknowledge
  <2>6. (\A k \in Keys : Disk'[k] = after[k]) /\ LogHoldsAll'
    BY <2>3, <2>4, <2>5, AppendedFrames
  <2>7. Disk' = after
    BY <1>4, <2>6
  <2>8. MemoryIsDisk'
    BY <1>5, <2>7 DEF Acknowledge, MemoryIsDisk
  <2>9. DurableAck'
    <3>1. ASSUME NEW k \in Keys
          PROVE  Disk'[k] \in allowed'[k]
      <4>1. CASE k \in P
        BY <1>5, <2>7, <4>1 DEF Acknowledge, Promise
      <4>2. CASE k \notin P
        <5>1. allowed'[k] = allowed[k]
          BY <1>5, <4>2 DEF Acknowledge, Promise
        <5> QED
          BY <5>1, <2>7, <1>3, <4>2 DEF IInv, DurableAck
      <4> QED
        BY <4>1, <4>2
    <3> QED
      BY <3>1 DEF DurableAck
  <2> QED
    BY <1>2, <2>4, <2>6, <2>7, <2>8, <2>9 DEF IInv, TextLogIsEmpty
<1>6. CASE EndInAppend(own, after, S)
  <2>1. PICK frames \in Writes(own, after) : wal' \in CutWrites(frames)
    BY <1>6 DEF EndInAppend
  <2>2. frames \in Seq(Entry)
    BY FramesWrite DEF IInv
  <2>3. snapshot' = snapshot /\ status' = "down"
    BY <1>6 DEF EndInAppend, ProcessEnds
  <2>4. /\ \A k \in Keys : Disk'[k] \in {Disk[k], after[k]}
        /\ LogHoldsAll' /\ TextLogIsEmpty'
    <3>1. CASE \E n \in 0..Len(frames), torn \in BOOLEAN :
                  wal' = LogFile(Kept \o SubSeq(frames, 1, n), torn)
      <4>1. PICK n \in 0..Len(frames), torn \in BOOLEAN :
                    wal' = LogFile(Kept \o SubSeq(frames, 1, n), torn)
        BY <3>1
      <4>2. wal'.entries = Kept \o SubSeq(frames, 1, n) /\ wal'.format = "proto"
        BY <4>1 DEF LogFile
      <4> QED
        BY <4>2, <2>3, AppendedFrames DEF TextLogIsEmpty
    <3>2. CASE /\ wal.format # "proto"
               /\ \E f \in {"empty", "text"} :
                     wal' = [format |-> f, entries |-> <<>>, torn |-> FALSE]
      <4>1. wal.entries = <<>> /\ wal'.entries = <<>>
        BY <3>2 DEF IInv, TextLogIsEmpty
      <4>2. LogHoldsAll'
        BY <4>1, <2>3 DEF IInv, LogHoldsAll
      <4>3. Disk' = Disk
        BY <4>1, <2>3 DEF Disk, ReplaySnapshot
      <4> QED
        BY <4>1, <4>2, <4>3 DEF TextLogIsEmpty
    <3> QED
      BY <2>1, <2>2, <3>1, <3>2, CutWritesAre
  <2>5. MemoryIsDisk'
    BY <2>3 DEF MemoryIsDisk
  <2>6. DurableAck'
    <3>1. ASSUME NEW k \in Keys
          PROVE  Disk'[k] \in allowed'[k]
      <4>1. CASE k \in S
        <5>1. allowed'[k] = allowed[k] \cup {after[k]}
          BY <1>6, <4>1 DEF EndInAppend, LeaveOpen
        <5> QED
          BY <5>1, <2>4 DEF IInv, DurableAck
      <4>2. CASE k \notin S
        <5>1. allowed'[k] = allowed[k]
          BY <1>6, <4>2 DEF EndInAppend, LeaveOpen
        <5> QED
          BY <5>1, <2>4, <1>3, <4>2 DEF IInv, DurableAck
      <4> QED
        BY <4>1, <4>2
    <3> QED
      BY <3>1 DEF DurableAck
  <2>7. ~ Acknowledge(own, after, P)
    BY <2>3 DEF Acknowledge
  <2> QED
    BY <1>2, <2>4, <2>5, <2>6, <2>7 DEF IInv
<1> QED
  BY <1>5, <1>6

\* A fresh node starts in the invariant.
LEMMA FreshInit == Fresh /\ Init => IInv
<1> SUFFICES ASSUME Fresh, Init PROVE IInv
  OBVIOUS
<1>1. wal.entries = <<>> /\ snapshot.content = Nothing
  BY DEF Fresh, Init, WholeSnapshot
<1>2. LogHoldsAll
  BY <1>1 DEF LogHoldsAll, Nothing
<1>3. TextLogIsEmpty /\ MemoryIsDisk
  BY <1>1 DEF Init, TextLogIsEmpty, MemoryIsDisk
<1>4. DurableAck
  BY DEF Init, DurableAck
<1> QED
  BY <1>2, <1>3, <1>4, InitTyped DEF IInv

\* An operation that ends the process half-way is, for a restart, a part of it.
LEMMA EndsInPart ==
    ASSUME NEW S \in SUBSET Keys, NEW after,
           \A k \in Keys : Disk'[k] \in {Disk[k], after[k]},
           \A k \in Keys \ S : after[k] = Disk[k]
    PROVE  LET part == {k \in S : Disk'[k] = after[k]}
           IN  Disk' = [k \in Keys |-> IF k \in part THEN after[k] ELSE Disk[k]]
<1>1. Disk' = [k \in Keys |-> Disk'[k]]
  BY DEF Disk, Replay
<1> QED
  BY <1>1

\* The step of the induction: a step keeps the invariant and is, for a restart, a step
\* of the durable map.
LEMMA FreshStep ==
    ASSUME Fault # "open", IInv, [Next]_vars
    PROVE  IInv' /\ [Map!Next]_(Map!vars)
<1>t. TypeOK /\ TypeOK'
  BY StepTyped DEF IInv
<1>d. Disk \in [Keys -> Value] /\ Disk = [k \in Keys |-> Disk[k]]
  BY <1>t, DiskTyped
<1>m. status = "up" => records = Disk
  BY DEF IInv, MemoryIsDisk
<1>s. ASSUME wal' = wal, LogHoldsAll', MemoryIsDisk', allowed' = allowed
      PROVE  IInv' /\ Disk' = Disk
  <2>1. Disk' = Disk
    BY <1>s, SnapshotKeeps DEF IInv
  <2> QED
    BY <1>s, <1>t, <2>1 DEF IInv, TextLogIsEmpty, DurableAck
<1>u. ASSUME NEW P, UNCHANGED <<records, wal, snapshot, status>>, status = "up",
             Promise(P, records)
      PROVE  IInv' /\ [Map!Next]_(Map!vars)
  <2>1. Disk' = Disk
    BY <1>u DEF Disk, ReplaySnapshot
  <2>2. DurableAck'
    BY <1>u, <1>m, <2>1 DEF IInv, DurableAck, Promise
  <2>3. LogHoldsAll' /\ TextLogIsEmpty' /\ MemoryIsDisk'
    BY <1>u, <2>1 DEF IInv, LogHoldsAll, TextLogIsEmpty, MemoryIsDisk
  <2> QED
    BY <1>t, <1>u, <2>1, <2>2, <2>3 DEF IInv, Map!vars
<1>1. ASSUME NEW k \in Keys, NEW r \in Record, Put(k, r)
      PROVE  IInv' /\ [Map!Next]_(Map!vars)
  <2> DEFINE after == [records EXCEPT ![k] = r]
             own   == {<<PutEntry(k, r)>>}
  <2>1. r \in Value
    BY DEF Value
  <2>2. /\ after \in [Keys -> Value] /\ OwnFrames(own, {k}, after)
        /\ \A j \in Keys \ {k} : after[j] = records[j]
    BY <2>1, <1>t, OneOwnFrame DEF PutEntry
  <2>3. /\ Acknowledge(own, after, {k}) \/ EndInAppend(own, after, {k})
        /\ status = "up" /\ Replaces(Disk[k], r)
    BY <1>1, <1>m DEF Put, FailToAppend
  <2>4. after = [Disk EXCEPT ![k] = r]
    BY <2>3, <1>m
  <2> HIDE DEF after, own
  <2>5. /\ IInv'
        /\ \A j \in Keys : Disk'[j] \in {Disk[j], after[j]}
        /\ Acknowledge(own, after, {k}) => Disk' = after
    BY <2>2, <2>3, OperationKeeps
  <2>6. Disk' = after \/ (Disk' = Disk /\ status' = "down")
    <3>1. CASE Acknowledge(own, after, {k})
      BY <3>1, <2>5
    <3>2. CASE EndInAppend(own, after, {k})
      <4>1. \A j \in Keys \ {k} : after[j] = Disk[j]
        BY <2>4, <1>d
      <4>2. Disk' = [j \in Keys |-> Disk'[j]] /\ after = [j \in Keys |-> after[j]]
        BY <2>2 DEF Disk, Replay
      <4>3. \A j \in Keys \ {k} : Disk'[j] = after[j] /\ Disk'[j] = Disk[j]
        BY <4>1, <2>5
      <4>4. Disk' = after \/ Disk' = Disk
        BY <4>2, <4>3, <2>5, <1>d
      <4> QED
        BY <4>4, <3>2 DEF EndInAppend, ProcessEnds
    <3> QED
      BY <2>3, <3>1, <3>2
  <2>7. CASE Disk' = after
    <3>1. Map!Put(k, r)
      BY <2>3, <2>4, <2>7 DEF Map!Put, Map!AckOrDie, Map!Replaces, Map!Ignores,
         Map!Rejects, Map!IsDuplicateMutation, Map!IsStale, Replaces, Ignores,
         Rejects, IsDuplicateMutation, IsStale
    <3> QED
      BY <3>1, <2>5 DEF Map!Next, Map!Keys, Map!Record, Keys, Record
  <2>8. CASE Disk' = Disk /\ status' = "down"
    BY <2>5, <2>8, <2>3 DEF Map!Next, Map!Die
  <2> QED
    BY <2>6, <2>7, <2>8
<1>2. ASSUME NEW k \in Keys, NEW r \in Record, PutRepeated(k, r)
      PROVE  IInv' /\ [Map!Next]_(Map!vars)
  BY <1>2, <1>u DEF PutRepeated
<1>3. ASSUME NEW k \in Keys, Delete(k)
      PROVE  IInv' /\ [Map!Next]_(Map!vars)
  <2> DEFINE after == [records EXCEPT ![k] = Absent]
             own   == {<<DeleteEntry(k)>>}
  <2>1. Absent \in Value
    BY DEF Value
  <2>2. /\ after \in [Keys -> Value] /\ OwnFrames(own, {k}, after)
        /\ \A j \in Keys \ {k} : after[j] = records[j]
    BY <2>1, <1>t, OneOwnFrame DEF DeleteEntry
  <2>3. /\ Acknowledge(own, after, {k}) \/ EndInAppend(own, after, {k})
        /\ status = "up"
    BY <1>3 DEF Delete, FailToAppend
  <2>4. after = [Disk EXCEPT ![k] = Absent]
    BY <2>3, <1>m
  <2> HIDE DEF after, own
  <2>5. /\ IInv'
        /\ \A j \in Keys : Disk'[j] \in {Disk[j], after[j]}
        /\ Acknowledge(own, after, {k}) => Disk' = after
    BY <2>2, <2>3, OperationKeeps
  <2>6. Disk' = after \/ (Disk' = Disk /\ status' = "down")
    <3>1. CASE Acknowledge(own, after, {k})
      BY <3>1, <2>5
    <3>2. CASE EndInAppend(own, after, {k})
      <4>1. \A j \in Keys \ {k} : after[j] = Disk[j]
        BY <2>4, <1>d
      <4>2. Disk' = [j \in Keys |-> Disk'[j]] /\ after = [j \in Keys |-> after[j]]
        BY <2>2 DEF Disk, Replay
      <4>3. \A j \in Keys \ {k} : Disk'[j] = after[j] /\ Disk'[j] = Disk[j]
        BY <4>1, <2>5
      <4>4. Disk' = after \/ Disk' = Disk
        BY <4>2, <4>3, <2>5, <1>d
      <4> QED
        BY <4>4, <3>2 DEF EndInAppend, ProcessEnds
    <3> QED
      BY <2>3, <3>1, <3>2
  <2>7. CASE Disk' = after
    <3>1. Map!Delete(k)
      BY <2>3, <2>4, <2>7 DEF Map!Delete, Map!AckOrDie
    <3> QED
      BY <3>1, <2>5 DEF Map!Next, Map!Keys, Keys
  <2>8. CASE Disk' = Disk /\ status' = "down"
    BY <2>5, <2>8, <2>3 DEF Map!Next, Map!Die
  <2> QED
    BY <2>6, <2>7, <2>8
<1>4. ASSUME NEW batch \in Batches, BatchPut(batch)
      PROVE  IInv' /\ [Map!Next]_(Map!vars)
  <2> DEFINE S     == ToApply(records, batch)
             after == Staged(records, batch, S)
             own   == {Puts(order, after) : order \in SetToSeqs(S)}
  <2>1. S \in SUBSET DOMAIN batch
    BY DEF ToApply
  <2>2. /\ S \in SUBSET Keys /\ DOMAIN batch \in SUBSET Keys
        /\ after \in [Keys -> Value] /\ OwnFrames(own, S, after)
        /\ \A j \in Keys \ S : after[j] = records[j]
        /\ \A j \in S : after[j] = batch[j]
    <3> HIDE DEF S
    <3> QED
      BY <2>1, <1>t, BatchOwnFrames
  <2>3. /\ Acknowledge(own, after, DOMAIN batch) \/ EndInAppend(own, after, S)
        /\ status = "up" /\ BatchAdmitted(Disk, batch)
    BY <1>4, <1>m DEF BatchPut
  <2>4. S = Map!ToApply(Disk, batch) /\ Map!BatchAdmitted(Disk, batch)
    BY <2>3, <1>m DEF ToApply, BatchAdmitted, Ignores, Rejects, IsDuplicateMutation,
       IsStale, Map!ToApply, Map!BatchAdmitted, Map!Ignores, Map!Rejects,
       Map!IsDuplicateMutation, Map!IsStale
  <2>5. batch \in Map!Batches
    BY DEF Batches, Keys, Record, Map!Batches, Map!Keys, Map!Record
  <2>6. after = Map!Staged(Disk, batch, S)
    BY <2>3, <1>m DEF Staged, Map!Staged, Keys, Map!Keys
  <2>7. \A j \in Keys \ S : after[j] = Disk[j]
    BY <2>2, <2>3, <1>m
  <2> HIDE DEF S, after, own
  <2>8. /\ IInv'
        /\ \A j \in Keys : Disk'[j] \in {Disk[j], after[j]}
        /\ Acknowledge(own, after, DOMAIN batch) => Disk' = after
    BY <2>1, <2>2, <2>3, OperationKeeps
  <2>9. Map!BatchPut(batch)
    <3>1. CASE Acknowledge(own, after, DOMAIN batch)
      BY <3>1, <2>3, <2>4, <2>6, <2>8 DEF Map!BatchPut, Map!AckOrDie
    <3>2. CASE EndInAppend(own, after, S)
      <4> DEFINE part == {j \in S : Disk'[j] = after[j]}
      <4>1. Disk' = [j \in Keys |-> IF j \in part THEN after[j] ELSE Disk[j]]
        BY <2>2, <2>7, <2>8, EndsInPart
      <4>2. part \subseteq S /\ \A j \in part : after[j] = batch[j]
        BY <2>2
      <4> HIDE DEF part
      <4>3. Disk' = Map!Staged(Disk, batch, part)
        BY <4>1, <4>2 DEF Map!Staged, Map!Keys, Keys
      <4>4. status' = "down"
        BY <3>2 DEF EndInAppend, ProcessEnds
      <4> QED
        BY <4>2, <4>3, <4>4, <2>3, <2>4 DEF Map!BatchPut
    <3> QED
      BY <2>3, <3>1, <3>2
  <2> QED
    BY <2>5, <2>8, <2>9 DEF Map!Next
<1>5. ASSUME NEW batch \in Batches, BatchPutRepeated(batch)
      PROVE  IInv' /\ [Map!Next]_(Map!vars)
  BY <1>5, <1>u DEF BatchPutRepeated
<1>6. CASE FlushSnapshot
  <2>1. LogHoldsAll'
    BY <1>6, <1>m, UntouchedAbsent DEF FlushSnapshot, WholeSnapshot, LogHoldsAll, IInv
  <2>2. MemoryIsDisk'
    <3>1. Disk' = Disk
      BY <1>6, <2>1, SnapshotKeeps DEF FlushSnapshot, IInv
    <3> QED
      BY <1>6, <1>m, <3>1 DEF FlushSnapshot, MemoryIsDisk
  <2> QED
    BY <1>6, <1>s, <2>1, <2>2 DEF FlushSnapshot, Map!vars
<1>7. CASE Shutdown
  <2>1. LogHoldsAll'
    BY <1>7, <1>m, UntouchedAbsent DEF Shutdown, WholeSnapshot, LogHoldsAll, IInv
  <2>2. MemoryIsDisk'
    BY <1>7 DEF Shutdown, ProcessEnds, MemoryIsDisk
  <2> QED
    BY <1>7, <1>s, <2>1, <2>2 DEF Shutdown, ProcessEnds, Map!Next, Map!Die
<1>8. CASE EndInFlush
  <2>1. LogHoldsAll'
    <3>1. records \in [Keys -> Value]
      BY <1>t DEF TypeOK
    <3>2. \A k \in Keys : snapshot'.content[k] \in {Absent, Disk[k]}
      BY <1>8, <1>m, <3>1, CutSnapshotsTyped DEF EndInFlush
    <3> QED
      BY <1>8, <3>2, UntouchedAbsent DEF EndInFlush, LogHoldsAll, IInv
  <2>2. MemoryIsDisk'
    BY <1>8 DEF EndInFlush, ProcessEnds, MemoryIsDisk
  <2> QED
    BY <1>8, <1>s, <2>1, <2>2 DEF EndInFlush, ProcessEnds, Map!Next, Map!Die
<1>9. CASE Crash
  <2>1. LogHoldsAll'
    BY <1>9 DEF Crash, LogHoldsAll, IInv
  <2>2. MemoryIsDisk'
    BY <1>9 DEF Crash, ProcessEnds, MemoryIsDisk
  <2> QED
    BY <1>9, <1>s, <2>1, <2>2 DEF Crash, ProcessEnds, Map!Next, Map!Die
<1>10. CASE Recover
  <2>1. LogHoldsAll'
    BY <1>10 DEF Recover, LogHoldsAll, IInv
  <2>2. Disk' = Disk
    BY <1>10, <2>1, SnapshotKeeps DEF Recover, IInv
  <2>3. MemoryIsDisk'
    BY <1>10, <2>2 DEF Recover, MemoryIsDisk
  <2> QED
    BY <1>10, <1>s, <2>1, <2>3 DEF Recover, Map!Next, Map!Restart
<1>11. CASE RecoverBlind
  BY <1>11 DEF RecoverBlind
<1>12. CASE FailedStart \/ EndInFailedStart
  <2>1. /\ \A k \in Keys : snapshot'.content[k] \in {Absent, ReplaySnapshot[k]}
        /\ UNCHANGED <<records, wal, status, allowed>> /\ status = "down"
    <3>1. ReplaySnapshot \in [Keys -> Value]
      BY <1>t, ReplaySnapshotTyped
    <3> QED
      BY <1>12, <3>1, CutSnapshotsTyped DEF FailedStart, EndInFailedStart, WholeSnapshot
  <2>2. LogHoldsAll'
    BY <2>1 DEF IInv, LogHoldsAll, ReplaySnapshot, Nothing
  <2>3. MemoryIsDisk'
    BY <2>1 DEF MemoryIsDisk
  <2> QED
    BY <1>s, <2>1, <2>2, <2>3 DEF Map!vars
<1>13. CASE UNCHANGED vars
  <2>1. LogHoldsAll'
    BY <1>13 DEF vars, LogHoldsAll, IInv
  <2>2. Disk' = Disk
    BY <1>13, <2>1, SnapshotKeeps DEF vars, IInv
  <2>3. MemoryIsDisk'
    BY <1>13, <2>2, <1>m DEF vars, MemoryIsDisk
  <2> QED
    BY <1>13, <1>s, <2>1, <2>3 DEF vars, Map!vars
<1> QED
  BY <1>1, <1>2, <1>3, <1>4, <1>5, <1>6, <1>7, <1>8, <1>9, <1>10, <1>11, <1>12,
     <1>13 DEF Next
-----------------------------------------------------------------------------
\* A fresh node whose files can be opened never loses an acknowledged write, serves
\* exactly what a restart would find, and could at any time do without its snapshot,
\* wherever the process ends (Put, BatchPut, Delete, FlushSnapshot, Recover).
THEOREM FreshDurable ==
    ASSUME Fresh, Fault # "open"
    PROVE  Spec => [](DurableAck /\ MemoryIsDisk /\ LogAloneSuffices)
<1>1. Init => IInv
  BY FreshInit
<1>2. IInv /\ [Next]_vars => IInv'
  BY FreshStep
<1>3. IInv => DurableAck /\ MemoryIsDisk /\ LogAloneSuffices
  BY DiskIsByLog DEF IInv
<1> QED
  BY <1>1, <1>2, <1>3, PTL DEF Spec

\* What such a node has in memory while it serves is what a restart would read back from
\* its files: the two orders in which writes reach memory and log come to the same.
THEOREM FreshMemory ==
    ASSUME Fresh, Fault # "open"
    PROVE  Spec => []MemoryIsDisk
<1>1. Spec => [](DurableAck /\ MemoryIsDisk /\ LogAloneSuffices)
  BY FreshDurable
<1> QED
  BY <1>1, PTL

\* The log of such a node alone gives back everything its files hold: a snapshot cut short
\* by a crash loses nothing, since no frame ever leaves the log.
THEOREM FreshLog ==
    ASSUME Fresh, Fault # "open"
    PROVE  Spec => []LogAloneSuffices
<1>1. Spec => [](DurableAck /\ MemoryIsDisk /\ LogAloneSuffices)
  BY FreshDurable
<1> QED
  BY <1>1, PTL

\* The store of such a node is the durable map of DurableMap, the map being what its
\* files hold: acknowledged writes, all in order, and parts of the ones cut short.
THEOREM FreshImplements ==
    ASSUME Fresh, Fault # "open"
    PROVE  Spec => ImplementsDurableMap
<1>1. Init => IInv /\ Map!Init
  <2> SUFFICES ASSUME Init PROVE IInv /\ Map!Init
    OBVIOUS
  <2>1. IInv
    BY FreshInit
  <2>2. wal.entries = <<>> /\ snapshot = WholeSnapshot(Nothing)
    BY DEF Fresh, Init
  <2>3. Disk = Nothing
    BY <2>2 DEF Disk, Replay, Touches, ReplaySnapshot, WholeSnapshot, Nothing
  <2> QED
    BY <2>1, <2>3 DEF Init, Map!Init, Map!Nothing, Map!Keys, Nothing, Keys
<1>2. IInv /\ [Next]_vars => IInv' /\ [Map!Next]_(Map!vars)
  BY FreshStep
<1> QED
  BY <1>1, <1>2, PTL DEF Spec, ImplementsDurableMap, Map!Spec
-----------------------------------------------------------------------------
\* What a step does to what a restart would find under a key: it leaves it, or deletes
\* it, or writes a record that may replace it.
Overwrites(k) ==
    \/ Disk'[k] = Disk[k]
    \/ Disk'[k] = Absent
    \/ Disk'[k] \in Record /\ Replaces(Disk[k], Disk'[k])

\* A step of the durable map leaves a key, erases it or writes a record admitted over it.
LEMMA MapStepOverwrites ==
    ASSUME Disk \in [Keys -> Value], [Map!Next]_(Map!vars), NEW k \in Keys
    PROVE  Overwrites(k)
<1> USE DEF Map!Keys, Keys, Map!Record, Record
<1>r. \A a, b : Map!Replaces(a, b) <=> Replaces(a, b)
  BY DEF Map!Replaces, Map!Ignores, Map!Rejects, Map!IsDuplicateMutation, Map!IsStale,
     Replaces, Ignores, Rejects, IsDuplicateMutation, IsStale
<1>1. ASSUME NEW j \in Keys, Map!Delete(j)
      PROVE  Overwrites(k)
  BY <1>1 DEF Map!Delete, Overwrites
<1>2. ASSUME NEW j \in Keys, NEW r \in Record, Map!Put(j, r)
      PROVE  Overwrites(k)
  BY <1>2, <1>r DEF Map!Put, Overwrites
<1>3. ASSUME NEW batch \in Map!Batches, Map!BatchPut(batch)
      PROVE  Overwrites(k)
  <2>1. PICK P \in SUBSET Keys : batch \in [P -> Record]
    BY DEF Map!Batches
  <2>2. Map!BatchAdmitted(Disk, batch)
    BY <1>3 DEF Map!BatchPut
  <2>3. PICK part \in SUBSET Map!ToApply(Disk, batch) : Disk' = Map!Staged(Disk, batch, part)
    BY <1>3 DEF Map!BatchPut
  <2>4. CASE k \in part
    <3>1. k \in P /\ ~ Map!Ignores(Disk[k], batch[k])
      BY <2>1, <2>4 DEF Map!ToApply
    <3>2. Map!Replaces(Disk[k], batch[k])
      BY <2>1, <2>2, <3>1 DEF Map!BatchAdmitted, Map!Replaces
    <3>3. Disk'[k] = batch[k]
      BY <2>3, <2>4 DEF Map!Staged
    <3> QED
      BY <1>r, <2>1, <3>1, <3>2, <3>3 DEF Overwrites
  <2>5. CASE k \notin part
    BY <2>3, <2>5 DEF Map!Staged, Overwrites
  <2> QED
    BY <2>4, <2>5
<1>4. CASE Map!Restart \/ Map!Die \/ UNCHANGED Map!vars
  BY <1>4 DEF Map!Restart, Map!Die, Map!vars, Overwrites
<1> QED
  BY <1>1, <1>2, <1>3, <1>4 DEF Map!Next

\* A record that may replace another is not older, if both are versioned.
LEMMA ReplacesIsNewer ==
    ASSUME NEW a \in Record, NEW b \in Record, a.version # 0, b.version # 0,
           a = b \/ (Replaces(a, b) /\ ~ IsDuplicateMutation(a, b))
    PROVE  b.version >= a.version
<1>1. a.version \in Nat /\ b.version \in Nat /\ a # Absent
  BY KvRecordAssumption DEF Record
<1>2. CASE a = b
  BY <1>1, <1>2
<1>3. CASE Replaces(a, b) /\ ~ IsDuplicateMutation(a, b)
  BY <1>1, <1>3 DEF Replaces, Rejects, IsStale
<1> QED
  BY <1>2, <1>3

\* What a restart of such a node would find under a key never gets older, through
\* crashes, replays and flushes (ValidateMutation, BatchPut, ReplayWalLocked).
THEOREM FreshVersions ==
    ASSUME Fresh, Fault # "open"
    PROVE  Spec => VersionNeverRegresses
<1> DEFINE Newer ==
      \A k \in Keys :
          /\ Disk[k] # Absent /\ Disk'[k] # Absent
          /\ Disk[k].version # 0 /\ Disk'[k].version # 0
          => Disk'[k].version >= Disk[k].version
<1>1. Init => IInv
  BY FreshInit
<1>2. IInv /\ [Next]_vars => IInv' /\ [Newer]_vars
  <2> SUFFICES ASSUME IInv, [Next]_vars PROVE IInv' /\ Newer
    OBVIOUS
  <2>1. IInv' /\ [Map!Next]_(Map!vars) /\ Disk \in [Keys -> Value]
    BY FreshStep, DiskTyped DEF IInv
  <2>2. ASSUME NEW k \in Keys, Disk[k] # Absent, Disk'[k] # Absent,
               Disk[k].version # 0, Disk'[k].version # 0
        PROVE  Disk'[k].version >= Disk[k].version
    <3>1. Disk[k] \in Record
      BY <2>1, <2>2 DEF Value
    <3>2. Overwrites(k)
      BY <2>1, MapStepOverwrites
    <3>3. CASE Disk'[k] = Disk[k]
      BY <2>2, <3>1, <3>3, ReplacesIsNewer
    <3>4. CASE Disk'[k] \in Record /\ Replaces(Disk[k], Disk'[k])
      <4>1. ~ IsDuplicateMutation(Disk[k], Disk'[k])
        BY <2>2, <3>4 DEF Replaces, Ignores
      <4> QED
        BY <2>2, <3>1, <3>4, <4>1, ReplacesIsNewer
    <3> QED
      BY <2>2, <3>2, <3>3, <3>4 DEF Overwrites
  <2> QED
    BY <2>1, <2>2
<1> QED
  BY <1>1, <1>2, PTL DEF Spec, VersionNeverRegresses

-----------------------------------------------------------------------------
(***************************************************************************)
(* Replay is written by its result.  What the loop has after n frames is,  *)
(* under each key, the last of them: that function meets the loop's        *)
(* equation, and no other does.                                            *)
(***************************************************************************)
\* The loops of ReplaySnapshotLocked and ReplayWalLocked, one frame at a time.
ReplayByFrame(base, log) ==
    LET map[n \in 0..Len(log)] ==
          IF n = 0 THEN base ELSE [map[n - 1] EXCEPT ![log[n].key] = log[n].value]
    IN  map[Len(log)]

TouchesUpTo(log, n, k) == {i \in 1..n : log[i].key = k}

LastOf(base, log, T, k) ==
    IF T = {} THEN base[k] ELSE log[CHOOSE i \in T : \A j \in T : j <= i].value

ReplayUpTo(base, log, n) == [k \in Keys |-> LastOf(base, log, TouchesUpTo(log, n, k), k)]

\* One more frame overwrites or erases its key.
LEMMA OneFrame ==
    ASSUME NEW base, NEW log \in Seq(Entry), NEW n \in 1..Len(log)
    PROVE  ReplayUpTo(base, log, n) =
             [ReplayUpTo(base, log, n - 1) EXCEPT ![log[n].key] = log[n].value]
<1>1. n \in Nat /\ n - 1 \in Nat /\ log[n].key \in Keys
  <2>1. Len(log) \in Nat /\ log[n] \in Entry
    OBVIOUS
  <2>2. n \in Nat /\ n >= 1
    BY <2>1
  <2>3. n - 1 \in Nat
    BY <2>2
  <2>4. log[n].key \in Keys
    BY <2>1 DEF Entry
  <2> QED
    BY <2>2, <2>3, <2>4
<1>2. ASSUME NEW k \in Keys, k # log[n].key
      PROVE  TouchesUpTo(log, n, k) = TouchesUpTo(log, n - 1, k)
  <2>1. \A i \in 1..n : log[i].key = k => i \in 1..(n - 1)
    BY <1>1, <1>2
  <2>2. 1..(n - 1) \subseteq 1..n
    BY <1>1
  <2> QED
    BY <2>1, <2>2 DEF TouchesUpTo
<1>3. LET T == TouchesUpTo(log, n, log[n].key)
      IN  T # {} /\ (CHOOSE i \in T : \A j \in T : j <= i) = n
  <2> DEFINE T == TouchesUpTo(log, n, log[n].key)
  <2>1. n \in T /\ \A j \in T : j <= n /\ j \in Int
    BY <1>1 DEF TouchesUpTo
  <2>2. \A i \in T : (\A j \in T : j <= i) => i = n
    BY <1>1, <2>1
  <2> HIDE DEF T
  <2>3. T # {} /\ (CHOOSE i \in T : \A j \in T : j <= i) = n
    BY <2>1, <2>2
  <2> QED
    BY <2>3 DEF T
<1> DEFINE one == ReplayUpTo(base, log, n)
           less == ReplayUpTo(base, log, n - 1)
<1>4. ASSUME NEW k \in Keys
      PROVE  one[k] = IF k = log[n].key THEN log[n].value ELSE less[k]
  <2>1. CASE k = log[n].key
    <3>1. one[k] = LastOf(base, log, TouchesUpTo(log, n, k), k)
      BY DEF ReplayUpTo
    <3> QED
      BY <1>3, <2>1, <3>1 DEF LastOf
  <2>2. CASE k # log[n].key
    <3>1. /\ one[k] = LastOf(base, log, TouchesUpTo(log, n, k), k)
          /\ less[k] = LastOf(base, log, TouchesUpTo(log, n - 1, k), k)
      BY DEF ReplayUpTo
    <3> QED
      BY <1>2, <2>2, <3>1
  <2> QED
    BY <2>1, <2>2
<1>5. one = [k \in Keys |-> one[k]] /\ less = [k \in Keys |-> less[k]]
  BY DEF ReplayUpTo
<1> HIDE DEF one, less
<1> QED
  BY <1>1, <1>4, <1>5 DEF one, less

\* The loop computes what the model takes for its result, for a log of any length.
LEMMA FrameByFrame ==
    ASSUME NEW base \in [Keys -> Value], NEW log \in Seq(Entry)
    PROVE  ReplayByFrame(base, log) = Replay(base, log)
<1> DEFINE Loop(map) ==
             map = [n \in 0..Len(log) |->
                      IF n = 0 THEN base ELSE [map[n - 1] EXCEPT ![log[n].key] = log[n].value]]
           loop == CHOOSE map : Loop(map)
           closed == [n \in 0..Len(log) |-> ReplayUpTo(base, log, n)]
<1>1. ReplayByFrame(base, log) = loop[Len(log)]
  BY DEF ReplayByFrame
<1>2. Len(log) \in Nat
  OBVIOUS
<1>3. closed[0] = base
  <2>1. \A k \in Keys : TouchesUpTo(log, 0, k) = {}
    BY DEF TouchesUpTo
  <2>2. ReplayUpTo(base, log, 0) = [k \in Keys |-> base[k]]
    BY <2>1 DEF ReplayUpTo, LastOf
  <2>3. 0 \in 0..Len(log)
    BY <1>2
  <2> QED
    BY <2>2, <2>3
<1>4. ASSUME NEW n \in 0..Len(log), n # 0
      PROVE  closed[n] = [closed[n - 1] EXCEPT ![log[n].key] = log[n].value]
  <2>1. n \in 1..Len(log) /\ n - 1 \in 0..Len(log)
    BY <1>2, <1>4
  <2> QED
    BY <2>1, OneFrame
<1>5. closed = [n \in 0..Len(log) |-> closed[n]]
  OBVIOUS
<1> HIDE DEF closed
<1>6. Loop(closed)
  BY <1>3, <1>4, <1>5
<1>7. Loop(loop)
  BY <1>6
<1> HIDE DEF loop
<1>8. \A n \in 0..Len(log) :
        loop[n] = IF n = 0 THEN base ELSE [loop[n - 1] EXCEPT ![log[n].key] = log[n].value]
  BY <1>7
<1> HIDE DEF Loop
<1>9. ASSUME NEW n \in 0..Len(log), loop[n] # closed[n]
      PROVE  FALSE
  <2> DEFINE Wrong == {i \in 0..Len(log) : loop[i] # closed[i]}
             Less == OpToRel(<, Nat)
  <2>1. Wrong \subseteq Nat /\ Wrong # {}
    BY <1>9, <1>2
  <2>2. PICK i \in Wrong : \A j \in Wrong : ~ (<<j, i>> \in Less)
    <3> HIDE DEF Wrong, Less
    <3>1. IsWellFoundedOn(Less, Nat)
      BY NatLessThanWellFounded DEF Less
    <3> QED
      BY <2>1, <3>1, WFMin
  <2>3. i \in 0..Len(log) /\ loop[i] # closed[i] /\ i \in Nat
    <3>1. i \in 0..Len(log) /\ loop[i] # closed[i]
      BY <2>2
    <3>2. i \in Nat
      BY <1>2, <3>1
    <3> QED
      BY <3>1, <3>2
  <2>4. i # 0
    BY <1>3, <1>8, <2>3
  <2>5. i - 1 \in 0..Len(log) /\ i - 1 < i
    BY <1>2, <2>3, <2>4
  <2>6. i - 1 \notin Wrong
    <3>1. i - 1 \in Nat
      BY <2>5
    <3>2. <<i - 1, i>> \in Less
      BY <2>3, <2>5, <3>1 DEF OpToRel
    <3> QED
      BY <2>2, <3>2
  <2>7. loop[i - 1] = closed[i - 1]
    BY <2>5, <2>6
  <2>8. loop[i] = [loop[i - 1] EXCEPT ![log[i].key] = log[i].value]
    BY <1>8, <2>3, <2>4
  <2>9. closed[i] = [closed[i - 1] EXCEPT ![log[i].key] = log[i].value]
    BY <1>4, <2>3, <2>4
  <2> QED
    BY <2>3, <2>7, <2>8, <2>9
<1>10. loop[Len(log)] = closed[Len(log)]
  <2>1. Len(log) \in 0..Len(log)
    BY <1>2
  <2> QED
    BY <1>9, <2>1
<1>11. closed[Len(log)] = Replay(base, log)
  <2>1. Len(log) \in 0..Len(log)
    BY <1>2
  <2>2. closed[Len(log)] = ReplayUpTo(base, log, Len(log))
    BY <2>1 DEF closed
  <2>3. \A k : TouchesUpTo(log, Len(log), k) = Touches(log, k)
    BY DEF TouchesUpTo, Touches
  <2>4. \A k : LastOf(base, log, Touches(log, k), k) =
               IF Touches(log, k) = {} THEN base[k] ELSE log[LastTouch(log, k)].value
    BY DEF LastOf, LastTouch
  <2>5. Replay(base, log) = [k \in Keys |-> LastOf(base, log, Touches(log, k), k)]
    BY <2>4 DEF Replay
  <2> QED
    BY <2>2, <2>3, <2>5 DEF ReplayUpTo
<1> QED
  BY <1>1, <1>10, <1>11

-----------------------------------------------------------------------------
(***************************************************************************)
(* When files cannot be opened memory is not what a restart would find.    *)
(* What is found is allowed all the same, over whichever map the log is    *)
(* replayed: the snapshot, nothing, or the memory a flush will write to    *)
(* the snapshot.                                                           *)
(***************************************************************************)
LogAllows(base) == \A k \in Keys : Replay(base, wal.entries)[k] \in allowed[k]

BlindInv ==
    /\ TypeOK
    /\ wal.format # "text" /\ ~ wal.torn /\ ~ snapshot.torn
    /\ LogAllows(snapshot.content) /\ LogAllows(Nothing)
    /\ status = "up" => LogAllows(records)

\* What is replayed over a map is replayed over what was replayed over it, or over nothing.
LEMMA ReplayOver ==
    ASSUME NEW base, NEW log
    PROVE  /\ \A k \in Keys : Replay(Replay(base, log), log)[k] = Replay(base, log)[k]
           /\ \A k \in Keys : Replay(Replay(base, <<>>), log)[k] = Replay(base, log)[k]
<1>1. \A k : Touches(<<>>, k) = {}
  BY DEF Touches
<1>2. \A k \in Keys : Replay(base, <<>>)[k] = base[k]
  BY <1>1 DEF Replay
<1>3. \A k \in Keys : Touches(log, k) = {} => Replay(base, log)[k] = base[k]
  BY DEF Replay
<1>4. \A map : \A k \in Keys : Replay(map, log)[k] =
                 IF Touches(log, k) = {} THEN map[k] ELSE log[LastTouch(log, k)].value
  BY DEF Replay
<1> QED
  BY <1>2, <1>3, <1>4

\* Frames that are acknowledged, or a map that is changed and not logged.
LEMMA BlindWrite ==
    ASSUME BlindInv, TypeOK', status = "up", Fault = "open",
           NEW S \in SUBSET Keys, NEW after \in [Keys -> Value],
           \A k \in Keys \ S : after[k] = records[k],
           NEW own, OwnFrames(own, S, after),
           \/ Acknowledge(own, after, S) \/ EndInAppend(own, after, S)
           \/ FailToAppend(after, S)
    PROVE  BlindInv'
<1>1. CASE Acknowledge(own, after, S)
  <2>1. PICK frames \in Writes(own, after) : wal' = WholeWrite(frames)
    BY <1>1 DEF Acknowledge
  <2>2. /\ wal.format # "text" /\ WritesOf(frames, S, after) /\ Covers(frames, S)
        /\ frames \in Seq(Entry) /\ wal.entries \in Seq(Entry)
    BY <2>1, FramesWrite DEF BlindInv, TypeOK
  <2>3. wal'.entries = wal.entries \o frames /\ wal'.format = "proto" /\ wal'.torn = FALSE
    BY <2>1, <2>2 DEF WholeWrite, LogFile, Kept
  <2>4. /\ records' = after /\ snapshot' = snapshot /\ status' = status
        /\ \A k \in Keys : allowed'[k] = IF k \in S THEN {after[k]} ELSE allowed[k]
    BY <1>1 DEF Acknowledge, Promise
  <2>5. ASSUME NEW base, NEW k \in Keys, k \in S
        PROVE  Replay(base, wal'.entries)[k] \in allowed'[k]
    <3>1. PICK w \in 1..Len(frames) : frames[w].key = k
      BY <2>2, <2>5 DEF Covers
    <3>2. Replay(base, wal.entries \o frames)[k] = after[k]
      BY <2>2, <3>1, ReplayWritten
    <3> QED
      BY <2>3, <2>4, <2>5, <3>2
  <2>6. ASSUME NEW base, NEW k \in Keys, k \notin S
        PROVE  Replay(base, wal'.entries)[k] = Replay(base, wal.entries)[k]
    <3>1. \A i \in 1..Len(frames) : frames[i].key # k
      BY <2>2, <2>6 DEF WritesOf
    <3> QED
      BY <2>2, <2>3, <3>1, ReplayUntouched
  <2>7. \A base : (\A k \in Keys : Replay(base, wal.entries)[k] \in allowed[k])
                  => \A k \in Keys : Replay(base, wal'.entries)[k] \in allowed'[k]
    BY <2>4, <2>5, <2>6
  <2>8. \A k \in Keys : Replay(after, wal'.entries)[k] \in allowed'[k]
    <3>1. ASSUME NEW k \in Keys, k \notin S
          PROVE  Replay(after, wal.entries)[k] = Replay(records, wal.entries)[k]
      BY <3>1 DEF Replay
    <3>2. \A k \in Keys : Replay(records, wal.entries)[k] \in allowed[k]
      BY DEF BlindInv, LogAllows
    <3>3. ASSUME NEW k \in Keys, k \notin S
          PROVE  Replay(after, wal'.entries)[k] \in allowed'[k]
      <4>1. Replay(after, wal'.entries)[k] = Replay(after, wal.entries)[k]
        BY <2>6, <3>3
      <4> QED
        BY <2>4, <3>1, <3>2, <3>3, <4>1
    <3> QED
      BY <2>5, <3>3
  <2> QED
    BY <2>3, <2>4, <2>7, <2>8 DEF BlindInv, LogAllows
<1>2. CASE FailToAppend(after, S)
  <2>1. /\ records' = after /\ wal' = wal /\ snapshot' = snapshot /\ status' = status
        /\ \A k \in Keys : allowed'[k] = IF k \in S THEN allowed[k] \cup {after[k]} ELSE allowed[k]
    BY <1>2 DEF FailToAppend, LeaveOpen
  <2>2. \A k \in Keys : allowed[k] \subseteq allowed'[k]
    BY <2>1
  <2>3. ASSUME NEW k \in Keys
        PROVE  Replay(after, wal.entries)[k] \in allowed'[k]
    <3>1. CASE k \in S /\ Touches(wal.entries, k) = {}
      <4>1. Replay(after, wal.entries)[k] = after[k]
        BY <3>1 DEF Replay
      <4> QED
        BY <2>1, <3>1, <4>1
    <3>2. CASE k \notin S \/ Touches(wal.entries, k) # {}
      <4>1. Replay(after, wal.entries)[k] = Replay(records, wal.entries)[k]
        BY <3>2 DEF Replay
      <4> QED
        BY <2>2, <4>1 DEF BlindInv, LogAllows
    <3> QED
      BY <3>1, <3>2
  <2> QED
    BY <2>1, <2>2, <2>3 DEF BlindInv, LogAllows
<1>3. ~ EndInAppend(own, after, S)
  BY DEF EndInAppend
<1> QED
  BY <1>1, <1>2, <1>3

\* Without mutation ids nothing is a repetition.
LEMMA NothingRepeats ==
    ASSUME MutationIds = {}
    PROVE  /\ \A r \in Record : \A stored : ~ Ignores(stored, r)
           /\ \A batch \in Batches : DOMAIN batch # {} /\ ToApply(records, batch) = DOMAIN batch
<1>1. \A r \in Record : \A stored : ~ Ignores(stored, r)
  BY DEF Record, Ignores, IsDuplicateMutation
<1>2. ASSUME NEW batch \in Batches
      PROVE  DOMAIN batch # {} /\ ToApply(records, batch) = DOMAIN batch
  <2>1. PICK P \in (SUBSET Keys) \ {{}} : batch \in [P -> Record]
    BY DEF Batches
  <2>2. DOMAIN batch # {} /\ \A k \in DOMAIN batch : batch[k] \in Record
    BY <2>1
  <2> QED
    BY <1>1, <2>2 DEF ToApply
<1> QED
  BY <1>1, <1>2

\* Whatever cannot be opened, every step leaves permitted values in the log.
LEMMA BlindStep ==
    ASSUME MutationIds = {}, Fault = "open", BlindInv, [Next]_vars
    PROVE  BlindInv'
<1>t. TypeOK /\ TypeOK'
  BY StepTyped DEF BlindInv
<1>1. ASSUME NEW k \in Keys, NEW r \in Record, Put(k, r)
      PROVE  BlindInv'
  <2> DEFINE after == [records EXCEPT ![k] = r]
             own   == {<<PutEntry(k, r)>>}
  <2>1. r \in Value
    BY DEF Value
  <2>2. /\ after \in [Keys -> Value] /\ OwnFrames(own, {k}, after)
        /\ \A j \in Keys \ {k} : after[j] = records[j]
    BY <2>1, <1>t, OneOwnFrame DEF PutEntry
  <2>3. /\ \/ Acknowledge(own, after, {k}) \/ EndInAppend(own, after, {k})
           \/ FailToAppend(after, {k})
        /\ status = "up"
    BY <1>1 DEF Put
  <2> HIDE DEF after, own
  <2> QED
    BY <1>t, <2>2, <2>3, BlindWrite
<1>2. ASSUME NEW k \in Keys, Delete(k)
      PROVE  BlindInv'
  <2> DEFINE after == [records EXCEPT ![k] = Absent]
             own   == {<<DeleteEntry(k)>>}
  <2>1. Absent \in Value
    BY DEF Value
  <2>2. /\ after \in [Keys -> Value] /\ OwnFrames(own, {k}, after)
        /\ \A j \in Keys \ {k} : after[j] = records[j]
    BY <2>1, <1>t, OneOwnFrame DEF DeleteEntry
  <2>3. /\ \/ Acknowledge(own, after, {k}) \/ EndInAppend(own, after, {k})
           \/ FailToAppend(after, {k})
        /\ status = "up"
    BY <1>2 DEF Delete
  <2> HIDE DEF after, own
  <2> QED
    BY <1>t, <2>2, <2>3, BlindWrite
<1>3. ASSUME NEW batch \in Batches, BatchPut(batch)
      PROVE  BlindInv'
  <2> DEFINE S == ToApply(records, batch)
             after == Staged(records, batch, S)
             own   == {Puts(order, after) : order \in SetToSeqs(S)}
  <2>1. S = DOMAIN batch
    BY NothingRepeats
  <2>2. /\ S \in SUBSET Keys /\ after \in [Keys -> Value] /\ OwnFrames(own, S, after)
        /\ \A j \in Keys \ S : after[j] = records[j]
    <3>1. S \in SUBSET DOMAIN batch
      BY DEF ToApply
    <3> QED
      BY <1>t, <3>1, BatchOwnFrames
  <2>3. /\ Acknowledge(own, after, S) \/ EndInAppend(own, after, S)
        /\ status = "up"
    BY <1>3, <2>1 DEF BatchPut
  <2> HIDE DEF S, after, own
  <2> QED
    BY <1>t, <2>2, <2>3, BlindWrite
<1>4. \A k \in Keys, r \in Record : ~ PutRepeated(k, r)
  BY NothingRepeats DEF PutRepeated
<1>5. \A batch \in Batches : ~ BatchPutRepeated(batch)
  BY NothingRepeats DEF BatchPutRepeated
<1>6. CASE FlushSnapshot
  <2>1. /\ snapshot'.content = records /\ snapshot'.torn = FALSE /\ status = "up"
        /\ UNCHANGED <<records, wal, status, allowed>>
    BY <1>6 DEF FlushSnapshot, WholeSnapshot
  <2> QED
    BY <1>t, <2>1 DEF BlindInv, LogAllows
<1>7. CASE Shutdown \/ Crash
  <2>1. /\ status = "up" /\ status' = "down" /\ UNCHANGED <<wal, allowed>>
        /\ \/ snapshot' = snapshot
           \/ snapshot'.content = records /\ snapshot'.torn = FALSE
    BY <1>7 DEF Shutdown, Crash, ProcessEnds, WholeSnapshot
  <2> QED
    BY <1>t, <2>1 DEF BlindInv, LogAllows
<1>8. CASE Recover
  <2>1. /\ records' = Replay(snapshot.content, wal.entries)
        /\ UNCHANGED <<wal, snapshot, allowed>>
    BY <1>8 DEF Recover, Disk, ReplaySnapshot
  <2>2. \A k \in Keys : Replay(records', wal.entries)[k] = Replay(snapshot.content, wal.entries)[k]
    BY <2>1, ReplayOver
  <2> QED
    BY <1>t, <2>1, <2>2 DEF BlindInv, LogAllows
<1>9. CASE RecoverBlind
  <2>1. PICK base \in {snapshot.content, Nothing}, log \in {wal.entries, <<>>} :
          records' = Replay(base, log)
    BY <1>9 DEF RecoverBlind
  <2>2. UNCHANGED <<wal, snapshot, allowed>>
    BY <1>9 DEF RecoverBlind
  <2>3. \A k \in Keys : Replay(records', wal.entries)[k] = Replay(base, wal.entries)[k]
    BY <2>1, ReplayOver
  <2> QED
    BY <1>t, <2>1, <2>2, <2>3 DEF BlindInv, LogAllows
<1>10. ~ EndInFlush /\ ~ EndInFailedStart
  BY DEF EndInFlush, EndInFailedStart
<1>11. ~ FailedStart
  BY DEF FailedStart, BlindInv
<1>12. CASE UNCHANGED vars
  BY <1>t, <1>12 DEF vars, BlindInv, LogAllows
<1> QED
  BY <1>1, <1>2, <1>3, <1>4, <1>5, <1>6, <1>7, <1>8, <1>9, <1>10, <1>11, <1>12 DEF Next

\* When files that cannot be opened are the only fault, an acknowledged write of a node that
\* started without files is never lost, although the store may have served without its log
\* or its snapshot, refused writes it then kept in memory, and flushed that memory over the
\* snapshot: whatever is acknowledged is in the log.  (With mutation ids this is false: a
\* repetition is acknowledged without a frame, see RetryIsApplied.)
THEOREM BlindDurable ==
    ASSUME Fresh, MutationIds = {}, Fault = "open"
    PROVE  Spec => []DurableAck
<1>1. Init => BlindInv
  <2> SUFFICES ASSUME Init PROVE BlindInv
    OBVIOUS
  <2>1. TypeOK
    BY InitTyped
  <2>2. /\ wal.format = "empty" /\ wal.entries = <<>> /\ wal.torn = FALSE
        /\ snapshot.content = Nothing /\ snapshot.torn = FALSE /\ status = "down"
        /\ \A k \in Keys : allowed[k] = {Disk[k]}
    BY DEF Init, Fresh, WholeSnapshot
  <2>3. Disk = Replay(Nothing, wal.entries)
    BY <2>2 DEF Disk, ReplaySnapshot
  <2> QED
    BY <2>1, <2>2, <2>3 DEF BlindInv, LogAllows
<1>2. BlindInv /\ [Next]_vars => BlindInv'
  BY BlindStep
<1>3. BlindInv => DurableAck
  BY DEF BlindInv, LogAllows, DurableAck, Disk, ReplaySnapshot
<1> QED
  BY <1>1, <1>2, <1>3, PTL DEF Spec
=============================================================================
