------------------------------ MODULE WalStore ------------------------------
(***************************************************************************)
(* WriteAheadKvStore (src/core/kv_store.cpp): an in-memory map, a          *)
(* write-ahead log that is appended to and never truncated by a flush, and *)
(* a snapshot file that is truncated and written over.  Every operation    *)
(* runs under the store's one mutex, so an operation is one step; what can *)
(* come between its parts is the end of the process, and each operation    *)
(* that writes a file has a second form that ends in the middle of the     *)
(* write.                                                                  *)
(***************************************************************************)
EXTENDS KvRecord, SequencesExt

CONSTANTS
    Fault,           \* the one kind of fault of the instance: "open", a file cannot
                     \* be opened; "midwrite", the process ends during a write
    StartLogs,       \* the logs, in the old text format, a first start may find
    StartSnapshots,  \* the snapshots a first start may find
    MaxLog           \* bound on the length of the log

Entry == [key : Keys, value : Value]

ASSUME WalStoreAssumption ==
    /\ Fault \in {"none", "open", "midwrite"}
    /\ StartLogs \subseteq Seq(Entry)
    /\ StartSnapshots \subseteq [Keys -> Value]
    /\ MaxLog \in Nat

VARIABLES
    records,   \* records_, empty while the process is down
    wal,       \* the log file: its format, its whole frames, a cut last frame
    snapshot,  \* the snapshot file: its whole frames, a cut last frame
    status,    \* whether a process has recovered the store and serves it
    allowed    \* for each key, what its callers may find after a restart

vars == <<records, wal, snapshot, status, allowed>>

TypeOK ==
    /\ records \in [Keys -> Value]
    /\ wal \in [format : {"empty", "text", "proto"}, entries : Seq(Entry), torn : BOOLEAN]
    /\ snapshot \in [content : [Keys -> Value], torn : BOOLEAN]
    /\ status \in {"down", "up"}
    /\ allowed \in [Keys -> SUBSET Value]

-----------------------------------------------------------------------------
(***************************************************************************)
(* Replay.  The code applies the frames one by one; since a frame only     *)
(* overwrites or erases its own key, what it leaves under a key is the last *)
(* frame of that key, and the base map where there is none.                 *)
(***************************************************************************)
PutEntry(k, r) == [key |-> k, value |-> r]
\* Mutant: a delete frame read back as the put of an empty record.
DeleteEntryReadAsPut(k) ==
    [key |-> k, value |-> [version |-> 0, mutation_id |-> NoMutation, payload |-> NoMutation]]

DeleteEntry(k) == [key |-> k, value |-> Absent]

Touches(log, k) == {i \in 1..Len(log) : log[i].key = k}

LastTouch(log, k) ==
    CHOOSE i \in Touches(log, k) : \A j \in Touches(log, k) : j <= i

\* What applying the frames one by one leaves under each key: its last frame.
Replay(base, log) ==
    [k \in Keys |-> IF Touches(log, k) = {} THEN base[k]
                                            ELSE log[LastTouch(log, k)].value]

\* A snapshot with a cut frame is refused before any of its frames is applied.
ReplaySnapshot == IF snapshot.torn THEN Nothing ELSE snapshot.content

\* What the two files hold between them.
Disk == Replay(ReplaySnapshot, wal.entries)

-----------------------------------------------------------------------------
(***************************************************************************)
(* Writing the log.  A log in the text format is truncated and replaced by *)
(* one put frame per record that is in the map once the operation is done; *)
(* the operation's own frames are then not written.                        *)
(***************************************************************************)
InKeyOrder(S) ==
    {s \in SetToSeqs(S) : \A i, j \in 1..Len(s) : i < j => s[i] < s[j]}

Puts(order, map) == [i \in 1..Len(order) |-> PutEntry(order[i], map[order[i]])]

\* The frames an operation writes: its own, or those of a legacy rewrite.
Writes(own, after) ==
    IF wal.format = "text" THEN {Puts(order, after) : order \in InKeyOrder(Stored(after))}
                           ELSE own

\* Mutant: the log is opened without std::ios::app.
KeptNothing == <<>>

\* What the frames are written behind.
Kept == IF wal.format = "text" THEN <<>> ELSE wal.entries

LogFile(entries, torn) == [format |-> "proto", entries |-> entries, torn |-> torn]

\* The file once all of the frames are written.
WholeWrite(frames) == LogFile(Kept \o frames, FALSE)

\* The file if the process ends during the write: some frames, perhaps a part of
\* the next one; a file that gets its header in this write may be left empty or
\* with a part of the header, which the next start takes for an empty text log.
CutWrites(frames) ==
    {LogFile(Kept \o SubSeq(frames, 1, n), torn) :
        n \in 0..(Len(frames) - 1), torn \in BOOLEAN}
    \cup {WholeWrite(frames)}
    \cup IF wal.format = "proto" THEN {}
         ELSE {[format |-> f, entries |-> <<>>, torn |-> FALSE] : f \in {"empty", "text"}}

HasRoom(n) == Len(Kept) + n <= MaxLog

ProcessEnds == status' = "down" /\ records' = Nothing

-----------------------------------------------------------------------------
\* The callers' side: S is acknowledged as being as in map, or is left open.
Promise(S, map) == allowed' = [k \in Keys |-> IF k \in S THEN {map[k]} ELSE allowed[k]]
LeaveOpen(S, map) ==
    allowed' = [k \in Keys |-> IF k \in S THEN allowed[k] \cup {map[k]} ELSE allowed[k]]

\* An operation that wrote all its frames and returns Ok.
Acknowledge(own, after, S) ==
    /\ \E frames \in Writes(own, after) : wal' = WholeWrite(frames)
    /\ records' = after
    /\ Promise(S, after)
    /\ UNCHANGED <<snapshot, status>>

\* The process ends while the operation writes its frames.
EndInAppend(own, after, S) ==
    /\ Fault = "midwrite"
    /\ \E frames \in Writes(own, after) : wal' \in CutWrites(frames)
    /\ LeaveOpen(S, after)
    /\ ProcessEnds
    /\ UNCHANGED snapshot

\* Mutant: the status of the append is dropped.
FailToAppendUnnoticed(after, S) ==
    /\ Fault = "open"
    /\ records' = after
    /\ Promise(S, after)
    /\ UNCHANGED <<wal, snapshot, status>>

\* The log cannot be opened: the map has been changed, the caller gets an error.
FailToAppend(after, S) ==
    /\ Fault = "open"
    /\ records' = after
    /\ LeaveOpen(S, after)
    /\ UNCHANGED <<wal, snapshot, status>>

\* Mutant: the version is not compared.
PutUnvalidated(k, r) ==
    LET after == [records EXCEPT ![k] = r]
        own   == {<<PutEntry(k, r)>>}
    IN  /\ status = "up"
        /\ ~ Ignores(records[k], r)
        /\ HasRoom(1)
        /\ \/ Acknowledge(own, after, {k})
           \/ EndInAppend(own, after, {k})
           \/ FailToAppend(after, {k})

Put(k, r) ==
    LET after == [records EXCEPT ![k] = r]
        own   == {<<PutEntry(k, r)>>}
    IN  /\ status = "up"
        /\ Replaces(records[k], r)
        /\ HasRoom(1)
        /\ \/ Acknowledge(own, after, {k})
           \/ EndInAppend(own, after, {k})
           \/ FailToAppend(after, {k})

\* A repeated mutation id: Ok, and nothing is written.
PutRepeated(k, r) ==
    /\ status = "up"
    /\ Ignores(records[k], r)
    /\ Promise({k}, records)
    /\ UNCHANGED <<records, wal, snapshot, status>>

Delete(k) ==
    LET after == [records EXCEPT ![k] = Absent]
        own   == {<<DeleteEntry(k)>>}
    IN  /\ status = "up"
        /\ HasRoom(1)
        /\ \/ Acknowledge(own, after, {k})
           \/ EndInAppend(own, after, {k})
           \/ FailToAppend(after, {k})

\* Mutant: a repeated mutation of the batch is staged all the same, and not written.
BatchPutStagesAll(batch) ==
    LET S     == ToApply(records, batch)
        after == Staged(records, batch, DOMAIN batch)
        own   == {Puts(order, after) : order \in SetToSeqs(S)}
    IN  /\ status = "up"
        /\ BatchAdmitted(records, batch)
        /\ S # {}
        /\ HasRoom(Cardinality(S))
        /\ \/ Acknowledge(own, after, DOMAIN batch)
           \/ EndInAppend(own, after, S)

\* The batch is staged on a copy, so a log that cannot be opened changes nothing.
BatchPut(batch) ==
    LET S     == ToApply(records, batch)
        after == Staged(records, batch, S)
        own   == {Puts(order, after) : order \in SetToSeqs(S)}
    IN  /\ status = "up"
        /\ BatchAdmitted(records, batch)
        /\ S # {}
        /\ HasRoom(Cardinality(S))
        /\ \/ Acknowledge(own, after, DOMAIN batch)
           \/ EndInAppend(own, after, S)

\* Every record of the batch repeats a mutation: Ok, and nothing is written.
BatchPutRepeated(batch) ==
    /\ status = "up"
    /\ ToApply(records, batch) = {}
    /\ Promise(DOMAIN batch, records)
    /\ UNCHANGED <<records, wal, snapshot, status>>

-----------------------------------------------------------------------------
\* Mutant: a flush empties the log, which the snapshot now makes superfluous.
FlushSnapshotTruncatesLog ==
    /\ status = "up"
    /\ snapshot' = WholeSnapshot(records)
    /\ wal' = LogFile(<<>>, FALSE)
    /\ UNCHANGED <<records, status, allowed>>

FlushSnapshot ==
    /\ status = "up"
    /\ snapshot' = WholeSnapshot(records)
    /\ UNCHANGED <<records, wal, status, allowed>>

\* The destructor flushes on the way out.
Shutdown ==
    /\ status = "up"
    /\ snapshot' = WholeSnapshot(records)
    /\ ProcessEnds
    /\ UNCHANGED <<wal, allowed>>

EndInFlush ==
    /\ Fault = "midwrite"
    /\ status = "up"
    /\ snapshot' \in CutSnapshots(records)
    /\ ProcessEnds
    /\ UNCHANGED <<wal, allowed>>

Crash ==
    /\ status = "up"
    /\ ProcessEnds
    /\ UNCHANGED <<wal, snapshot, allowed>>

Recover ==
    /\ status = "down"
    /\ ~ snapshot.torn
    /\ ~ wal.torn
    /\ records' = Disk
    /\ status' = "up"
    /\ UNCHANGED <<wal, snapshot, allowed>>

\* A file that cannot be opened is taken for a missing one, and the store starts without
\* what is in it.
RecoverBlind ==
    /\ Fault = "open"
    /\ status = "down"
    /\ \E base \in {snapshot.content, Nothing}, log \in {wal.entries, <<>>} :
          records' = Replay(base, log)
    /\ status' = "up"
    /\ UNCHANGED <<wal, snapshot, allowed>>

\* Mutant: a failed start leaves the files alone.
FailedStartLeavesFiles ==
    /\ status = "down"
    /\ snapshot.torn \/ wal.torn
    /\ UNCHANGED vars

\* A cut frame in either file fails the start, and the destructor of the store that
\* could not be recovered flushes what had been replayed by then over the snapshot.
FailedStart ==
    /\ status = "down"
    /\ snapshot.torn \/ wal.torn
    /\ snapshot' = WholeSnapshot(ReplaySnapshot)
    /\ UNCHANGED <<records, wal, status, allowed>>

\* The same, ended in the middle of that flush.
EndInFailedStart ==
    /\ Fault = "midwrite"
    /\ status = "down"
    /\ snapshot.torn \/ wal.torn
    /\ snapshot' \in CutSnapshots(ReplaySnapshot)
    /\ UNCHANGED <<records, wal, status, allowed>>

-----------------------------------------------------------------------------
Init ==
    /\ records = Nothing
    /\ \E log \in StartLogs :
          wal = [format |-> IF log = <<>> THEN "empty" ELSE "text",
                 entries |-> log, torn |-> FALSE]
    /\ \E content \in StartSnapshots : snapshot = WholeSnapshot(content)
    /\ status = "down"
    /\ allowed = [k \in Keys |-> {Disk[k]}]

Next ==
    \/ \E k \in Keys : Delete(k) \/ \E r \in Record : Put(k, r) \/ PutRepeated(k, r)
    \/ \E batch \in Batches : BatchPut(batch) \/ BatchPutRepeated(batch)
    \/ FlushSnapshot
    \/ Shutdown
    \/ EndInFlush
    \/ Crash
    \/ Recover
    \/ RecoverBlind
    \/ FailedStart
    \/ EndInFailedStart

Spec == Init /\ [][Next]_vars

\* The container is restarted for as long as it is down (docker-compose.yml), so an
\* attempt to start that stays possible is made; nothing else is promised to happen.
FairSpec == Spec /\ WF_vars(Recover) /\ WF_vars(FailedStart)

-----------------------------------------------------------------------------
\* Whatever happens, a restart finds under every key the last acknowledged write or
\* one that was begun after it and never acknowledged (Put, BatchPut and Delete).
DurableAck == \A k \in Keys : Disk[k] \in allowed[k]

\* While the store serves, memory is what a restart would find (Put changes the map
\* before it appends, BatchPut after).
MemoryIsDisk == status = "up" => records = Disk

\* The log holds everything: with the snapshot gone a restart finds the same map,
\* which is what makes a torn or half-written snapshot harmless (FlushSnapshot
\* truncates before it writes, ~WriteAheadKvStore flushes after a failed Recover).
LogAloneSuffices == Disk = Replay(Nothing, wal.entries)

\* A record found at a restart is never older than the one an earlier restart would
\* have found, deletion apart: stale writes stay out through crashes and replays.
VersionNeverRegresses ==
    [][\A k \in Keys :
          /\ Disk[k] # Absent /\ Disk'[k] # Absent
          /\ Disk[k].version # 0 /\ Disk'[k].version # 0
          => Disk'[k].version >= Disk[k].version]_vars

\* The store is the durable map of DurableMap, the map being what the files hold.
Map == INSTANCE DurableMap WITH store <- Disk, serving <- (status = "up")
ImplementsDurableMap == Map!Spec

\* A torn snapshot repairs itself: unless the log is torn too, the store serves again.
TornSnapshotHeals == (snapshot.torn /\ ~ wal.torn) ~> (status = "up")

\* The log that replaces a text log means what the store holds (AppendWalLocked and
\* AppendDeleteLocked write the records that are left, and nothing for one that is not).
RewriteKeepsMeaning ==
    [][wal.format = "text" /\ wal'.format = "proto" => Disk' = records']_vars

\* A write acknowledged as the repetition of a mutation is one that was made: a restart
\* finds that mutation (Put changes the map before an append that may fail).
RetryIsApplied ==
    [][\A k \in Keys, r \in Record :
          PutRepeated(k, r) => Ignores(Disk'[k], r)]_vars
=============================================================================
