----------------------------- MODULE LogStores -----------------------------
(***************************************************************************)
(* The two log stores, given the same calls: BoltStore of internal/store,  *)
(* which production uses, and InmemLogStore of inmem.go, which the tests   *)
(* use.  What the tests show carries over only if nobody can tell them     *)
(* apart, and both have to be the sequence that Raft takes them for.       *)
(*                                                                         *)
(* A Bolt bucket is a map ordered by the bytes of its keys (external);     *)
(* InmemLogStore keeps its first and last index beside a Go map.  The      *)
(* calls are those of raft.go and replication.go: entries stored behind    *)
(* the last index, and DeleteRange from some index to the last.            *)
(***************************************************************************)
EXTENDS Naturals, Sequences, FiniteSetsExt

CONSTANTS
    Value,          \* what log entries hold
    None,           \* "not found"
    Base, Width,    \* digits of a key: 256 and 8 in the code
    MaxIndex,       \* bound: indexes used
    MaxBatch        \* bound: entries of one StoreLogs

ASSUME StoreAssumption ==
    /\ None \notin Value
    /\ Base \in Nat /\ Base > 1 /\ Width \in Nat /\ Width > 0
    /\ MaxIndex \in Nat /\ MaxBatch \in Nat

\* What the i-th digit of a key counts, the last one 1.
Weight[i \in 1..Width] == IF i = Width THEN 1 ELSE Base * Weight[i + 1]

\* How many numbers the keys tell apart: 2 ^ 64.
Numbers == Base * Weight[1]

ASSUME IndexAssumption == MaxIndex < Numbers

VARIABLES
    bucket,                     \* Bolt: key -> entry
    entries, lowIdx, highIdx    \* InmemLogStore

vars == <<bucket, entries, lowIdx, highIdx>>

-----------------------------------------------------------------------------
(* BoltStore *)

\* The key of an index, most significant byte first.
uint64ToBytes(v) == [i \in 1..Width |-> (v \div Weight[i]) % Base]

\* The index of a key.  (Only one of the numbers has these bytes.)
bytesToUint64(k) == CHOOSE v \in 0..(Numbers - 1) : uint64ToBytes(v) = k

\* The order in which a cursor goes through the keys (external).
ByteLeq(j, k) ==
    \/ j = k
    \/ \E i \in 1..Width : j[i] < k[i] /\ \A h \in 1..(i - 1) : j[h] = k[h]

FirstIndex ==
    IF DOMAIN bucket = {} THEN 0
    ELSE bytesToUint64(CHOOSE k \in DOMAIN bucket :
                           \A j \in DOMAIN bucket : ByteLeq(k, j))

LastIndex ==
    IF DOMAIN bucket = {} THEN 0
    ELSE bytesToUint64(CHOOSE k \in DOMAIN bucket :
                           \A j \in DOMAIN bucket : ByteLeq(j, k))

GetLog(i) ==
    LET k == uint64ToBytes(i)
    IN  IF k \in DOMAIN bucket THEN bucket[k] ELSE None

\* StoreLogs: one transaction that puts every entry of batch; of two entries
\* with one key the later one stays.
BoltStoreLogs(batch) ==
    LET At(k) == {i \in DOMAIN batch : uint64ToBytes(batch[i].index) = k}
        keys == {uint64ToBytes(batch[i].index) : i \in DOMAIN batch}
    IN  bucket' = [k \in DOMAIN bucket \cup keys |->
                      IF k \in keys THEN batch[Max(At(k))].value
                      ELSE bucket[k]]

\* DeleteRange: the cursor starts at the key of min and goes on until an index
\* is beyond max.
BoltDeleteRange(min, max) ==
    LET from == {k \in DOMAIN bucket : ByteLeq(uint64ToBytes(min), k)}
        deleted == {k \in from : \A j \in from :
                        ByteLeq(j, k) => bytesToUint64(j) <= max}
    IN  bucket' = [k \in DOMAIN bucket \ deleted |-> bucket[k]]

-----------------------------------------------------------------------------
(* InmemLogStore *)

\* StoreLogs: every entry is put into the map, and may be the lowest or the
\* highest one; 0 stands for no lowest index.
InmemStoreLogs(batch) ==
    LET At(j) == {i \in DOMAIN batch : batch[i].index = j}
        indexes == {batch[i].index : i \in DOMAIN batch}
    IN  /\ entries' = [j \in DOMAIN entries \cup indexes |->
                          IF j \in indexes THEN batch[Max(At(j))].value
                          ELSE entries[j]]
        /\ lowIdx' = Min(indexes \cup ({lowIdx} \ {0}))
        /\ highIdx' = Max(indexes \cup {highIdx})

\* Defect: the indexes are not computed again.
DeleteOnly(min, max) ==
    /\ entries' = [i \in DOMAIN entries \ (min..max) |-> entries[i]]
    /\ UNCHANGED <<lowIdx, highIdx>>

\* DeleteRange: both indexes are computed again, 0 for an empty map.
InmemDeleteRange(min, max) ==
    LET left == DOMAIN entries \ (min..max)
    IN  /\ entries' = [i \in left |-> entries[i]]
        /\ lowIdx' = IF left = {} THEN 0 ELSE Min(left)
        /\ highIdx' = IF left = {} THEN 0 ELSE Max(left)

-----------------------------------------------------------------------------
Init ==
    /\ bucket = <<>> /\ entries = <<>>
    /\ lowIdx = 0 /\ highIdx = 0

\* appendNoOp, handleApplyRequest and handleAppendEntries.
StoreLogs(values) ==
    LET batch == [i \in DOMAIN values |->
                      [index |-> LastIndex + i, value |-> values[i]]]
    IN  /\ LastIndex + Len(values) <= MaxIndex
        /\ BoltStoreLogs(batch)
        /\ InmemStoreLogs(batch)

\* Defect: only the entry that conflicts is deleted.
DeleteOne(min) == BoltDeleteRange(min, min) /\ InmemDeleteRange(min, min)

\* handleAppendEntries, when an entry conflicts.
DeleteRange(min) ==
    /\ BoltDeleteRange(min, LastIndex)
    /\ InmemDeleteRange(min, LastIndex)

Next ==
    \/ \E n \in 1..MaxBatch : \E values \in [1..n -> Value] : StoreLogs(values)
    \/ \E min \in 1..LastIndex : DeleteRange(min)

Spec == Init /\ [][Next]_vars

-----------------------------------------------------------------------------
(***************************************************************************)
(* No caller can tell the stores apart: first index, last index and every  *)
(* entry are the same, although one looks them up in the order of bytes    *)
(* and the other keeps them as numbers (inmem.go:74-91,                    *)
(* boltstore.go:57-96).                                                    *)
(***************************************************************************)
StoresAgree ==
    /\ FirstIndex = lowIdx /\ LastIndex = highIdx
    /\ \A i \in 0..MaxIndex :
           GetLog(i) = IF i \in DOMAIN entries THEN entries[i] ELSE None

(***************************************************************************)
(* The Bolt store is the sequence that module Raft works with: it has no   *)
(* gap, ends at LastIndex, and keeps everything below a truncation.        *)
(***************************************************************************)
Sequence == INSTANCE LogSequence WITH
                log <- [i \in 1..LastIndex |-> GetLog(i)]

ImplementsSequence == Sequence!Spec

=============================================================================
