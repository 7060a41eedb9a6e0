---------------------------- MODULE LogSequence ----------------------------
(***************************************************************************)
(* What Raft takes a LogStore for: a sequence that grows at its end and is *)
(* cut off from some index on.  The variable log of module Raft is one.    *)
(***************************************************************************)
EXTENDS Sequences, Naturals

CONSTANTS Value, MaxBatch

VARIABLE log

Init == log = <<>>

Store ==
    \E n \in 1..MaxBatch : \E batch \in [1..n -> Value] : log' = log \o batch

Cut == \E i \in 1..Len(log) : log' = SubSeq(log, 1, i - 1)

Next == Store \/ Cut

Spec == Init /\ [][Next]_log

=============================================================================
