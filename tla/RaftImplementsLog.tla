------------------------- MODULE RaftImplementsLog -------------------------
(***************************************************************************)
(* Raft implements ReplicatedLog.  A server knows its log up to            *)
(* commitIndex; chosen is a history variable, the longest prefix that any  *)
(* server has ever known, so that it outlives the crash of every server    *)
(* that knew it.                                                           *)
(***************************************************************************)
EXTENDS Raft

VARIABLE chosen

\* What server n hands to its FSM.
Committed(n) == SubSeq(log[n], 1, commitIndex[n])

LogInit == Init /\ chosen = <<>>

\* A step that brings a commitIndex beyond everything known so far.
Record ==
    \/ \E n \in Server : /\ commitIndex'[n] > Len(chosen)
                         /\ chosen' = Committed(n)'
    \/ /\ \A n \in Server : commitIndex'[n] <= Len(chosen)
       /\ UNCHANGED chosen

LogNext == Next /\ Record

LogSpec == LogInit /\ [][LogNext]_<<vars, chosen>>

Abstract == INSTANCE ReplicatedLog WITH
    learned <- [n \in Server |-> Committed(n)]

(***************************************************************************)
(* The applyLoops of all the servers, before and after crashes, read one   *)
(* and the same growing sequence: no entry is committed twice with         *)
(* different contents, none is taken back, and none is lost when every     *)
(* server that knew it to be committed has crashed.                        *)
(***************************************************************************)
ImplementsLog == Abstract!Spec

=============================================================================
