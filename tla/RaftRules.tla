------------------------------ MODULE RaftRules ------------------------------
(***************************************************************************)
(* The decisions of internal/raft that depend only on their arguments: the *)
(* comparison of logs in a vote, the consistency check and the merge of an *)
(* AppendEntries request, the conflict hints of a refusal, the leader's    *)
(* choice of the next index to send and of the index to commit.            *)
(*                                                                         *)
(* A log is a sequence of entries [term, data]; the index of an entry is   *)
(* its position (LogEntry.Index in the code is always the position, every  *)
(* writer stores LastIndex()+1 or the indexes of a leader that did).       *)
(* Nothing here is recursive, so the operators can be reasoned about by    *)
(* TLAPS as well as evaluated by TLC.                                      *)
(***************************************************************************)
EXTENDS Integers, Sequences, FiniteSets

(***************************************************************************)
(* The greatest element of a finite, non-empty set of numbers, and its     *)
(* least element.                                                          *)
(***************************************************************************)
Greatest(S) == CHOOSE x \in S : \A y \in S : y <= x
Least(S) == CHOOSE x \in S : \A y \in S : x <= y

\* Defect: half of the cluster, rounded down, is taken for a majority.
QuorumSizeHalf(S) == Cardinality(S) \div 2

\* "totalNodes/2 + 1" of the server set S, the size of the smallest majority.
QuorumSize(S) == (Cardinality(S) \div 2) + 1

\* votes >= quorum: V, the servers whose vote was counted, are a majority of S.
IsQuorum(V, S) == Cardinality(V) >= QuorumSize(S)

-----------------------------------------------------------------------------
(* Elections *)

\* lastLogInfo: index and term of the last entry, (0, 0) for an empty log.
lastTerm(lg) == IF Len(lg) = 0 THEN 0 ELSE lg[Len(lg)].term

\* Defect: the longer log wins whatever its last term.
LongerLogWins(candTerm, candIndex, voterTerm, voterIndex) ==
    candIndex >= voterIndex

\* isLogUpToDate: the candidate's last term is higher, or equal and its log is
\* at least as long.
isLogUpToDate(candTerm, candIndex, voterTerm, voterIndex) ==
    \/ candTerm > voterTerm
    \/ candTerm = voterTerm /\ candIndex >= voterIndex

-----------------------------------------------------------------------------
(* AppendEntries at the follower *)

\* Step 2 of handleAppendEntries: the log holds prevIndex with prevTerm.
LogConsistent(lg, prevIndex, prevTerm) ==
    \/ prevIndex = 0
    \/ prevIndex \in 1..Len(lg) /\ lg[prevIndex].term = prevTerm

\* The hints of a refusal: a log that is too short names the index after its
\* end and no term; a conflicting entry names its term and the first index of
\* the run of that term that ends at prevIndex.
ConflictHint(lg, prevIndex) ==
    IF Len(lg) < prevIndex
    THEN [term |-> 0, index |-> Len(lg) + 1]
    ELSE LET t == lg[prevIndex].term
         IN  [term  |-> t,
              index |-> Least({i \in 1..prevIndex :
                                  \A j \in i..prevIndex : lg[j].term = t})]

\* Step 3: positions of the request's entries that the log does not hold.
Mismatches(lg, prevIndex, entries) ==
    {i \in 1..Len(entries) :
        \/ prevIndex + i > Len(lg)
        \/ lg[prevIndex + i].term # entries[i].term}

\* Defect: the missing entries are stored, the conflicting ones are kept.
KeepConflicts(lg, prevIndex, entries) ==
    IF prevIndex + Len(entries) <= Len(lg)
    THEN lg
    ELSE lg \o SubSeq(entries, Len(lg) - prevIndex + 1, Len(entries))

\* Defect: the log always ends where the request does.
CutLog(lg, prevIndex, entries) == SubSeq(lg, 1, prevIndex) \o entries

\* Step 3: from the first entry that is missing or has another term, the log
\* is cut and the rest of the request stored; a request that is already in the
\* log changes nothing, even when the log goes on after it.
MergeEntries(lg, prevIndex, entries) ==
    LET bad == Mismatches(lg, prevIndex, entries)
    IN  IF bad = {}
        THEN lg
        ELSE LET i == Least(bad)
             IN  SubSeq(lg, 1, prevIndex + i - 1)
                     \o SubSeq(entries, i, Len(entries))

\* Step 3, first transaction only: DeleteRange has removed the conflicting
\* suffix and StoreLogs has not run yet.
DeleteConflicts(lg, prevIndex, entries) ==
    LET bad == Mismatches(lg, prevIndex, entries)
    IN  IF bad = {} \/ prevIndex + Least(bad) > Len(lg)
        THEN lg
        ELSE SubSeq(lg, 1, prevIndex + Least(bad) - 1)

\* Step 4: min(LeaderCommit, LastIndex()), never backwards.
FollowerCommit(commit, leaderCommit, lastIndex) ==
    IF leaderCommit > commit
    THEN IF lastIndex < leaderCommit THEN lastIndex ELSE leaderCommit
    ELSE commit

-----------------------------------------------------------------------------
(* Replication at the leader *)

\* Defect: the lower bound of nextIndex is forgotten.
BackUpToZero(lg, hint) ==
    LET same == {i \in 1..Len(lg) : lg[i].term = hint.term}
    IN  IF hint.term > 0 /\ same # {} THEN Greatest(same) + 1 ELSE hint.index

\* The next index to send after a refusal: after our last entry of the
\* conflicting term, or else where the follower says; at least 1.
BackUp(lg, hint) ==
    LET same == {i \in 1..Len(lg) : lg[i].term = hint.term}
        next == IF hint.term > 0 /\ same # {}
                THEN Greatest(same) + 1
                ELSE hint.index
    IN  IF next < 1 THEN 1 ELSE next

\* Defect: one server less than a majority suffices.
CommitMinority(match, S) ==
    Greatest({match[s] : s \in {s \in S :
        Cardinality({r \in S : match[r] >= match[s]}) >= QuorumSize(S) - 1}})

\* advanceCommitIndex: the value at position majority-1 of the match indexes
\* sorted downwards, that is the highest one that a majority has reached.
CommitCandidate(match, S) ==
    Greatest({match[s] : s \in {s \in S :
        Cardinality({r \in S : match[r] >= match[s]}) >= QuorumSize(S)}})

\* Defect: an entry of an old term is committed by counting.
CommitOldTerms(lg, commit, term, newCommit) ==
    IF newCommit \in (commit + 1)..Len(lg) THEN newCommit ELSE commit

\* advanceCommitIndex, the guards: only forwards, only an entry the log holds,
\* only an entry of the current term (section 5.4.2).
LeaderCommit(lg, commit, term, newCommit) ==
    IF newCommit \in (commit + 1)..Len(lg) /\ lg[newCommit].term = term
    THEN newCommit
    ELSE commit

=============================================================================
