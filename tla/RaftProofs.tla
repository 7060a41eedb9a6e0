----------------------------- MODULE RaftProofs -----------------------------
(***************************************************************************)
(* Proofs about Raft, for every set of servers and every value of the      *)
(* bounds.                                                                 *)
(*                                                                         *)
(* TypeCorrect: every reachable state has the shape TypeOK describes.  The *)
(* steps worth reading are those that compute indexes: BackUp (nextIndex   *)
(* never becomes 0), ConflictHint and MergeEntries.                        *)
(*                                                                         *)
(* ElectionSafe: no term has two leaders, when no replicator interferes    *)
(* with its own node's election (RacyStepDown = FALSE).  ElectionInv is    *)
(* the inductive invariant: votes that are counted or on their way were    *)
(* really cast, a server's vote of a term goes to one candidate for as     *)
(* long as that term has no leader, and who sends AppendEntries in a term  *)
(* has won it.  VotesFinal, that a vote is kept for as long as its term    *)
(* lasts, follows from the same invariant.                                 *)
(*                                                                         *)
(* HintsSound: where a Follower sends its clients, with the race or not.   *)
(***************************************************************************)
EXTENDS Raft, TLAPS, FiniteSetTheorems, SequenceTheorems, WellFoundedInduction

(* Lemmas about the rules *)

\* A non-empty set of natural numbers has the least element Least picks (the
\* first mismatch of a request, the first index of a conflicting term).
LEMMA LeastNat ==
    ASSUME NEW S \in SUBSET Nat, S # {}
    PROVE  Least(S) \in S /\ \A y \in S : Least(S) <= y
<1>1. PICK x \in S : \A y \in S : ~ (<<y, x>> \in OpToRel(<, Nat))
    BY NatLessThanWellFounded, WFMin, Zenon
<1>2. \A y \in S : ~ (y < x)
    BY <1>1, Zenon DEF OpToRel
<1>3. \A y \in S : x <= y
    BY <1>2
<1>. QED
    BY <1>3 DEF Least

\* A non-empty set of numbers up to n has the greatest element Greatest picks
\* (the last entry of a conflicting term in the leader's log).
LEMMA GreatestNat ==
    ASSUME NEW n \in Nat, NEW S \in SUBSET (0..n), S # {}
    PROVE  Greatest(S) \in S /\ \A y \in S : y <= Greatest(S)
<1>. DEFINE D == {n - x : x \in S}
<1>1. D \in SUBSET Nat /\ D # {}
    <2>1. \A x \in S : n - x \in Nat
        OBVIOUS
    <2>2. PICK x \in S : TRUE
        OBVIOUS
    <2>3. n - x \in D
        BY <2>2
    <2>. QED
        BY <2>1, <2>3
<1>2. Least(D) \in D /\ \A y \in D : Least(D) <= y
    BY <1>1, LeastNat
<1>3. PICK x \in S : Least(D) = n - x
    BY <1>2
<1>4. \A y \in S : y <= x
    <2>. SUFFICES ASSUME NEW y \in S PROVE y <= x
        OBVIOUS
    <2>1. n - y \in D
        OBVIOUS
    <2>2. n - x <= n - y
        BY <1>2, <1>3, <2>1
    <2>. QED
        BY <2>2
<1>. QED
    BY <1>4 DEF Greatest

\* The first mismatch of a consistent request is at most one position after
\* the end of the log, so what is kept and what is added are both sequences.
LEMMA FirstMismatch ==
    ASSUME NEW E, NEW lg \in Seq(E), NEW es \in Seq(E),
           NEW prev \in 0..Len(lg), Mismatches(lg, prev, es) # {}
    PROVE  LET i == Least(Mismatches(lg, prev, es))
           IN  i \in 1..Len(es) /\ prev + i - 1 \in 0..Len(lg)
<1>. DEFINE bad == Mismatches(lg, prev, es)
            i == Least(bad)
<1>1. bad \in SUBSET Nat /\ bad \subseteq 1..Len(es)
    BY DEF Mismatches
<1>2. i \in bad /\ \A j \in bad : i <= j
    BY <1>1, LeastNat
<1>3. i \in 1..Len(es)
    BY <1>1, <1>2
<1>4. prev + i - 1 <= Len(lg)
    <2>1. CASE i = 1
        BY <2>1
    <2>2. CASE i > 1
        <3>1. i - 1 \in 1..Len(es) /\ i - 1 \notin bad
            BY <1>2, <1>3, <2>2
        <3>. QED
            BY <3>1, <1>3 DEF Mismatches
    <2>. QED
        BY <1>3, <2>1, <2>2
<1>. QED
    BY <1>3, <1>4

\* The merged log is a log.
LEMMA MergeType ==
    ASSUME NEW E, NEW lg \in Seq(E), NEW es \in Seq(E),
           NEW prev \in 0..Len(lg)
    PROVE  /\ MergeEntries(lg, prev, es) \in Seq(E)
           /\ DeleteConflicts(lg, prev, es) \in Seq(E)
<1>. DEFINE bad == Mismatches(lg, prev, es)
            i == Least(bad)
<1>1. CASE bad = {}
    BY <1>1 DEF MergeEntries, DeleteConflicts
<1>2. CASE bad # {}
    <2>1. i \in 1..Len(es) /\ prev + i - 1 \in 0..Len(lg)
        BY <1>2, FirstMismatch
    <2>2. SubSeq(lg, 1, prev + i - 1) \in Seq(E)
        BY <2>1, SubSeqProperties
    <2>3. SubSeq(es, i, Len(es)) \in Seq(E)
        BY <2>1, SubSeqProperties
    <2>4. SubSeq(lg, 1, prev + i - 1) \o SubSeq(es, i, Len(es)) \in Seq(E)
        BY <2>2, <2>3, ConcatProperties
    <2>. QED
        BY <1>2, <2>2, <2>4 DEF MergeEntries, DeleteConflicts
<1>. QED
    BY <1>1, <1>2

\* The hints of a refusal are numbers.
LEMMA HintType ==
    ASSUME NEW lg \in Seq(Entry), NEW prev \in Nat \ {0}
    PROVE  ConflictHint(lg, prev) \in [term : Nat, index : Nat]
<1>1. CASE Len(lg) < prev
    BY <1>1 DEF ConflictHint
<1>2. CASE ~ (Len(lg) < prev)
    <2>. DEFINE t == lg[prev].term
                run == {i \in 1..prev : \A j \in i..prev : lg[j].term = t}
    <2>1. prev \in 1..Len(lg)
        BY <1>2
    <2>2. t \in Nat
        <3>1. lg[prev] \in Entry
            BY <2>1, ElementOfSeq
        <3>. QED
            BY <3>1 DEF Entry
    <2>3. prev \in run /\ run \in SUBSET Nat
        BY <2>1
    <2>4. Least(run) \in Nat
        BY <2>3, LeastNat
    <2>. QED
        BY <1>2, <2>2, <2>4 DEF ConflictHint
<1>. QED
    BY <1>1, <1>2

\* Whatever the hint, the next index to send is a position, at least 1.
LEMMA BackUpType ==
    ASSUME NEW lg \in Seq(Entry), NEW hint \in [term : Nat, index : Nat]
    PROVE  BackUp(lg, hint) \in Nat \ {0}
<1>. DEFINE same == {i \in 1..Len(lg) : lg[i].term = hint.term}
<1>1. CASE same # {}
    <2>1. same \in SUBSET (0..Len(lg))
        OBVIOUS
    <2>2. Len(lg) \in Nat
        OBVIOUS
    <2>3. Greatest(same) \in same
        BY <1>1, <2>1, <2>2, GreatestNat
    <2>. QED
        BY <2>3 DEF BackUp
<1>2. CASE same = {}
    BY <1>2 DEF BackUp
<1>. QED
    BY <1>1, <1>2

-----------------------------------------------------------------------------
(* Types *)

\* The term a log ends with is a number.
LEMMA LastTermType ==
    ASSUME NEW lg \in Seq(Entry)
    PROVE  lastTerm(lg) \in Nat
<1>1. CASE Len(lg) = 0
    BY <1>1 DEF lastTerm
<1>2. CASE Len(lg) # 0
    <2>1. lg[Len(lg)] \in Entry
        BY <1>2, ElementOfSeq
    <2>. QED
        BY <1>2, <2>1 DEF lastTerm, Entry
<1>. QED
    BY <1>1, <1>2

\* Changing the status of a call, or its reply, leaves a call.
LEMMA StatusType ==
    ASSUME NEW c \in Call, NEW st \in {"live", "orphan", "late"}
    PROVE  [c EXCEPT !.status = st] \in Call
    BY DEF Call

LEMMA ReplyType ==
    ASSUME NEW c \in Call, NEW rp \in AppendReply
    PROVE  [c EXCEPT !.reply = rp] \in Call
    BY DEF Call

\* The shapes that most steps need, apart from the rest of TypeOK.
LEMMA Shapes ==
    ASSUME TypeOK
    PROVE  /\ currentTerm \in [Server -> Nat]
           /\ votedFor \in [Server -> Server \cup {Nil}]
           /\ state \in [Server -> {"Follower", "Candidate", "Leader"}]
           /\ log \in [Server -> Seq(Entry)]
           /\ nextIndex \in [Server -> [Server -> Nat \ {0}]]
    BY DEF TypeOK

\* replicateOnce builds a well-formed request, wherever nextIndex points.
LEMMA AppendRequestType ==
    ASSUME TypeOK, NEW n \in Server, NEW p \in Server
    PROVE  AppendRequest(n, p) \in AppendReq
<1>. DEFINE prev == nextIndex[n][p] - 1
            lg == log[n]
<1>1. prev \in Nat /\ lg \in Seq(Entry)
    BY Shapes
<1>2. (IF prev \in 1..Len(lg) THEN lg[prev].term ELSE 0) \in Nat
    <2>1. CASE prev \in 1..Len(lg)
        <3>1. lg[prev] \in Entry
            BY <1>1, <2>1, ElementOfSeq
        <3>. QED
            BY <2>1, <3>1 DEF Entry
    <2>. QED
        BY <2>1
<1>3. SubSeq(lg, prev + 1, Len(lg)) \in Seq(Entry)
    <2>1. \A i \in (prev + 1)..Len(lg) : lg[i] \in Entry
        BY <1>1, ElementOfSeq
    <2>. QED
        BY <1>1, <2>1, SubSeqProperties
<1>. QED
    BY <1>1, <1>2, <1>3 DEF AppendRequest, AppendReq, TypeOK

\* The new peers map of a leader, and the calls that it orphans.
LEMMA InitPeersType ==
    ASSUME TypeOK, NEW n \in Server, InitPeers(n)
    PROVE  /\ nextIndex' \in [Server -> [Server -> Nat \ {0}]]
           /\ matchIndex' \in [Server -> [Server -> Nat]]
           /\ calls' \subseteq Call
<1>1. log[n] \in Seq(Entry) /\ calls \subseteq Call
    BY DEF TypeOK
<1>2. Len(log[n]) + 1 \in Nat \ {0}
    BY <1>1
<1>3. \A c \in calls : [c EXCEPT !.status = "orphan"] \in Call
    BY <1>1, StatusType
<1>. QED
    BY <1>1, <1>2, <1>3 DEF InitPeers, TypeOK

\* Winning an election keeps the types.
LEMMA BecomeLeaderType ==
    ASSUME TypeOK, NEW n \in Server, NEW t \in Nat, NEW V \in SUBSET Server,
           BecomeLeader(n, t, V)
    PROVE  /\ state' \in [Server -> {"Follower", "Candidate", "Leader"}]
           /\ loop' \in [Server -> {"follower", "candidate", "starting", "leader"}]
           /\ leaderID' \in [Server -> Server \cup {Nil}]
           /\ campaign' \in [Server -> Nat]
           /\ votes' \in [Server -> SUBSET Server]
           /\ nextIndex' \in [Server -> [Server -> Nat \ {0}]]
           /\ matchIndex' \in [Server -> [Server -> Nat]]
           /\ calls' \subseteq Call
           /\ elections' \subseteq
                  [term : Nat, leader : Server, votes : SUBSET Server]
<1>1. InitPeers(n)
    BY DEF BecomeLeader
<1>2. QED
    <2>1. /\ state' \in [Server -> {"Follower", "Candidate", "Leader"}]
          /\ loop' \in [Server -> {"follower", "candidate", "starting", "leader"}]
          /\ leaderID' \in [Server -> Server \cup {Nil}]
          /\ campaign' \in [Server -> Nat]
          /\ votes' \in [Server -> SUBSET Server]
        BY DEF BecomeLeader, TypeOK
    <2>2. elections' \subseteq
              [term : Nat, leader : Server, votes : SUBSET Server]
        BY DEF BecomeLeader, TypeOK
    <2>. QED
        BY <1>1, <2>1, <2>2, InitPeersType

\* A restart keeps the types.
LEMMA RebootType ==
    ASSUME TypeOK, NEW n \in Server, NEW left \in SUBSET calls,
           Reboot(n, left), currentTerm' \in [Server -> Nat],
           votedFor' \in [Server -> Server \cup {Nil}],
           log' \in [Server -> Seq(Entry)]
    PROVE  TypeOK'
<1>1. calls' \subseteq Call
    <2>1. \A c \in left : c \in Call /\ [c EXCEPT !.status = "late"] \in Call
        BY StatusType DEF TypeOK
    <2>. QED
        BY <2>1 DEF Reboot
<1>2. QED
    <2>1. /\ state' \in [Server -> {"Follower", "Candidate", "Leader"}]
          /\ loop' \in [Server -> {"follower", "candidate", "starting", "leader"}]
          /\ commitIndex' \in [Server -> Nat]
          /\ leaderID' \in [Server -> Server \cup {Nil}]
          /\ campaign' \in [Server -> Nat]
          /\ votes' \in [Server -> SUBSET Server]
          /\ nextIndex' \in [Server -> [Server -> Nat \ {0}]]
          /\ matchIndex' \in [Server -> [Server -> Nat]]
          /\ started' \in Nat
          /\ restarts' \in Nat
        BY DEF Reboot, TypeOK
    <2>2. /\ voteReqs' \subseteq VoteReq
          /\ voteReplies' \subseteq VoteReply
          /\ elections' \subseteq
                 [term : Nat, leader : Server, votes : SUBSET Server]
        BY DEF Reboot, Listened, TypeOK
    <2>. QED
        BY <1>1, <2>1, <2>2 DEF TypeOK

\* The answer to a call is stored in a well-formed call, or nowhere.
LEMMA AnswerType ==
    ASSUME TypeOK, NEW c \in calls, NEW rp \in AppendReply
    PROVE  Answer(c, rp) \subseteq Call
<1>1. calls \subseteq Call
    BY DEF TypeOK
<1>2. [c EXCEPT !.reply = rp] \in Call
    BY <1>1, ReplyType
<1>. QED
    BY <1>1, <1>2 DEF Answer

\* Writing one peer's index keeps the type of the peers map.
LEMMA PeerUpdateType ==
    ASSUME NEW T, NEW f \in [Server -> [Server -> T]],
           NEW n \in Server, NEW p \in Server, NEW x \in T
    PROVE  [f EXCEPT ![n][p] = x] \in [Server -> [Server -> T]]
    OBVIOUS

\* Messages carry terms.
LEMMA TermsType ==
    ASSUME TypeOK, NEW n \in Server
    PROVE  TermsOnTheWay(n) \subseteq Nat
<1>1. \A m \in voteReqs : m.term \in Nat
    BY DEF TypeOK, VoteReq
<1>2. \A r \in voteReplies : r.term \in Nat
    BY DEF TypeOK, VoteReply
<1>3. \A c \in calls : c.req \in AppendReq /\ c.reply \in AppendReply
    BY DEF TypeOK, Call
<1>4. \A c \in calls : c.req.term \in Nat /\ c.reply.term \in Nat
    BY <1>3 DEF AppendReq, AppendReply
<1>. QED
    BY <1>1, <1>2, <1>4 DEF TermsOnTheWay

\* Every step keeps the types: one case per action.
LEMMA TypeStep ==
    TypeOK /\ [Next]_vars => TypeOK'
<1>. SUFFICES ASSUME TypeOK, [Next]_vars PROVE TypeOK'
    OBVIOUS
<1>. USE NilAssumption
<1>1. ASSUME NEW n \in Server, ElectionTimeout(n) PROVE TypeOK'
    <2>. DEFINE t == currentTerm[n] + 1
    <2>1. t \in Nat /\ lastTerm(log[n]) \in Nat /\ Len(log[n]) \in Nat
        BY LastTermType DEF TypeOK
    <2>2. /\ currentTerm' \in [Server -> Nat]
          /\ votedFor' \in [Server -> Server \cup {Nil}]
          /\ voteReqs' \subseteq VoteReq
          /\ voteReplies' \subseteq VoteReply
          /\ started' \in Nat
          /\ UNCHANGED <<log, commitIndex, restarts>>
        BY <1>1, <2>1 DEF ElectionTimeout, Listened, VoteReq, TypeOK
    <2>3. CASE IsQuorum({n}, Server)
        <3>1. BecomeLeader(n, t, {n})
            BY <1>1, <2>3 DEF ElectionTimeout
        <3>2. {n} \in SUBSET Server
            OBVIOUS
        <3>. QED
            BY <2>1, <2>2, <3>1, <3>2, BecomeLeaderType DEF TypeOK
    <2>4. CASE ~ IsQuorum({n}, Server)
        <3>1. /\ state' = [state EXCEPT ![n] = "Candidate"]
              /\ loop' = [loop EXCEPT ![n] = "candidate"]
              /\ campaign' = [campaign EXCEPT ![n] = t]
              /\ votes' = [votes EXCEPT ![n] = {n}]
              /\ UNCHANGED <<leaderID, nextIndex, matchIndex, calls, elections>>
            BY <1>1, <2>4 DEF ElectionTimeout, peerVars
        <3>. QED
            BY <2>1, <2>2, <3>1 DEF TypeOK
    <2>. QED
        BY <2>3, <2>4
<1>2. ASSUME NEW n \in Server, CandidateGivesUp(n) PROVE TypeOK'
    BY <1>2 DEF CandidateGivesUp, Reenter, Listened, persistent, peerVars, TypeOK
<1>3. ASSUME NEW n \in Server, NEW m \in voteReqs, HandleRequestVote(n, m)
      PROVE TypeOK'
    <2>1. m \in VoteReq
        BY DEF TypeOK
    <2>2. /\ currentTerm' \in [Server -> Nat]
          /\ votedFor' \in [Server -> Server \cup {Nil}]
          /\ state' \in [Server -> {"Follower", "Candidate", "Leader"}]
          /\ leaderID' \in [Server -> Server \cup {Nil}]
        BY <1>3, <2>1 DEF HandleRequestVote, VoteReq, TypeOK
    <2>3. /\ loop' \in [Server -> {"follower", "candidate", "starting", "leader"}]
          /\ campaign' \in [Server -> Nat]
          /\ votes' \in [Server -> SUBSET Server]
        BY <1>3 DEF HandleRequestVote, Reenter, TypeOK
    <2>4. voteReqs' \subseteq VoteReq /\ voteReplies' \subseteq VoteReply
        <3>. DEFINE newer == m.term > currentTerm[n]
                    vote == IF newer THEN Nil ELSE votedFor[n]
                    granted == m.term >= currentTerm[n] /\ MayGrant(n, vote, m)
                    reply == [from |-> n, to |-> m.cand, reqTerm |-> m.term,
                              term |-> currentTerm'[n], granted |-> granted]
        <3>1. granted \in BOOLEAN
            OBVIOUS
        <3>2. /\ voteReqs' = voteReqs \ {m}
              /\ voteReplies' \subseteq voteReplies \cup {reply}
            BY <1>3, Zenon DEF HandleRequestVote, Listened
        <3>. HIDE DEF granted
        <3>3. reply \in VoteReply
            BY <2>1, <2>2, <3>1 DEF VoteReq, VoteReply
        <3>. QED
            BY <3>2, <3>3 DEF TypeOK
    <2>. QED
        BY <1>3, <2>2, <2>3, <2>4 DEF HandleRequestVote, peerVars, TypeOK
<1>4. ASSUME NEW n \in Server, NEW r \in voteReplies, HandleVoteReply(n, r)
      PROVE TypeOK'
    <2>1. r \in VoteReply
        BY DEF TypeOK
    <2>2. /\ voteReqs' \subseteq VoteReq
          /\ voteReplies' \subseteq VoteReply
          /\ UNCHANGED <<log, commitIndex, started, restarts>>
        BY <1>4 DEF HandleVoteReply, Listened, TypeOK
    <2>3. CASE r.term > currentTerm[n]
        <3>1. /\ StepDown(n, r.term, Nil)
              /\ Reenter(n, "Follower")
              /\ UNCHANGED <<peerVars, calls, elections>>
            BY <1>4, <2>1, <2>3 DEF HandleVoteReply, VoteReply, TypeOK
        <3>. QED
            BY <2>1, <2>2, <3>1
               DEF StepDown, Reenter, peerVars, VoteReply, TypeOK
    <2>4. CASE ~ (r.term > currentTerm[n]) /\ ~ IsQuorum(votes[n] \cup {r.from}, Server)
        <3>1. /\ UNCHANGED <<currentTerm, votedFor, state, leaderID, nextIndex,
                             matchIndex, calls, elections>>
              /\ loop' = [loop EXCEPT
                     ![n] = IF state[n] = "Candidate" THEN @ ELSE "follower"]
              /\ campaign' = [campaign EXCEPT
                     ![n] = IF state[n] = "Candidate" THEN @ ELSE 0]
              /\ votes' = [votes EXCEPT
                     ![n] = IF state[n] = "Candidate" THEN @ \cup {r.from} ELSE {}]
            BY <1>4, <2>4 DEF HandleVoteReply, peerVars
        <3>2. r.from \in Server
            BY <2>1 DEF VoteReply
        <3>. QED
            BY <2>2, <3>1, <3>2 DEF TypeOK
    <2>5. CASE ~ (r.term > currentTerm[n]) /\ IsQuorum(votes[n] \cup {r.from}, Server)
        <3>1. /\ BecomeLeader(n, currentTerm[n], votes[n] \cup {r.from})
              /\ UNCHANGED <<currentTerm, votedFor>>
            BY <1>4, <2>5 DEF HandleVoteReply
        <3>2. currentTerm[n] \in Nat /\ votes[n] \cup {r.from} \in SUBSET Server
            BY <2>1 DEF VoteReply, TypeOK
        <3>. QED
            BY <2>2, <3>1, <3>2, BecomeLeaderType DEF TypeOK
    <2>. QED
        BY <2>3, <2>4, <2>5
<1>5. ASSUME NEW m \in voteReqs, VoteCallFails(m) PROVE TypeOK'
    BY <1>5 DEF VoteCallFails, persistent, candVars, peerVars, TypeOK
<1>6. ASSUME NEW n \in Server, AppendNoOp(n) PROVE TypeOK'
    <2>1. log' \in [Server -> Seq(Entry)]
        <3>1. [term |-> currentTerm[n], data |-> NoOp] \in Entry
            BY DEF Entry, TypeOK
        <3>2. Append(log[n], [term |-> currentTerm[n], data |-> NoOp]) \in Seq(Entry)
            BY <3>1, AppendProperties DEF TypeOK
        <3>. QED
            BY <1>6, <3>2 DEF AppendNoOp, TypeOK
    <2>. QED
        BY <1>6, <2>1 DEF AppendNoOp, candVars, peerVars, voteMsgs, TypeOK
<1>7. ASSUME NEW n \in Server, NEW v \in Value, HandleApplyRequest(n, v)
      PROVE TypeOK'
    <2>1. log' \in [Server -> Seq(Entry)]
        <3>1. [term |-> currentTerm[n], data |-> v] \in Entry
            BY DEF Entry, TypeOK
        <3>2. Append(log[n], [term |-> currentTerm[n], data |-> v]) \in Seq(Entry)
            BY <3>1, AppendProperties DEF TypeOK
        <3>. QED
            BY <1>7, <3>2, Shapes DEF HandleApplyRequest
    <2>2. loop' \in [Server -> {"follower", "candidate", "starting", "leader"}]
        BY <1>7 DEF HandleApplyRequest, TypeOK
    <2>3. UNCHANGED <<currentTerm, votedFor, state, commitIndex, leaderID, campaign,
                      votes, nextIndex, matchIndex, voteReqs, voteReplies, calls,
                      elections, started, restarts>>
        BY <1>7 DEF HandleApplyRequest, candVars, peerVars, voteMsgs
    <2>. QED
        BY <2>1, <2>2, <2>3 DEF TypeOK
<1>8. ASSUME NEW n \in Server, NEW p \in Server, ReplicateOnce(n, p)
      PROVE TypeOK'
    <2>1. AppendRequest(n, p) \in AppendReq
        BY AppendRequestType
    <2>2. calls' \subseteq Call
        <3>1. NoReply \in AppendReply
            BY DEF AppendReply, NoReply, NoHint
        <3>2. [req |-> AppendRequest(n, p), reply |-> NoReply,
               status |-> "live"] \in Call
            BY <2>1, <3>1 DEF Call
        <3>. QED
            BY <1>8, <3>2 DEF ReplicateOnce, TypeOK
    <2>. QED
        BY <1>8, <2>2
           DEF ReplicateOnce, persistent, candVars, peerVars, voteMsgs, TypeOK
<1>9. ASSUME NEW n \in Server, NEW c \in calls, HandleAppendEntries(n, c)
      PROVE TypeOK'
    <2>1. c \in Call /\ c.req \in AppendReq
        BY DEF Call, TypeOK
    <2>2. /\ voteReqs' \subseteq VoteReq
          /\ voteReplies' \subseteq VoteReply
          /\ UNCHANGED <<nextIndex, matchIndex, elections, started, restarts>>
        BY <1>9 DEF HandleAppendEntries, Listened, peerVars, TypeOK
    <2>3. CASE RejectAppend(n, c)
        <3>1. [term |-> currentTerm[n], success |-> FALSE, hint |-> NoHint]
                  \in AppendReply
            BY DEF AppendReply, NoHint, TypeOK
        <3>2. calls' \subseteq Call
            BY <2>3, <3>1, AnswerType DEF RejectAppend
        <3>. QED
            BY <2>2, <2>3, <3>2 DEF RejectAppend, Reenter, persistent, TypeOK
    <2>4. ASSUME FollowLeader(n, c.req)
          PROVE  /\ currentTerm' \in [Server -> Nat]
                 /\ votedFor' \in [Server -> Server \cup {Nil}]
                 /\ state' \in [Server -> {"Follower", "Candidate", "Leader"}]
                 /\ leaderID' \in [Server -> Server \cup {Nil}]
                 /\ loop' \in [Server -> {"follower", "candidate", "starting",
                                         "leader"}]
                 /\ campaign' \in [Server -> Nat]
                 /\ votes' \in [Server -> SUBSET Server]
        <3>1. /\ loop' \in [Server -> {"follower", "candidate", "starting", "leader"}]
              /\ campaign' \in [Server -> Nat]
              /\ votes' \in [Server -> SUBSET Server]
            BY <2>4 DEF FollowLeader, Reenter, TypeOK
        <3>2. /\ currentTerm' \in [Server -> Nat]
              /\ votedFor' \in [Server -> Server \cup {Nil}]
              /\ state' \in [Server -> {"Follower", "Candidate", "Leader"}]
              /\ leaderID' \in [Server -> Server \cup {Nil}]
            BY <2>1, <2>4 DEF FollowLeader, StepDown, AppendReq, TypeOK
        <3>. QED
            BY <3>1, <3>2
    <2>5. CASE RefuseAppend(n, c)
        <3>1. FollowLeader(n, c.req)
            BY <2>5 DEF RefuseAppend
        <3>2. c.req.prevIndex \in Nat \ {0}
            BY <2>1, <2>5 DEF RefuseAppend, LogConsistent, AppendReq
        <3>3. ConflictHint(log[n], c.req.prevIndex) \in [term : Nat, index : Nat]
            BY <3>2, HintType DEF TypeOK
        <3>4. [term |-> currentTerm'[n], success |-> FALSE,
               hint |-> ConflictHint(log[n], c.req.prevIndex)] \in AppendReply
            BY <2>4, <3>1, <3>3 DEF AppendReply
        <3>5. calls' \subseteq Call
            BY <2>5, <3>4, AnswerType DEF RefuseAppend
        <3>. QED
            BY <2>2, <2>4, <2>5, <3>1, <3>5 DEF RefuseAppend, TypeOK
    <2>6. CASE AcceptAppend(n, c)
        <3>1. FollowLeader(n, c.req)
            BY <2>6 DEF AcceptAppend
        <3>2. /\ c.req.prevIndex \in 0..Len(log[n]) /\ log[n] \in Seq(Entry)
              /\ c.req.entries \in Seq(Entry) /\ c.req.commit \in Nat
            BY <2>1, <2>6 DEF AcceptAppend, LogConsistent, AppendReq, TypeOK
        <3>3. MergeEntries(log[n], c.req.prevIndex, c.req.entries) \in Seq(Entry)
            BY <3>2, MergeType
        <3>4. log' \in [Server -> Seq(Entry)]
            BY <2>6, <3>3 DEF AcceptAppend, TypeOK
        <3>5. FollowerCommit(commitIndex[n], c.req.commit, Len(log'[n])) \in Nat
            BY <3>2, <3>4 DEF FollowerCommit, TypeOK
        <3>6. commitIndex' \in [Server -> Nat]
            BY <2>6, <3>5 DEF AcceptAppend, TypeOK
        <3>7. [term |-> currentTerm'[n], success |-> TRUE, hint |-> NoHint]
                  \in AppendReply
            BY <2>4, <3>1 DEF AppendReply, NoHint
        <3>8. calls' \subseteq Call
            BY <2>6, <3>7, AnswerType DEF AcceptAppend
        <3>. QED
            BY <2>2, <2>4, <3>1, <3>4, <3>6, <3>8 DEF TypeOK
    <2>. QED
        BY <1>9, <2>3, <2>5, <2>6 DEF HandleAppendEntries
<1>10. ASSUME NEW n \in Server, NEW c \in calls, HandleAppendReply(n, c)
       PROVE TypeOK'
    <2>1. /\ c \in Call /\ c.req \in AppendReq /\ c.reply \in AppendReply
          /\ c.req.to \in Server /\ c.reply.term \in Nat
          /\ c.reply.hint \in [term : Nat, index : Nat]
          /\ log[n] \in Seq(Entry)
        BY DEF Call, AppendReq, AppendReply, TypeOK
    <2>2. /\ calls' \subseteq Call
          /\ UNCHANGED <<log, loop, campaign, votes, voteReqs, voteReplies,
                         elections, started, restarts>>
        BY <1>10 DEF HandleAppendReply, candVars, voteMsgs, TypeOK
    <2>3. CASE ReplyHigherTerm(n, c)
        BY <2>1, <2>2, <2>3 DEF ReplyHigherTerm, StepDown, peerVars, TypeOK
    <2>4. CASE ReplySuccess(n, c)
        <3>1. Matched(n, c) \in Nat
            <4>1. /\ c.req.prevIndex \in Nat /\ Len(c.req.entries) \in Nat
                  /\ matchIndex[n][c.req.to] \in Nat
                <5>1. c.req.prevIndex \in Nat /\ c.req.entries \in Seq(Entry)
                    BY <2>1 DEF AppendReq
                <5>2. matchIndex \in [Server -> [Server -> Nat]]
                    BY DEF TypeOK
                <5>. QED
                    BY <2>1, <5>1, <5>2
            <4>. QED
                BY <4>1 DEF Matched
        <3>2. /\ matchIndex' \in [Server -> [Server -> Nat]]
              /\ nextIndex' \in [Server -> [Server -> Nat \ {0}]]
            <4>1. Matched(n, c) + 1 \in Nat \ {0}
                BY <3>1
            <4>2. CASE c.status = "live" /\ c.req.entries # <<>>
                <5>1. /\ matchIndex' = [matchIndex EXCEPT
                             ![n][c.req.to] = Matched(n, c)]
                      /\ nextIndex' = [nextIndex EXCEPT
                             ![n][c.req.to] = Matched(n, c) + 1]
                    BY <2>4, <4>2 DEF ReplySuccess
                <5>. QED
                    BY <2>1, <3>1, <4>1, <5>1, PeerUpdateType DEF TypeOK
            <4>3. CASE ~ (c.status = "live" /\ c.req.entries # <<>>)
                BY <2>4, <4>3 DEF ReplySuccess, peerVars, TypeOK
            <4>. QED
                BY <4>2, <4>3
        <3>3. Advance(n, matchIndex'[n]) \in Nat
            BY <2>1 DEF Advance, LeaderCommit, TypeOK
        <3>4. commitIndex' \in [Server -> Nat]
            BY <2>4, <3>3 DEF ReplySuccess, TypeOK
        <3>. QED
            BY <2>2, <2>4, <3>2, <3>4 DEF ReplySuccess, TypeOK
    <2>5. CASE ReplyConflict(n, c)
        <3>1. BackUp(log[n], c.reply.hint) \in Nat \ {0}
            BY <2>1, BackUpType
        <3>2. nextIndex' \in [Server -> [Server -> Nat \ {0}]]
            <4>. DEFINE next == IF c.status = "live"
                                THEN BackUp(log[n], c.reply.hint)
                                ELSE nextIndex[n][c.req.to]
            <4>1. next \in Nat \ {0}
                BY <2>1, <3>1, Shapes
            <4>2. nextIndex' = [nextIndex EXCEPT ![n][c.req.to] = next]
                BY <2>1, <2>5 DEF ReplyConflict, TypeOK
            <4>3. nextIndex \in [Server -> [Server -> Nat \ {0}]]
                BY DEF TypeOK
            <4>. HIDE DEF next
            <4>. QED
                BY <2>1, <4>1, <4>2, <4>3, PeerUpdateType
        <3>. QED
            BY <2>2, <2>5, <3>2 DEF ReplyConflict, TypeOK
    <2>. QED
        BY <1>10, <2>3, <2>4, <2>5 DEF HandleAppendReply
<1>11. ASSUME NEW c \in calls, CallFails(c) PROVE TypeOK'
    <2>1. calls \subseteq Call /\ [c EXCEPT !.status = "late"] \in Call
        BY StatusType DEF TypeOK
    <2>2. calls' \subseteq Call
        BY <1>11, <2>1 DEF CallFails
    <2>. QED
        BY <1>11, <2>2
           DEF CallFails, persistent, candVars, peerVars, voteMsgs, TypeOK
<1>12. ASSUME NEW n \in Server, Restart(n) PROVE TypeOK'
    BY <1>12, RebootType DEF Restart, persistent, TypeOK
<1>13. ASSUME NEW n \in Server, TornPersist(n) PROVE TypeOK'
    <2>1. PICK t \in TermsOnTheWay(n) \cup {currentTerm[n] + 1} :
              /\ currentTerm[n] < t /\ t <= MaxTerm
              /\ currentTerm' = [currentTerm EXCEPT ![n] = t]
              /\ \/ UNCHANGED votedFor
                 \/ votedFor' = [votedFor EXCEPT ![n] = Nil]
              /\ UNCHANGED log
              /\ Reboot(n, calls)
        BY <1>13 DEF TornPersist
    <2>2. TermsOnTheWay(n) \subseteq Nat
        BY TermsType
    <2>3. t \in Nat
        BY <2>1, <2>2 DEF TypeOK
    <2>4. /\ currentTerm' \in [Server -> Nat]
          /\ votedFor' \in [Server -> Server \cup {Nil}]
          /\ log' \in [Server -> Seq(Entry)]
        BY <2>1, <2>3 DEF TypeOK
    <2>5. calls \in SUBSET calls /\ Reboot(n, calls)
        BY <2>1
    <2>. QED
        BY <2>4, <2>5, RebootType
<1>14. ASSUME NEW n \in Server, NEW c \in calls, TornAppend(n, c) PROVE TypeOK'
    <2>1. /\ c.req.prevIndex \in 0..Len(log[n]) /\ log[n] \in Seq(Entry)
          /\ c.req.entries \in Seq(Entry) /\ c.req.term \in Nat
        <3>1. c.req \in AppendReq /\ log[n] \in Seq(Entry)
            BY DEF Call, TypeOK
        <3>2. LogConsistent(log[n], c.req.prevIndex, c.req.prevTerm)
            BY <1>14 DEF TornAppend
        <3>. QED
            BY <3>1, <3>2 DEF LogConsistent, AppendReq
    <2>2. DeleteConflicts(log[n], c.req.prevIndex, c.req.entries) \in Seq(Entry)
        BY <2>1, MergeType
    <2>3. /\ currentTerm' \in [Server -> Nat]
          /\ votedFor' \in [Server -> Server \cup {Nil}]
          /\ log' \in [Server -> Seq(Entry)]
        BY <1>14, <2>1, <2>2 DEF TornAppend, TypeOK
    <2>4. Reboot(n, calls \ {c})
        BY <1>14 DEF TornAppend
    <2>. QED
        BY <2>3, <2>4, RebootType
<1>15. CASE UNCHANGED vars
    BY <1>15 DEF vars, TypeOK
<1>. QED
    BY <1>1, <1>2, <1>3, <1>4, <1>5, <1>6, <1>7, <1>8, <1>9, <1>10, <1>11,
       <1>12, <1>13, <1>14, <1>15
       DEF Next, MainStep, ReplicatorStep, CrashStep

\* Type correctness of the cluster: terms, votes, logs, indexes and messages
\* keep their shape whatever the interleaving, and nextIndex never drops to 0.
THEOREM TypeCorrect == Spec => []TypeOK
<1>1. Init => TypeOK
    BY NilAssumption DEF Init, TypeOK
<1>. QED
    BY <1>1, TypeStep, PTL DEF Spec

-----------------------------------------------------------------------------
(***************************************************************************)
(* Election Safety, for any number of servers and without bounds, provided *)
(* that no replicator steps the node down behind an election               *)
(* (RacyStepDown = FALSE).                                                 *)
(***************************************************************************)

\* There is evidence that v voted for c in term t: an answer on its way, a
\* vote c has counted, or the record of the election c won.
Granted(v, t, c) ==
    \/ \E r \in voteReplies :
           r.from = v /\ r.to = c /\ r.reqTerm = t /\ r.granted
    \/ campaign[c] = t /\ v \in votes[c]
    \/ \E e \in elections : e.term = t /\ e.leader = c /\ v \in e.votes

Won(n, t) == \E e \in elections : e.term = t /\ e.leader = n

\* The main goroutine and the shared state agree, up to a leader that has been
\* stepped down; a candidate has voted for itself in the term it stands in.
LoopInv ==
    \A n \in Server :
        /\ loop[n] = "candidate" =>
               /\ state[n] = "Candidate"
               /\ campaign[n] = currentTerm[n]
               /\ votedFor[n] = n
        /\ state[n] = "Candidate" => loop[n] = "candidate"
        /\ loop[n] = "starting" => state[n] = "Leader"
        /\ state[n] = "Leader" =>
               loop[n] \in {"starting", "leader"} /\ Won(n, currentTerm[n])
        /\ loop[n] # "candidate" => campaign[n] = 0 /\ votes[n] = {}

\* Who has voted for another server in its current term is a Follower that
\* remembers the vote: the vote that a same-term stepDown erases is never it.
GrantInv ==
    \A v, c \in Server, t \in Nat :
        (v # c /\ Granted(v, t, c)) =>
            /\ t <= currentTerm[v]
            /\ t = currentTerm[v] => state[v] = "Follower" /\ votedFor[v] = c

\* Nobody votes for two other servers in a term.
GrantOnce ==
    \A v, c, d \in Server, t \in Nat :
        (v # c /\ v # d /\ Granted(v, t, c) /\ Granted(v, t, d)) => c = d

\* A winner had a majority, keeps its vote for itself as long as the term
\* lasts, and has voted for nobody else in that term.
WinnerInv ==
    \A e \in elections :
        /\ IsQuorum(e.votes, Server)
        /\ e.term <= currentTerm[e.leader]
        /\ e.term = currentTerm[e.leader] => votedFor[e.leader] = e.leader
        /\ \A d \in Server : d # e.leader => ~ Granted(e.leader, e.term, d)

\* AppendEntries comes from the winner of its term, to another server.
CallInv ==
    \A c \in calls : c.req.from # c.req.to /\ Won(c.req.from, c.req.term)

ElectionInv ==
    LoopInv /\ GrantInv /\ GrantOnce /\ WinnerInv /\ CallInv /\ ElectionSafety

\* Two majorities of the cluster share a server.
LEMMA QuorumsMeet ==
    ASSUME NEW V \in SUBSET Server, NEW W \in SUBSET Server,
           IsQuorum(V, Server), IsQuorum(W, Server)
    PROVE  \E v \in V : v \in W
<1>1. /\ Cardinality(V) \in Nat /\ Cardinality(W) \in Nat
      /\ Cardinality(Server) \in Nat
    BY ServerAssumption, FS_Subset, FS_CardinalityType
<1>2. Cardinality(V) + Cardinality(W) > Cardinality(Server)
    BY <1>1 DEF IsQuorum, QuorumSize
<1>3. V \cap W # {}
    BY <1>2, ServerAssumption, FS_MajoritiesIntersect
<1>. QED
    BY <1>3

(***************************************************************************)
(* A step that creates no vote and wins no election, and at most makes one *)
(* server a Follower of the same or a later term.  Within the same term it *)
(* may erase the vote only of a server that did not win it and is no       *)
(* Follower.  All replies, appends and crashes are of this kind.           *)
(***************************************************************************)
LEMMA Demotion ==
    ASSUME TypeOK, ElectionInv, NEW n \in Server, NEW t \in Nat,
           NEW v \in Server \cup {Nil}, NEW lp \in {"follower", "leader"},
           currentTerm[n] <= t,
           currentTerm' = [currentTerm EXCEPT ![n] = t],
           votedFor' = [votedFor EXCEPT ![n] = v],
           state' = [state EXCEPT ![n] = "Follower"],
           loop' = [loop EXCEPT ![n] = lp],
           campaign' = [campaign EXCEPT ![n] = 0],
           votes' = [votes EXCEPT ![n] = {}],
           voteReplies' \subseteq voteReplies,
           elections' = elections,
           \A c \in calls' : \E d \in calls : c.req = d.req,
           t = currentTerm[n] =>
               \/ v = votedFor[n]
               \/ state[n] # "Follower" /\ ~ Won(n, t)
    PROVE  ElectionInv'
<1>1. \A w, c \in Server, u \in Nat :
          Granted(w, u, c)' => Granted(w, u, c)
    BY DEF Granted, TypeOK
<1>2. \A m \in Server, u \in Nat : Won(m, u)' <=> Won(m, u)
    BY DEF Won
<1>3. LoopInv'
    <2>1. LoopInv /\ elections' = elections
        BY DEF ElectionInv
    <2>. SUFFICES ASSUME NEW m \in Server
                  PROVE  /\ loop'[m] = "candidate" =>
                                /\ state'[m] = "Candidate"
                                /\ campaign'[m] = currentTerm'[m]
                                /\ votedFor'[m] = m
                         /\ state'[m] = "Candidate" => loop'[m] = "candidate"
                         /\ loop'[m] = "starting" => state'[m] = "Leader"
                         /\ state'[m] = "Leader" =>
                                /\ loop'[m] \in {"starting", "leader"}
                                /\ \E e \in elections' : e.term = currentTerm'[m] /\ e.leader = m
                         /\ loop'[m] # "candidate" => campaign'[m] = 0 /\ votes'[m] = {}
        BY DEF LoopInv, Won
    <2>2. CASE m = n
        BY <2>2 DEF TypeOK
    <2>3. CASE m # n
        <3>1. /\ loop'[m] = loop[m] /\ state'[m] = state[m]
              /\ campaign'[m] = campaign[m] /\ votes'[m] = votes[m]
              /\ currentTerm'[m] = currentTerm[m] /\ votedFor'[m] = votedFor[m]
            BY <2>3 DEF TypeOK
        <3>. QED
            BY <2>1, <3>1 DEF LoopInv, Won
    <2>. QED
        BY <2>2, <2>3
<1>4. GrantInv'
    <2>. SUFFICES ASSUME NEW w \in Server, NEW c \in Server, NEW u \in Nat,
                         w # c, Granted(w, u, c)
                  PROVE  /\ u <= currentTerm'[w]
                         /\ u = currentTerm'[w] =>
                                state'[w] = "Follower" /\ votedFor'[w] = c
        BY <1>1 DEF GrantInv
    <2>1. /\ u <= currentTerm[w]
          /\ u = currentTerm[w] => state[w] = "Follower" /\ votedFor[w] = c
        BY DEF ElectionInv, GrantInv
    <2>. QED
        BY <2>1, Shapes
<1>5. GrantOnce'
    BY <1>1 DEF ElectionInv, GrantOnce
<1>6. WinnerInv'
    <2>. SUFFICES ASSUME NEW e \in elections
                  PROVE  /\ IsQuorum(e.votes, Server)
                         /\ e.term <= currentTerm'[e.leader]
                         /\ e.term = currentTerm'[e.leader] =>
                                votedFor'[e.leader] = e.leader
                         /\ \A d \in Server : d # e.leader =>
                                ~ Granted(e.leader, e.term, d)'
        BY DEF WinnerInv
    <2>1. e.term \in Nat /\ e.leader \in Server
        BY DEF TypeOK
    <2>2. /\ IsQuorum(e.votes, Server)
          /\ e.term <= currentTerm[e.leader]
          /\ e.term = currentTerm[e.leader] => votedFor[e.leader] = e.leader
          /\ \A d \in Server : d # e.leader => ~ Granted(e.leader, e.term, d)
        BY DEF ElectionInv, WinnerInv
    <2>3. \A d \in Server : d # e.leader => ~ Granted(e.leader, e.term, d)'
        BY <1>1, <2>1, <2>2
    <2>4. Won(e.leader, e.term)
        BY DEF Won
    <2>5. CASE e.leader = n
        <3>1. currentTerm'[n] = t /\ votedFor'[n] = v
            BY DEF TypeOK
        <3>2. ASSUME e.term = t PROVE v = n
            <4>1. t = currentTerm[n] /\ votedFor[n] = n
                BY <2>2, <2>5, <3>2 DEF TypeOK
            <4>2. Won(n, t)
                BY <2>4, <2>5, <3>2
            <4>. QED
                BY <4>1, <4>2
        <3>. QED
            BY <2>1, <2>2, <2>3, <2>5, <3>1, <3>2 DEF TypeOK
    <2>6. CASE e.leader # n
        BY <2>1, <2>2, <2>3, <2>6 DEF TypeOK
    <2>. QED
        BY <2>5, <2>6
<1>7. CallInv'
    BY <1>2 DEF ElectionInv, CallInv, Won
<1>8. ElectionSafety'
    BY DEF ElectionInv, ElectionSafety
<1>. QED
    BY <1>3, <1>4, <1>5, <1>6, <1>7, <1>8 DEF ElectionInv

(***************************************************************************)
(* A step that leaves the terms, votes and states alone and creates no     *)
(* evidence of a vote: the main goroutine may notice the state, candidates *)
(* may count votes, leaders may send requests.                             *)
(***************************************************************************)
LEMMA Quiet ==
    ASSUME TypeOK, ElectionInv,
           UNCHANGED <<currentTerm, votedFor, state, campaign, elections>>,
           \A m \in Server :
               \/ loop'[m] = loop[m]
               \/ state[m] = "Follower" /\ loop'[m] = "follower"
               \/ state[m] = "Leader" /\ loop'[m] = "leader",
           \A m \in Server : votes'[m] = votes[m] \/ loop'[m] = "candidate",
           \A w, c \in Server, u \in Nat :
               Granted(w, u, c)' => Granted(w, u, c),
           \A c \in calls' :
               \/ \E d \in calls : c.req = d.req
               \/ c.req.from # c.req.to /\ Won(c.req.from, c.req.term)
    PROVE  ElectionInv'
<1>1. LoopInv'
    BY DEF ElectionInv, LoopInv, Won
<1>2. GrantInv'
    BY DEF ElectionInv, GrantInv
<1>3. GrantOnce'
    BY DEF ElectionInv, GrantOnce
<1>4. WinnerInv'
    <2>. SUFFICES ASSUME NEW e \in elections, NEW d \in Server, d # e.leader
                  PROVE  ~ Granted(e.leader, e.term, d)'
        BY DEF ElectionInv, WinnerInv
    <2>1. e.term \in Nat /\ e.leader \in Server
        BY DEF TypeOK
    <2>. QED
        BY <2>1 DEF ElectionInv, WinnerInv
<1>5. CallInv'
    BY DEF ElectionInv, CallInv, Won
<1>6. ElectionSafety'
    BY DEF ElectionInv, ElectionSafety
<1>. QED
    BY <1>1, <1>2, <1>3, <1>4, <1>5, <1>6 DEF ElectionInv

(***************************************************************************)
(* Server n wins term t with the voters V, each of whom but n itself has   *)
(* voted for n, while n has voted for nobody else in t.                    *)
(***************************************************************************)
LEMMA Winning ==
    ASSUME TypeOK, ElectionInv, NEW n \in Server, NEW t \in Nat,
           NEW V \in SUBSET Server, IsQuorum(V, Server),
           \A v \in V : v # n => Granted(v, t, n),
           \A d \in Server : d # n => ~ Granted(n, t, d),
           currentTerm[n] <= t,
           currentTerm' = [currentTerm EXCEPT ![n] = t],
           votedFor' = [votedFor EXCEPT ![n] = n],
           BecomeLeader(n, t, V),
           voteReplies' \subseteq voteReplies
    PROVE  ElectionInv'
<1>. DEFINE win == [term |-> t, leader |-> n, votes |-> V]
<1>1. /\ state' = [state EXCEPT ![n] = "Leader"]
      /\ loop' = [loop EXCEPT ![n] = "starting"]
      /\ campaign' = [campaign EXCEPT ![n] = 0]
      /\ votes' = [votes EXCEPT ![n] = {}]
      /\ elections' = elections \cup {win}
    BY DEF BecomeLeader
<1>2. \A c \in calls' : \E d \in calls : c.req = d.req
    BY DEF BecomeLeader, InitPeers, TypeOK, Call
<1>3. win.term = t /\ win.leader = n /\ win.votes = V
    OBVIOUS
<1>4. \A w, c \in Server, u \in Nat :
          (w # c /\ Granted(w, u, c)') => Granted(w, u, c)
    <2>. SUFFICES ASSUME NEW w \in Server, NEW c \in Server, NEW u \in Nat,
                         w # c, Granted(w, u, c)'
                  PROVE  Granted(w, u, c)
        OBVIOUS
    <2>1. CASE \E r \in voteReplies' :
                   r.from = w /\ r.to = c /\ r.reqTerm = u /\ r.granted
        BY <2>1 DEF Granted
    <2>2. CASE campaign'[c] = u /\ w \in votes'[c]
        BY <1>1, <2>2 DEF Granted, TypeOK
    <2>3. CASE \E e \in elections' : e.term = u /\ e.leader = c /\ w \in e.votes
        <3>1. PICK e \in elections' : e.term = u /\ e.leader = c /\ w \in e.votes
            BY <2>3
        <3>2. CASE e \in elections
            BY <3>1, <3>2 DEF Granted
        <3>3. CASE e = win
            BY <3>1, <3>3
        <3>. QED
            BY <1>1, <3>2, <3>3
    <2>. QED
        BY <2>1, <2>2, <2>3 DEF Granted
<1>5. \A m \in Server, u \in Nat : Won(m, u) => Won(m, u)'
    BY <1>1 DEF Won
<1>6. Won(n, t)'
    BY <1>1, <1>3 DEF Won
<1>. HIDE DEF win
<1>7. LoopInv'
    <2>. SUFFICES ASSUME NEW m \in Server
                  PROVE  /\ loop'[m] = "candidate" =>
                                /\ state'[m] = "Candidate"
                                /\ campaign'[m] = currentTerm'[m]
                                /\ votedFor'[m] = m
                         /\ state'[m] = "Candidate" => loop'[m] = "candidate"
                         /\ loop'[m] = "starting" => state'[m] = "Leader"
                         /\ state'[m] = "Leader" =>
                                /\ loop'[m] \in {"starting", "leader"}
                                /\ \E e \in elections' : e.term = currentTerm'[m] /\ e.leader = m
                         /\ loop'[m] # "candidate" => campaign'[m] = 0 /\ votes'[m] = {}
        BY DEF LoopInv, Won
    <2>1. CASE m = n
        BY <1>1, <1>6, <2>1 DEF TypeOK, Won
    <2>2. CASE m # n
        <3>1. /\ loop'[m] = loop[m] /\ state'[m] = state[m]
              /\ campaign'[m] = campaign[m] /\ votes'[m] = votes[m]
              /\ currentTerm'[m] = currentTerm[m] /\ votedFor'[m] = votedFor[m]
              /\ currentTerm[m] \in Nat
            BY <1>1, <2>2 DEF TypeOK
        <3>2. state[m] = "Leader" =>
                  \E e \in elections' : e.term = currentTerm[m] /\ e.leader = m
            BY <1>1, <3>1 DEF ElectionInv, LoopInv, Won
        <3>. QED
            BY <3>1, <3>2 DEF ElectionInv, LoopInv
    <2>. QED
        BY <2>1, <2>2
<1>8. GrantInv'
    <2>. SUFFICES ASSUME NEW w \in Server, NEW c \in Server, NEW u \in Nat,
                         w # c, Granted(w, u, c)
                  PROVE  /\ u <= currentTerm'[w]
                         /\ u = currentTerm'[w] =>
                                state'[w] = "Follower" /\ votedFor'[w] = c
        BY <1>4 DEF GrantInv
    <2>1. /\ u <= currentTerm[w]
          /\ u = currentTerm[w] => state[w] = "Follower" /\ votedFor[w] = c
        BY DEF ElectionInv, GrantInv
    <2>2. w = n => u # t
        OBVIOUS
    <2>. QED
        BY <1>1, <2>1, <2>2 DEF TypeOK
<1>9. GrantOnce'
    BY <1>4 DEF ElectionInv, GrantOnce
<1>10. WinnerInv'
    <2>. SUFFICES ASSUME NEW e \in elections'
                  PROVE  /\ IsQuorum(e.votes, Server)
                         /\ e.term <= currentTerm'[e.leader]
                         /\ e.term = currentTerm'[e.leader] =>
                                votedFor'[e.leader] = e.leader
                         /\ \A d \in Server : d # e.leader =>
                                ~ Granted(e.leader, e.term, d)'
        BY DEF WinnerInv
    <2>1. CASE e = win
        BY <1>3, <1>4, <2>1, Shapes
    <2>2. CASE e \in elections
        <3>1. e.term \in Nat /\ e.leader \in Server
            BY <2>2 DEF TypeOK
        <3>2. /\ IsQuorum(e.votes, Server)
              /\ e.term <= currentTerm[e.leader]
              /\ e.term = currentTerm[e.leader] => votedFor[e.leader] = e.leader
              /\ \A d \in Server : d # e.leader => ~ Granted(e.leader, e.term, d)
            BY <2>2 DEF ElectionInv, WinnerInv
        <3>3. \A d \in Server : d # e.leader => ~ Granted(e.leader, e.term, d)'
            BY <1>4, <3>1, <3>2
        <3>4. CASE e.leader = n
            <4>1. currentTerm'[n] = t /\ votedFor'[n] = n /\ currentTerm[n] \in Nat
                BY DEF TypeOK
            <4>2. e.term <= currentTerm[n]
                BY <3>2, <3>4
            <4>. QED
                BY <3>1, <3>2, <3>3, <3>4, <4>1, <4>2
        <3>5. CASE e.leader # n
            <4>1. /\ currentTerm'[e.leader] = currentTerm[e.leader]
                  /\ votedFor'[e.leader] = votedFor[e.leader]
                BY <3>1, <3>5 DEF TypeOK
            <4>. QED
                BY <3>2, <3>3, <4>1
        <3>. QED
            BY <3>4, <3>5
    <2>. QED
        BY <1>1, <2>1, <2>2
<1>11. CallInv'
    <2>. SUFFICES ASSUME NEW c \in calls'
                  PROVE  c.req.from # c.req.to /\ Won(c.req.from, c.req.term)'
        BY DEF CallInv
    <2>1. PICK d \in calls : c.req = d.req
        BY <1>2
    <2>2. d.req.from \in Server /\ d.req.term \in Nat
        BY DEF TypeOK, Call, AppendReq
    <2>3. d.req.from # d.req.to /\ Won(d.req.from, d.req.term)
        BY DEF ElectionInv, CallInv
    <2>. QED
        BY <1>5, <2>1, <2>2, <2>3
<1>12. ElectionSafety'
    <2>1. ASSUME NEW f \in elections, f.term = t PROVE f.leader = n
        <3>1. /\ f.leader \in Server /\ f.votes \in SUBSET Server
              /\ IsQuorum(f.votes, Server)
            BY DEF TypeOK, ElectionInv, WinnerInv
        <3>2. PICK v \in V : v \in f.votes
            BY <3>1, QuorumsMeet
        <3>3. Granted(v, t, f.leader)
            BY <2>1, <3>2 DEF Granted
        <3>4. CASE v = n
            BY <3>1, <3>3, <3>4
        <3>5. CASE v # n /\ v = f.leader
            <4>1. Granted(f.leader, f.term, n)
                BY <2>1, <3>5
            <4>. QED
                BY <3>1, <4>1 DEF ElectionInv, WinnerInv
        <3>6. CASE v # n /\ v # f.leader
            <4>1. Granted(v, t, n) /\ v \in Server
                BY <3>6
            <4>. QED
                BY <3>1, <3>3, <3>6, <4>1 DEF ElectionInv, GrantOnce
        <3>. QED
            BY <3>4, <3>5, <3>6
    <2>. QED
        BY <1>1, <1>3, <2>1 DEF ElectionInv, ElectionSafety
<1>. QED
    BY <1>7, <1>8, <1>9, <1>10, <1>11, <1>12 DEF ElectionInv

\* Server n stands in a new term and has not won it yet.
LEMMA Standing ==
    ASSUME TypeOK, ElectionInv, NEW n \in Server, NEW t \in Nat,
           currentTerm[n] < t,
           currentTerm' = [currentTerm EXCEPT ![n] = t],
           votedFor' = [votedFor EXCEPT ![n] = n],
           state' = [state EXCEPT ![n] = "Candidate"],
           loop' = [loop EXCEPT ![n] = "candidate"],
           campaign' = [campaign EXCEPT ![n] = t],
           votes' = [votes EXCEPT ![n] = {n}],
           voteReplies' \subseteq voteReplies,
           elections' = elections, calls' = calls
    PROVE  ElectionInv'
<1>1. \A w, c \in Server, u \in Nat :
          (w # c /\ Granted(w, u, c)') => Granted(w, u, c)
    <2>. SUFFICES ASSUME NEW w \in Server, NEW c \in Server, NEW u \in Nat,
                         w # c, Granted(w, u, c)'
                  PROVE  Granted(w, u, c)
        OBVIOUS
    <2>1. (campaign'[c] = u /\ w \in votes'[c]) =>
              campaign[c] = u /\ w \in votes[c]
        BY DEF TypeOK
    <2>. QED
        BY <2>1 DEF Granted
<1>2. LoopInv'
    <2>. SUFFICES ASSUME NEW m \in Server
                  PROVE  /\ loop'[m] = "candidate" =>
                                /\ state'[m] = "Candidate"
                                /\ campaign'[m] = currentTerm'[m]
                                /\ votedFor'[m] = m
                         /\ state'[m] = "Candidate" => loop'[m] = "candidate"
                         /\ loop'[m] = "starting" => state'[m] = "Leader"
                         /\ state'[m] = "Leader" =>
                                /\ loop'[m] \in {"starting", "leader"}
                                /\ \E e \in elections' : e.term = currentTerm'[m] /\ e.leader = m
                         /\ loop'[m] # "candidate" => campaign'[m] = 0 /\ votes'[m] = {}
        BY DEF LoopInv, Won
    <2>1. CASE m = n
        BY <2>1 DEF TypeOK
    <2>2. CASE m # n
        <3>1. /\ loop'[m] = loop[m] /\ state'[m] = state[m]
              /\ campaign'[m] = campaign[m] /\ votes'[m] = votes[m]
              /\ currentTerm'[m] = currentTerm[m] /\ votedFor'[m] = votedFor[m]
            BY <2>2 DEF TypeOK
        <3>. QED
            BY <3>1 DEF ElectionInv, LoopInv, Won
    <2>. QED
        BY <2>1, <2>2
<1>3. GrantInv'
    <2>. SUFFICES ASSUME NEW w \in Server, NEW c \in Server, NEW u \in Nat,
                         w # c, Granted(w, u, c)
                  PROVE  /\ u <= currentTerm'[w]
                         /\ u = currentTerm'[w] =>
                                state'[w] = "Follower" /\ votedFor'[w] = c
        BY <1>1 DEF GrantInv
    <2>1. /\ u <= currentTerm[w]
          /\ u = currentTerm[w] => state[w] = "Follower" /\ votedFor[w] = c
        BY DEF ElectionInv, GrantInv
    <2>. QED
        BY <2>1, Shapes
<1>4. GrantOnce'
    BY <1>1 DEF ElectionInv, GrantOnce
<1>5. WinnerInv'
    <2>. SUFFICES ASSUME NEW e \in elections
                  PROVE  /\ IsQuorum(e.votes, Server)
                         /\ e.term <= currentTerm'[e.leader]
                         /\ e.term = currentTerm'[e.leader] =>
                                votedFor'[e.leader] = e.leader
                         /\ \A d \in Server : d # e.leader =>
                                ~ Granted(e.leader, e.term, d)'
        BY DEF WinnerInv
    <2>1. e.term \in Nat /\ e.leader \in Server
        BY DEF TypeOK
    <2>2. /\ IsQuorum(e.votes, Server)
          /\ e.term <= currentTerm[e.leader]
          /\ e.term = currentTerm[e.leader] => votedFor[e.leader] = e.leader
          /\ \A d \in Server : d # e.leader => ~ Granted(e.leader, e.term, d)
        BY DEF ElectionInv, WinnerInv
    <2>3. \A d \in Server : d # e.leader => ~ Granted(e.leader, e.term, d)'
        BY <1>1, <2>1, <2>2
    <2>4. /\ e.term <= currentTerm'[e.leader]
          /\ e.term = currentTerm'[e.leader] => votedFor'[e.leader] = e.leader
        BY <2>1, <2>2, Shapes
    <2>. QED
        BY <2>2, <2>3, <2>4
<1>6. CallInv'
    BY DEF ElectionInv, CallInv, Won
<1>7. ElectionSafety'
    BY DEF ElectionInv, ElectionSafety
<1>. QED
    BY <1>2, <1>3, <1>4, <1>5, <1>6, <1>7 DEF ElectionInv

\* The only vote that a step adds to the answers is the one of n for c in t.
OnlyNewVote(n, t, c) ==
    \A r \in voteReplies' :
        \/ r \in voteReplies
        \/ ~ r.granted
        \/ r.from = n /\ r.to = c /\ r.reqTerm = t

(***************************************************************************)
(* Server n moves to the same or a later term t and may answer with a vote *)
(* for new, which its store then holds; in its own term only when it had   *)
(* not voted for anybody else.                                             *)
(***************************************************************************)
LEMMA Voting ==
    ASSUME TypeOK, ElectionInv, NEW n \in Server, NEW t \in Nat,
           NEW new \in Server \cup {Nil},
           NEW st \in {"Follower", "Candidate", "Leader"},
           currentTerm[n] <= t,
           t = currentTerm[n] => st = state[n] /\ votedFor[n] \in {Nil, new},
           t # currentTerm[n] => st = "Follower",
           currentTerm' = [currentTerm EXCEPT ![n] = t],
           votedFor' = [votedFor EXCEPT ![n] = new],
           state' = [state EXCEPT ![n] = st],
           Reenter(n, st),
           loop[n] # "starting",
           elections' = elections, calls' = calls,
           OnlyNewVote(n, t, new)
    PROVE  ElectionInv'
<1>. USE NilAssumption
<1>1. /\ currentTerm[n] \in Nat /\ currentTerm'[n] = t
      /\ votedFor'[n] = new
      /\ state'[n] = st
    BY DEF TypeOK
<1>2. \A w, c \in Server, u \in Nat :
          Granted(w, u, c)' =>
              Granted(w, u, c) \/ (w = n /\ u = t /\ c = new)
    <2>. SUFFICES ASSUME NEW w \in Server, NEW c \in Server, NEW u \in Nat,
                         Granted(w, u, c)'
                  PROVE  Granted(w, u, c) \/ (w = n /\ u = t /\ c = new)
        OBVIOUS
    <2>1. (campaign'[c] = u /\ w \in votes'[c]) =>
              campaign[c] = u /\ w \in votes[c]
        BY DEF Reenter, TypeOK
    <2>. QED
        BY <2>1 DEF Granted, OnlyNewVote
<1>3. t = currentTerm[n] /\ new \notin {n, Nil} =>
          /\ state[n] = "Follower"
          /\ \A e \in elections : e.leader = n => e.term # t
    <2>. SUFFICES ASSUME t = currentTerm[n], new \notin {n, Nil}
                  PROVE  /\ state[n] = "Follower"
                         /\ \A e \in elections : e.leader = n => e.term # t
        OBVIOUS
    <2>1. votedFor[n] # n
        OBVIOUS
    <2>2. \A e \in elections : e.leader = n => e.term # t
        BY <2>1 DEF ElectionInv, WinnerInv
    <2>3. state[n] # "Candidate"
        BY <2>1 DEF ElectionInv, LoopInv
    <2>4. state[n] # "Leader"
        BY <2>2 DEF ElectionInv, LoopInv, Won
    <2>. QED
        BY <2>2, <2>3, <2>4 DEF TypeOK
<1>4. LoopInv'
    <2>. SUFFICES ASSUME NEW m \in Server
                  PROVE  /\ loop'[m] = "candidate" =>
                                /\ state'[m] = "Candidate"
                                /\ campaign'[m] = currentTerm'[m]
                                /\ votedFor'[m] = m
                         /\ state'[m] = "Candidate" => loop'[m] = "candidate"
                         /\ loop'[m] = "starting" => state'[m] = "Leader"
                         /\ state'[m] = "Leader" =>
                                /\ loop'[m] \in {"starting", "leader"}
                                /\ \E e \in elections' : e.term = currentTerm'[m] /\ e.leader = m
                         /\ loop'[m] # "candidate" => campaign'[m] = 0 /\ votes'[m] = {}
        BY DEF LoopInv, Won
    <2>1. CASE m = n /\ state'[n] = "Follower"
        BY <2>1 DEF Reenter, TypeOK
    <2>2. CASE m = n /\ state'[n] # "Follower"
        <3>1. t = currentTerm[n] /\ state[n] # "Follower" /\ state'[n] = state[n]
            BY <1>1, <2>2
        <3>2. /\ loop'[n] = loop[n]
              /\ state[n] = "Candidate" => campaign'[n] = campaign[n]
              /\ state[n] # "Candidate" => campaign'[n] = 0 /\ votes'[n] = {}
            BY <2>2, <3>1 DEF Reenter, TypeOK
        <3>3. state[n] = "Candidate" => votedFor[n] = n
            BY DEF ElectionInv, LoopInv
        <3>4. state[n] = "Candidate" => votedFor'[n] = n
            BY <1>1, <3>1, <3>3
        <3>. QED
            BY <1>1, <2>2, <3>1, <3>2, <3>4 DEF ElectionInv, LoopInv, Won
    <2>3. CASE m # n
        <3>1. /\ loop'[m] = loop[m] /\ state'[m] = state[m]
              /\ campaign'[m] = campaign[m] /\ votes'[m] = votes[m]
              /\ currentTerm'[m] = currentTerm[m] /\ votedFor'[m] = votedFor[m]
            BY <2>3 DEF Reenter, TypeOK
        <3>. QED
            BY <3>1 DEF ElectionInv, LoopInv, Won
    <2>. QED
        BY <2>1, <2>2, <2>3
<1>5. GrantInv'
    <2>. SUFFICES ASSUME NEW w \in Server, NEW c \in Server, NEW u \in Nat,
                         w # c, Granted(w, u, c)'
                  PROVE  /\ u <= currentTerm'[w]
                         /\ u = currentTerm'[w] =>
                                state'[w] = "Follower" /\ votedFor'[w] = c
        BY DEF GrantInv
    <2>1. CASE w = n /\ u = t /\ c = new
        BY <1>1, <1>3, <2>1
    <2>2. CASE Granted(w, u, c)
        <3>1. /\ u <= currentTerm[w]
              /\ u = currentTerm[w] => state[w] = "Follower" /\ votedFor[w] = c
            BY <2>2 DEF ElectionInv, GrantInv
        <3>2. CASE w = n
            BY <1>1, <3>1, <3>2
        <3>3. CASE w # n
            BY <3>1, <3>3 DEF TypeOK
        <3>. QED
            BY <3>2, <3>3
    <2>. QED
        BY <1>2, <2>1, <2>2
<1>6. GrantOnce'
    <2>1. ASSUME NEW c \in Server, c # n, Granted(n, t, c), new # Nil
          PROVE  c = new
        BY <1>1, <2>1 DEF ElectionInv, GrantInv
    <2>. QED
        BY <1>2, <2>1 DEF ElectionInv, GrantOnce
<1>7. WinnerInv'
    <2>. SUFFICES ASSUME NEW e \in elections
                  PROVE  /\ IsQuorum(e.votes, Server)
                         /\ e.term <= currentTerm'[e.leader]
                         /\ e.term = currentTerm'[e.leader] =>
                                votedFor'[e.leader] = e.leader
                         /\ \A d \in Server : d # e.leader =>
                                ~ Granted(e.leader, e.term, d)'
        BY DEF WinnerInv
    <2>1. e.term \in Nat /\ e.leader \in Server
        BY DEF TypeOK
    <2>2. /\ IsQuorum(e.votes, Server)
          /\ e.term <= currentTerm[e.leader]
          /\ e.term = currentTerm[e.leader] => votedFor[e.leader] = e.leader
          /\ \A d \in Server : d # e.leader => ~ Granted(e.leader, e.term, d)
        BY DEF ElectionInv, WinnerInv
    <2>3. CASE e.leader = n
        <3>1. e.term = t => t = currentTerm[n] /\ votedFor[n] = n
            BY <1>1, <2>1, <2>2, <2>3
        <3>2. e.term = t => votedFor'[n] = n /\ new = n
            BY <1>1, <3>1
        <3>3. \A d \in Server : d # n => ~ Granted(n, e.term, d)'
            BY <1>2, <2>1, <2>2, <2>3, <3>2
        <3>. QED
            BY <1>1, <2>1, <2>2, <2>3, <3>2, <3>3
    <2>4. CASE e.leader # n
        <3>1. /\ currentTerm'[e.leader] = currentTerm[e.leader]
              /\ votedFor'[e.leader] = votedFor[e.leader]
            BY <2>1, <2>4 DEF TypeOK
        <3>2. \A d \in Server : d # e.leader => ~ Granted(e.leader, e.term, d)'
            BY <1>2, <2>1, <2>2, <2>4
        <3>. QED
            BY <2>2, <3>1, <3>2
    <2>. QED
        BY <2>3, <2>4
<1>8. CallInv'
    BY DEF ElectionInv, CallInv, Won
<1>9. ElectionSafety'
    BY DEF ElectionInv, ElectionSafety
<1>. QED
    BY <1>4, <1>5, <1>6, <1>7, <1>8, <1>9 DEF ElectionInv

\* Evidence of votes only disappears when the answers and the counts do.
LEMMA GrantedShrinks ==
    ASSUME TypeOK, voteReplies' \subseteq voteReplies,
           campaign' = campaign, votes' = votes, elections' = elections
    PROVE  \A w, c \in Server, u \in Nat : Granted(w, u, c)' => Granted(w, u, c)
BY DEF Granted

\* handleAppendEntries keeps the requests of the other calls.
LEMMA AnswerRequests ==
    ASSUME NEW c \in calls, NEW reply, calls \subseteq Call,
           calls' = Answer(c, reply)
    PROVE  \A d \in calls' : \E e \in calls : d.req = e.req
BY DEF Answer, Call

\* A server that handles a request of its own term as Candidate or Leader did
\* not win that term: its sender did.
LEMMA SenderWon ==
    ASSUME TypeOK, ElectionInv, NEW c \in calls
    PROVE  ~ Won(c.req.to, c.req.term)
<1>1. c.req.from # c.req.to /\ Won(c.req.from, c.req.term)
    BY DEF ElectionInv, CallInv
<1>. QED
    BY <1>1 DEF ElectionInv, ElectionSafety, Won

\* FollowLeader, for RefuseAppend and AcceptAppend.
LEMMA Following ==
    ASSUME TypeOK, ElectionInv, NEW n \in Server, NEW c \in calls,
           c.req.to = n, loop[n] # "starting", FollowLeader(n, c.req),
           voteReplies' = Listened(voteReplies), elections' = elections,
           \A d \in calls' : \E e \in calls : d.req = e.req
    PROVE  ElectionInv'
<1>. USE NilAssumption
<1>1. c.req.term \in Nat /\ currentTerm[n] <= c.req.term
    BY DEF FollowLeader, TypeOK, Call, AppendReq
<1>2. /\ loop' = [loop EXCEPT ![n] = "follower"]
      /\ campaign' = [campaign EXCEPT ![n] = 0]
      /\ votes' = [votes EXCEPT ![n] = {}]
      /\ voteReplies' \subseteq voteReplies
    BY DEF FollowLeader, Reenter, Listened
<1>3. CASE c.req.term > currentTerm[n] \/ state[n] # "Follower"
    <2>1. StepDown(n, c.req.term, c.req.from)
        BY <1>1, <1>3 DEF FollowLeader, TypeOK
    <2>2. /\ currentTerm' = [currentTerm EXCEPT ![n] = c.req.term]
          /\ state' = [state EXCEPT ![n] = "Follower"]
          /\ votedFor' = [votedFor EXCEPT ![n] = Nil]
        BY <2>1 DEF StepDown
    <2>3. c.req.term = currentTerm[n] =>
              state[n] # "Follower" /\ ~ Won(n, c.req.term)
        <3>1. ~ Won(n, c.req.term)
            BY SenderWon
        <3>. QED
            BY <1>1, <1>3, <3>1 DEF TypeOK
    <2>. QED
        BY <1>1, <1>2, <2>2, <2>3, Demotion
<1>4. CASE c.req.term = currentTerm[n] /\ state[n] = "Follower"
    <2>1. UNCHANGED <<currentTerm, votedFor, state>>
        BY <1>4 DEF FollowLeader, TypeOK
    <2>2. /\ currentTerm' = [currentTerm EXCEPT ![n] = currentTerm[n]]
          /\ state' = [state EXCEPT ![n] = "Follower"]
          /\ votedFor' = [votedFor EXCEPT ![n] = votedFor[n]]
          /\ votedFor[n] \in Server \cup {Nil}
          /\ currentTerm[n] \in Nat /\ currentTerm[n] <= currentTerm[n]
        BY <1>4, <2>1 DEF TypeOK
    <2>. QED
        BY <1>2, <2>2, Demotion
<1>. QED
    BY <1>1, <1>3, <1>4 DEF TypeOK

\* Reboot, for the three kinds of crash.
LEMMA Crashing ==
    ASSUME TypeOK, ElectionInv, NEW n \in Server, NEW t \in Nat,
           NEW v \in Server \cup {Nil}, NEW left \in SUBSET calls,
           Reboot(n, left), currentTerm[n] <= t,
           currentTerm' = [currentTerm EXCEPT ![n] = t],
           votedFor' = [votedFor EXCEPT ![n] = v],
           t = currentTerm[n] =>
               v = votedFor[n] \/ (state[n] # "Follower" /\ ~ Won(n, t))
    PROVE  ElectionInv'
<1>1. /\ state' = [state EXCEPT ![n] = "Follower"]
      /\ loop' = [loop EXCEPT ![n] = "follower"]
      /\ campaign' = [campaign EXCEPT ![n] = 0]
      /\ votes' = [votes EXCEPT ![n] = {}]
      /\ voteReplies' \subseteq voteReplies
      /\ elections' = elections
    BY DEF Reboot, Listened
<1>2. \A c \in calls' : \E d \in calls : c.req = d.req
    <2>1. calls \subseteq Call
        BY DEF TypeOK
    <2>. QED
        BY <2>1 DEF Reboot, Call
<1>. QED
    BY <1>1, <1>2, Demotion

(***************************************************************************)
(* Every step keeps ElectionInv, as long as no replicator steps the node   *)
(* down behind its election.                                               *)
(***************************************************************************)
LEMMA ElectionStep ==
    ASSUME RacyStepDown = FALSE, TypeOK, ElectionInv, [Next]_vars
    PROVE  ElectionInv'
<1>. USE NilAssumption
<1>1. ASSUME NEW n \in Server, ElectionTimeout(n) PROVE ElectionInv'
    <2>. DEFINE t == currentTerm[n] + 1
    <2>1. /\ t \in Nat /\ currentTerm[n] < t /\ currentTerm[n] <= t
        BY Shapes
    <2>2. /\ currentTerm' = [currentTerm EXCEPT ![n] = t]
          /\ votedFor' = [votedFor EXCEPT ![n] = n]
          /\ voteReplies' \subseteq voteReplies
        BY <1>1 DEF ElectionTimeout, Listened
    <2>3. \A d \in Server : d # n => ~ Granted(n, t, d)
        BY <2>1, Shapes DEF ElectionInv, GrantInv
    <2>4. CASE IsQuorum({n}, Server)
        <3>1. BecomeLeader(n, t, {n}) /\ {n} \in SUBSET Server
            BY <1>1, <2>4 DEF ElectionTimeout
        <3>. HIDE DEF t
        <3>. QED
            BY <2>1, <2>2, <2>3, <2>4, <3>1, Winning
    <2>5. CASE ~ IsQuorum({n}, Server)
        <3>1. /\ state' = [state EXCEPT ![n] = "Candidate"]
              /\ loop' = [loop EXCEPT ![n] = "candidate"]
              /\ campaign' = [campaign EXCEPT ![n] = t]
              /\ votes' = [votes EXCEPT ![n] = {n}]
              /\ calls' = calls /\ elections' = elections
            BY <1>1, <2>5 DEF ElectionTimeout
        <3>. HIDE DEF t
        <3>. QED
            BY <2>1, <2>2, <3>1, Standing
    <2>. QED
        BY <2>4, <2>5
<1>2. ASSUME NEW n \in Server, CandidateGivesUp(n) PROVE ElectionInv'
    BY <1>2 DEF CandidateGivesUp, ElectionInv, LoopInv
<1>3. ASSUME NEW n \in Server, NEW m \in voteReqs, HandleRequestVote(n, m)
      PROVE ElectionInv'
    <2>. DEFINE newer == m.term > currentTerm[n]
                vote == IF newer THEN Nil ELSE votedFor[n]
                gr == m.term >= currentTerm[n] /\ MayGrant(n, vote, m)
                t == IF newer THEN m.term ELSE currentTerm[n]
                new == IF gr THEN m.cand ELSE vote
                st == IF newer THEN "Follower" ELSE state[n]
    <2>1. /\ m.term \in Nat /\ m.cand \in Server /\ currentTerm[n] \in Nat
          /\ votedFor[n] \in Server \cup {Nil}
        BY DEF TypeOK, VoteReq
    <2>2. /\ t \in Nat /\ currentTerm[n] <= t
          /\ vote \in Server \cup {Nil}
          /\ t = currentTerm[n] => vote = votedFor[n]
          /\ t > currentTerm[n] <=> newer
          /\ m.term >= currentTerm[n] => t = m.term
        BY <2>1
    <2>3. gr => vote \in {Nil, m.cand} /\ t = m.term
        BY <2>2 DEF MayGrant
    <2>4. /\ currentTerm' = [currentTerm EXCEPT ![n] = t]
          /\ votedFor' = [votedFor EXCEPT ![n] = new]
          /\ state' = [state EXCEPT ![n] = IF newer THEN "Follower" ELSE @]
          /\ Reenter(n, state'[n])
          /\ loop[n] # "starting"
          /\ elections' = elections /\ calls' = calls
        BY <1>3, Zenon DEF HandleRequestVote
    <2>5. OnlyNewVote(n, t, new)
        <3>. DEFINE reply == [from |-> n, to |-> m.cand, reqTerm |-> m.term,
                              term |-> currentTerm'[n], granted |-> gr]
        <3>1. voteReplies' \subseteq voteReplies \cup {reply}
            BY <1>3, Zenon DEF HandleRequestVote, Listened
        <3>. HIDE DEF gr, t
        <3>. QED
            BY <2>3, <3>1 DEF OnlyNewVote
    <2>6. /\ st \in {"Follower", "Candidate", "Leader"}
          /\ state' = [state EXCEPT ![n] = st]
          /\ Reenter(n, st)
        BY <2>4 DEF TypeOK
    <2>. HIDE DEF gr, vote
    <2>7. /\ new \in Server \cup {Nil}
          /\ t = currentTerm[n] => st = state[n] /\ votedFor[n] \in {Nil, new}
          /\ t # currentTerm[n] => st = "Follower"
        BY <2>1, <2>2, <2>3
    <2>. HIDE DEF t, new, st
    <2>. QED
        BY <2>2, <2>4, <2>5, <2>6, <2>7, Voting
<1>4. ASSUME NEW n \in Server, NEW r \in voteReplies, HandleVoteReply(n, r)
      PROVE ElectionInv'
    <2>1. r \in VoteReply /\ r.from \in Server /\ r.term \in Nat
        BY DEF TypeOK, VoteReply
    <2>2. voteReplies' \subseteq voteReplies /\ r.to = n /\ r.reqTerm = campaign[n]
        BY <1>4 DEF HandleVoteReply, Listened
    <2>3. /\ state[n] = "Candidate" /\ campaign[n] = currentTerm[n]
          /\ votedFor[n] = n /\ loop[n] = "candidate"
          /\ currentTerm[n] \in Nat
        BY <1>4 DEF HandleVoteReply, ElectionInv, LoopInv, TypeOK
    <2>4. CASE r.term > currentTerm[n]
        <3>1. /\ StepDown(n, r.term, Nil)
              /\ Reenter(n, "Follower")
              /\ UNCHANGED <<calls, elections>>
            BY <1>4, <2>1, <2>3, <2>4 DEF HandleVoteReply
        <3>2. /\ currentTerm' = [currentTerm EXCEPT ![n] = r.term]
              /\ state' = [state EXCEPT ![n] = "Follower"]
              /\ votedFor' = [votedFor EXCEPT ![n] = Nil]
              /\ loop' = [loop EXCEPT ![n] = "follower"]
              /\ campaign' = [campaign EXCEPT ![n] = 0]
              /\ votes' = [votes EXCEPT ![n] = {}]
            BY <3>1 DEF StepDown, Reenter
        <3>3. currentTerm[n] <= r.term /\ r.term # currentTerm[n]
            BY <2>1, <2>3, <2>4
        <3>. QED
            BY <2>1, <2>2, <3>1, <3>2, <3>3, Demotion
    <2>5. CASE ~ (r.term > currentTerm[n]) /\ ~ IsQuorum(votes[n] \cup {r.from}, Server)
        <3>1. /\ UNCHANGED <<currentTerm, votedFor, state, calls, elections>>
              /\ r.granted
              /\ loop' = [loop EXCEPT
                     ![n] = IF state[n] = "Candidate" THEN @ ELSE "follower"]
              /\ campaign' = [campaign EXCEPT
                     ![n] = IF state[n] = "Candidate" THEN @ ELSE 0]
              /\ votes' = [votes EXCEPT
                     ![n] = IF state[n] = "Candidate" THEN @ \cup {r.from} ELSE {}]
            BY <1>4, <2>5 DEF HandleVoteReply
        <3>2. /\ loop' = loop /\ campaign' = campaign
              /\ votes' = [votes EXCEPT ![n] = @ \cup {r.from}]
            BY <2>3, <3>1 DEF TypeOK
        <3>3. \A w, c \in Server, u \in Nat :
                  Granted(w, u, c)' => Granted(w, u, c)
            <4>. SUFFICES ASSUME NEW w \in Server, NEW c \in Server,
                                 NEW u \in Nat, Granted(w, u, c)'
                          PROVE  Granted(w, u, c)
                OBVIOUS
            <4>1. CASE campaign'[c] = u /\ w \in votes'[c]
                <5>1. CASE c = n /\ w = r.from
                    BY <2>2, <3>1, <3>2, <4>1, <5>1 DEF Granted
                <5>2. CASE ~ (c = n /\ w = r.from)
                    BY <3>2, <4>1, <5>2 DEF Granted, TypeOK
                <5>. QED
                    BY <5>1, <5>2
            <4>. QED
                BY <2>2, <3>1, <4>1 DEF Granted
        <3>4. \A m \in Server : votes'[m] = votes[m] \/ loop'[m] = "candidate"
            BY <2>3, <3>2 DEF TypeOK
        <3>. QED
            BY <3>1, <3>2, <3>3, <3>4, Quiet
    <2>6. CASE ~ (r.term > currentTerm[n]) /\ IsQuorum(votes[n] \cup {r.from}, Server)
        <3>. DEFINE V == votes[n] \cup {r.from}
        <3>1. /\ BecomeLeader(n, currentTerm[n], V)
              /\ UNCHANGED <<currentTerm, votedFor>>
              /\ r.granted
            BY <1>4, <2>6 DEF HandleVoteReply
        <3>2. V \in SUBSET Server /\ IsQuorum(V, Server)
            BY <2>1, <2>6 DEF TypeOK
        <3>3. \A v \in V : v # n => Granted(v, currentTerm[n], n)
            BY <2>2, <2>3, <3>1 DEF Granted
        <3>4. \A d \in Server : d # n => ~ Granted(n, currentTerm[n], d)
            BY <2>3 DEF ElectionInv, GrantInv
        <3>5. /\ currentTerm' = [currentTerm EXCEPT ![n] = currentTerm[n]]
              /\ votedFor' = [votedFor EXCEPT ![n] = n]
              /\ currentTerm[n] <= currentTerm[n]
            BY <2>3, <3>1 DEF TypeOK
        <3>. HIDE DEF V
        <3>. QED
            BY <2>2, <2>3, <3>1, <3>2, <3>3, <3>4, <3>5, Winning
    <2>. QED
        BY <2>4, <2>5, <2>6
<1>5. ASSUME NEW m \in voteReqs, VoteCallFails(m) PROVE ElectionInv'
    <2>1. UNCHANGED <<currentTerm, votedFor, state, loop, campaign, votes,
                      voteReplies, calls, elections>>
        BY <1>5 DEF VoteCallFails, persistent, candVars
    <2>. QED
        BY <2>1, Quiet, GrantedShrinks
<1>6. ASSUME NEW n \in Server, AppendNoOp(n) PROVE ElectionInv'
    <2>1. UNCHANGED <<currentTerm, votedFor, state, campaign, votes,
                      voteReplies, calls, elections>>
        BY <1>6 DEF AppendNoOp, candVars, voteMsgs
    <2>2. state[n] = "Leader" /\ loop' = [loop EXCEPT ![n] = "leader"]
        BY <1>6 DEF AppendNoOp, ElectionInv, LoopInv
    <2>3. \A m \in Server :
              loop'[m] = loop[m] \/ (state[m] = "Leader" /\ loop'[m] = "leader")
        BY <2>2 DEF TypeOK
    <2>. QED
        BY <2>1, <2>3, Quiet, GrantedShrinks
<1>7. ASSUME NEW n \in Server, NEW v \in Value, HandleApplyRequest(n, v)
      PROVE ElectionInv'
    <2>1. UNCHANGED <<currentTerm, votedFor, state, campaign, votes,
                      voteReplies, calls, elections>>
        BY <1>7 DEF HandleApplyRequest, candVars, voteMsgs
    <2>2. state[n] # "Leader" => state[n] = "Follower"
        BY <1>7 DEF HandleApplyRequest, ElectionInv, LoopInv, TypeOK
    <2>3. \A m \in Server :
              loop'[m] = loop[m] \/ (state[m] = "Follower" /\ loop'[m] = "follower")
        BY <1>7, <2>2 DEF HandleApplyRequest, TypeOK
    <2>. QED
        BY <2>1, <2>3, Quiet, GrantedShrinks
<1>8. ASSUME NEW n \in Server, NEW c \in calls, HandleAppendEntries(n, c)
      PROVE ElectionInv'
    <2>1. /\ c.req.to = n /\ loop[n] # "starting"
          /\ voteReplies' = Listened(voteReplies) /\ elections' = elections
        BY <1>8 DEF HandleAppendEntries
    <2>2. CASE RejectAppend(n, c)
        <3>1. /\ UNCHANGED <<currentTerm, votedFor, state>>
              /\ Reenter(n, state[n])
              /\ \A d \in calls' : \E e \in calls : d.req = e.req
            BY <2>2, AnswerRequests DEF RejectAppend, persistent, TypeOK
        <3>2. state[n] # "Candidate" => campaign[n] = 0 /\ votes[n] = {}
            BY DEF ElectionInv, LoopInv
        <3>3. campaign' = campaign /\ votes' = votes
            BY <3>1, <3>2 DEF Reenter, TypeOK
        <3>4. \A m \in Server :
                  loop'[m] = loop[m] \/ (state[m] = "Follower" /\ loop'[m] = "follower")
            BY <3>1 DEF Reenter, TypeOK
        <3>5. voteReplies' \subseteq voteReplies
            BY <2>1 DEF Listened
        <3>. QED
            BY <2>1, <3>1, <3>3, <3>4, <3>5, Quiet, GrantedShrinks
    <2>3. CASE RefuseAppend(n, c) \/ AcceptAppend(n, c)
        <3>1. /\ FollowLeader(n, c.req)
              /\ \A d \in calls' : \E e \in calls : d.req = e.req
            BY <2>3, AnswerRequests DEF RefuseAppend, AcceptAppend, TypeOK
        <3>. QED
            BY <2>1, <3>1, Following
    <2>. QED
        BY <1>8, <2>2, <2>3 DEF HandleAppendEntries
<1>9. ASSUME NEW n \in Server, NEW p \in Server, ReplicateOnce(n, p)
      PROVE ElectionInv'
    <2>1. UNCHANGED <<currentTerm, votedFor, state, loop, campaign, votes,
                      voteReplies, elections>>
        BY <1>9 DEF ReplicateOnce, persistent, candVars, voteMsgs
    <2>. DEFINE new == [req |-> AppendRequest(n, p), reply |-> NoReply,
                        status |-> "live"]
    <2>2. /\ new.req.from = n /\ new.req.to = p
          /\ new.req.term = currentTerm[n]
        BY DEF AppendRequest
    <2>3. Won(n, currentTerm[n]) /\ p # n
        BY <1>9 DEF ReplicateOnce, ElectionInv, LoopInv
    <2>4. calls' = calls \cup {new}
        BY <1>9 DEF ReplicateOnce
    <2>. HIDE DEF new
    <2>5. \A c \in calls' :
              \/ \E d \in calls : c.req = d.req
              \/ c.req.from # c.req.to /\ Won(c.req.from, c.req.term)
        BY <2>2, <2>3, <2>4
    <2>. QED
        BY <2>1, <2>5, Quiet, GrantedShrinks
<1>10. ASSUME NEW n \in Server, NEW c \in calls, HandleAppendReply(n, c)
       PROVE ElectionInv'
    <2>1. /\ UNCHANGED <<loop, campaign, votes, voteReplies, elections>>
          /\ calls' \subseteq calls
        BY <1>10 DEF HandleAppendReply, candVars, voteMsgs
    <2>2. CASE ReplyHigherTerm(n, c)
        <3>1. /\ c.reply.term \in Nat /\ currentTerm[n] <= c.reply.term
              /\ c.reply.term # currentTerm[n]
            BY <2>2 DEF ReplyHigherTerm, TypeOK, Call, AppendReply
        <3>2. /\ currentTerm' = [currentTerm EXCEPT ![n] = c.reply.term]
              /\ state' = [state EXCEPT ![n] = "Follower"]
              /\ votedFor' = [votedFor EXCEPT ![n] = Nil]
              /\ loop[n] \in {"follower", "leader"}
            BY <2>2 DEF ReplyHigherTerm, StepDown
        <3>3. /\ loop' = [loop EXCEPT ![n] = loop[n]]
              /\ campaign' = [campaign EXCEPT ![n] = 0]
              /\ votes' = [votes EXCEPT ![n] = {}]
            BY <2>1, <3>2 DEF ElectionInv, LoopInv, TypeOK
        <3>. QED
            BY <2>1, <3>1, <3>2, <3>3, Demotion
    <2>3. CASE ReplySuccess(n, c) \/ ReplyConflict(n, c)
        <3>1. UNCHANGED <<currentTerm, votedFor, state>>
            BY <2>3 DEF ReplySuccess, ReplyConflict
        <3>. QED
            BY <2>1, <3>1, Quiet, GrantedShrinks
    <2>. QED
        BY <1>10, <2>2, <2>3 DEF HandleAppendReply
<1>11. ASSUME NEW c \in calls, CallFails(c) PROVE ElectionInv'
    <2>1. UNCHANGED <<currentTerm, votedFor, state, loop, campaign, votes,
                      voteReplies, elections>>
        BY <1>11 DEF CallFails, persistent, candVars, voteMsgs
    <2>2. \A d \in calls' : \E e \in calls : d.req = e.req
        BY <1>11 DEF CallFails, TypeOK, Call
    <2>. QED
        BY <2>1, <2>2, Quiet, GrantedShrinks
<1>12. ASSUME NEW n \in Server, Restart(n) PROVE ElectionInv'
    <2>1. /\ currentTerm[n] \in Nat /\ votedFor[n] \in Server \cup {Nil}
          /\ currentTerm' = [currentTerm EXCEPT ![n] = currentTerm[n]]
          /\ votedFor' = [votedFor EXCEPT ![n] = votedFor[n]]
          /\ Reboot(n, calls) /\ calls \in SUBSET calls
          /\ currentTerm[n] <= currentTerm[n]
        BY <1>12 DEF Restart, persistent, TypeOK
    <2>. QED
        BY <2>1, Crashing
<1>13. ASSUME NEW n \in Server, TornPersist(n) PROVE ElectionInv'
    <2>1. PICK t \in TermsOnTheWay(n) \cup {currentTerm[n] + 1} :
              /\ currentTerm[n] < t
              /\ currentTerm' = [currentTerm EXCEPT ![n] = t]
              /\ votedFor' = votedFor \/ votedFor' = [votedFor EXCEPT ![n] = Nil]
              /\ Reboot(n, calls)
        BY <1>13 DEF TornPersist
    <2>2. t \in Nat /\ currentTerm[n] \in Nat /\ votedFor[n] \in Server \cup {Nil}
        BY <2>1, TermsType, Shapes
    <2>3. currentTerm[n] <= t /\ t # currentTerm[n]
        BY <2>1, <2>2
    <2>4. \E v \in Server \cup {Nil} : votedFor' = [votedFor EXCEPT ![n] = v]
        BY <2>1, <2>2, Shapes
    <2>. QED
        BY <2>1, <2>2, <2>3, <2>4, Crashing
<1>14. ASSUME NEW n \in Server, NEW c \in calls, TornAppend(n, c)
       PROVE ElectionInv'
    <2>. DEFINE v == IF c.req.term > currentTerm[n] \/ state[n] # "Follower"
                     THEN Nil ELSE votedFor[n]
    <2>1. /\ c.req.term \in Nat /\ currentTerm[n] <= c.req.term
          /\ v \in Server \cup {Nil}
        BY <1>14 DEF TornAppend, TypeOK, Call, AppendReq
    <2>2. /\ currentTerm' = [currentTerm EXCEPT ![n] = c.req.term]
          /\ votedFor' = [votedFor EXCEPT ![n] = v]
          /\ Reboot(n, calls \ {c}) /\ calls \ {c} \in SUBSET calls
          /\ c.req.to = n
        BY <1>14 DEF TornAppend
    <2>3. c.req.term = currentTerm[n] =>
              v = votedFor[n] \/ (state[n] # "Follower" /\ ~ Won(n, c.req.term))
        <3>1. ~ Won(n, c.req.term)
            BY <2>2, SenderWon
        <3>. QED
            BY <2>1, <3>1 DEF TypeOK
    <2>. HIDE DEF v
    <2>. QED
        BY <2>1, <2>2, <2>3, Crashing
<1>15. CASE UNCHANGED vars
    <2>1. UNCHANGED <<currentTerm, votedFor, state, loop, campaign, votes,
                      voteReplies, calls, elections>>
        BY <1>15 DEF vars
    <2>. QED
        BY <2>1, Quiet, GrantedShrinks
<1>. QED
    BY <1>1, <1>2, <1>3, <1>4, <1>5, <1>6, <1>7, <1>8, <1>9, <1>10, <1>11,
       <1>12, <1>13, <1>14, <1>15
       DEF Next, MainStep, ReplicatorStep, CrashStep

\* ElectionInv holds initially.
LEMMA ElectionInit == Init => ElectionInv
    BY DEF Init, ElectionInv, LoopInv, GrantInv, GrantOnce, WinnerInv, CallInv,
           ElectionSafety, Granted, Won

LEMMA ElectionInvariant ==
    ASSUME RacyStepDown = FALSE
    PROVE  Spec => []ElectionInv
<1>1. Init => ElectionInv
    BY ElectionInit
<1>2. TypeOK /\ ElectionInv /\ [Next]_vars => ElectionInv'
    BY ElectionStep
<1>. QED
    BY <1>1, <1>2, TypeCorrect, PTL DEF Spec

(***************************************************************************)
(* Election Safety for every cluster, every number of terms, crashes and   *)
(* messages: at most one server becomes Leader of a term, provided that no *)
(* replicator of an earlier leadership steps the node down while its main  *)
(* goroutine is in runCandidate or about to write the no-op.  Without the  *)
(* proviso the run race_election refutes it.                               *)
(***************************************************************************)
THEOREM ElectionSafe ==
    ASSUME RacyStepDown = FALSE
    PROVE  Spec => []ElectionSafety
<1>1. ElectionInv => ElectionSafety
    BY DEF ElectionInv
<1>. QED
    BY <1>1, ElectionInvariant, PTL

(***************************************************************************)
(* A vote for another server is final within its term: a server that has   *)
(* cast one is a Follower, and the stepDown of handleAppendEntries that    *)
(* clears votedFor within a term is run by Candidates and Leaders only; no *)
(* crash between the writes of persistState brings an old vote into a term *)
(* in which the server has voted.                                          *)
(***************************************************************************)
THEOREM VotesFinal ==
    ASSUME RacyStepDown = FALSE
    PROVE  Spec => VoteIsFinal
<1>. DEFINE Final == \A n \in Server :
                (currentTerm'[n] = currentTerm[n] /\ votedFor[n] \notin {n, Nil})
                    => votedFor'[n] = votedFor[n]
<1>1. ASSUME TypeOK, ElectionInv, Next PROVE Final
    <2>. SUFFICES ASSUME NEW n \in Server, currentTerm'[n] = currentTerm[n],
                         votedFor[n] \notin {n, Nil}
                  PROVE  votedFor'[n] = votedFor[n]
        OBVIOUS
    <2>. USE <1>1
    <2>1. /\ votedFor \in [Server -> Server \cup {Nil}]
          /\ currentTerm \in [Server -> Nat]
          /\ state \in [Server -> {"Follower", "Candidate", "Leader"}]
        BY DEF TypeOK
    <2>2. state[n] = "Follower"
        <3>1. state[n] # "Candidate"
            BY DEF ElectionInv, LoopInv
        <3>2. state[n] # "Leader"
            BY DEF ElectionInv, LoopInv, WinnerInv, Won
        <3>. QED
            BY <2>1, <3>1, <3>2
    <2>3. ASSUME NEW s \in Server, NEW t, NEW l, StepDown(s, t, l),
                 t > currentTerm[s] \/ state[s] # "Follower"
          PROVE  votedFor'[n] = votedFor[n]
        BY <2>1, <2>2, <2>3 DEF StepDown
    <2>4. ASSUME NEW s \in Server, MainStep(s) PROVE votedFor'[n] = votedFor[n]
        <3>1. CASE ElectionTimeout(s)
            BY <2>1, <3>1 DEF ElectionTimeout
        <3>2. ASSUME NEW m \in voteReqs, HandleRequestVote(s, m)
              PROVE  votedFor'[n] = votedFor[n]
            <4>. DEFINE newer == m.term > currentTerm[s]
                        vote == IF newer THEN Nil ELSE votedFor[s]
                        granted == m.term >= currentTerm[s] /\ MayGrant(s, vote, m)
            <4>1. /\ currentTerm' = [currentTerm EXCEPT ![s] =
                                         IF newer THEN m.term ELSE @]
                  /\ votedFor' = [votedFor EXCEPT ![s] =
                                      IF granted THEN m.cand ELSE vote]
                BY <3>2 DEF HandleRequestVote
            <4>2. granted => vote \in {Nil, m.cand}
                BY DEF MayGrant
            <4>. HIDE DEF granted
            <4>. QED
                BY <2>1, <4>1, <4>2
        <3>3. ASSUME NEW r \in voteReplies, HandleVoteReply(s, r)
              PROVE  votedFor'[n] = votedFor[n]
            BY <2>3, <3>3 DEF HandleVoteReply
        <3>4. ASSUME NEW c \in calls, HandleAppendEntries(s, c)
              PROVE  votedFor'[n] = votedFor[n]
            <4>1. CASE RejectAppend(s, c)
                BY <4>1 DEF RejectAppend, persistent
            <4>2. CASE FollowLeader(s, c.req)
                BY <2>3, <4>2 DEF FollowLeader
            <4>. QED
                BY <3>4, <4>1, <4>2 DEF HandleAppendEntries, RefuseAppend, AcceptAppend
        <3>5. CASE CandidateGivesUp(s) \/ AppendNoOp(s)
                     \/ \E v \in Value : HandleApplyRequest(s, v)
            BY <3>5 DEF CandidateGivesUp, AppendNoOp, HandleApplyRequest, persistent
        <3>. QED
            BY <2>4, <3>1, <3>2, <3>3, <3>4, <3>5 DEF MainStep
    <2>5. ASSUME NEW s \in Server, ReplicatorStep(s)
          PROVE  votedFor'[n] = votedFor[n]
        <3>1. CASE \E p \in Server : ReplicateOnce(s, p)
            BY <3>1 DEF ReplicateOnce, persistent
        <3>2. ASSUME NEW c \in calls, HandleAppendReply(s, c)
              PROVE  votedFor'[n] = votedFor[n]
            <4>1. CASE ReplyHigherTerm(s, c)
                BY <2>3, <4>1 DEF ReplyHigherTerm
            <4>2. CASE ReplySuccess(s, c) \/ ReplyConflict(s, c)
                BY <4>2 DEF ReplySuccess, ReplyConflict
            <4>. QED
                BY <3>2, <4>1, <4>2 DEF HandleAppendReply
        <3>. QED
            BY <2>5, <3>1, <3>2 DEF ReplicatorStep
    <2>6. ASSUME NEW s \in Server, CrashStep(s) PROVE votedFor'[n] = votedFor[n]
        <3>1. CASE Restart(s)
            BY <3>1 DEF Restart, persistent
        <3>2. CASE TornPersist(s)
            BY <2>1, <3>2 DEF TornPersist
        <3>3. ASSUME NEW c \in calls, TornAppend(s, c)
              PROVE  votedFor'[n] = votedFor[n]
            BY <2>1, <2>2, <3>3 DEF TornAppend
        <3>. QED
            BY <2>6, <3>1, <3>2, <3>3 DEF CrashStep
    <2>7. CASE \/ \E m \in voteReqs : VoteCallFails(m)
               \/ \E c \in calls : CallFails(c)
        BY <2>7 DEF VoteCallFails, CallFails, persistent
    <2>. QED
        BY <2>4, <2>5, <2>6, <2>7 DEF Next
<1>2. TypeOK /\ ElectionInv /\ [Next]_vars => [Final]_vars
    <2>. HIDE DEF Final
    <2>. QED
        BY <1>1
<1>. QED
    BY <1>2, ElectionInvariant, TypeCorrect, PTL DEF Spec, VoteIsFinal

-----------------------------------------------------------------------------
(***************************************************************************)
(* Redirect hints, with or without the race.                               *)
(***************************************************************************)

\* Who acts as Leader, or sends AppendEntries, has won the term.
HintInv ==
    /\ \A n \in Server : state[n] = "Leader" =>
           loop[n] \in {"starting", "leader"} /\ Won(n, currentTerm[n])
    /\ \A c \in calls : Won(c.req.from, c.req.term)
    /\ FollowerHint

\* The ways in which a step may leave a server.
HintKept(s) ==
    \/ state'[s] = "Candidate"
    \/ /\ state'[s] = "Leader" /\ loop'[s] \in {"starting", "leader"}
       /\ Won(s, currentTerm[s])'
    \/ /\ state'[s] = "Follower"
       /\ leaderID'[s] = Nil \/ Won(leaderID[s], currentTerm[s])'
    \/ /\ state'[s] = state[s] /\ currentTerm'[s] = currentTerm[s]
       /\ leaderID'[s] = leaderID[s]
       /\ loop'[s] = loop[s] \/ state[s] # "Leader"

LEMMA HintsKept ==
    ASSUME TypeOK, HintInv, elections \subseteq elections',
           \A d \in calls' : \/ \E c \in calls : d.req = c.req
                             \/ Won(d.req.from, d.req.term)',
           \A s \in Server : HintKept(s)
    PROVE  HintInv'
<1>1. \A n, t : Won(n, t) => Won(n, t)'
    BY DEF Won
<1>2. \A c \in calls' : Won(c.req.from, c.req.term)'
    BY <1>1 DEF HintInv
<1>3. ASSUME NEW n \in Server, state'[n] = "Leader"
      PROVE  loop'[n] \in {"starting", "leader"} /\ Won(n, currentTerm[n])'
    <2>1. CASE /\ state'[n] = state[n] /\ currentTerm'[n] = currentTerm[n]
               /\ loop'[n] = loop[n]
        <3>1. loop[n] \in {"starting", "leader"} /\ Won(n, currentTerm[n])
            BY <1>3, <2>1 DEF HintInv
        <3>. QED
            BY <2>1, <3>1 DEF Won
    <2>. QED
        BY <1>3, <2>1 DEF HintKept
<1>4. ASSUME NEW n \in Server, state'[n] = "Follower", leaderID'[n] # Nil
      PROVE  Won(leaderID[n], currentTerm[n])'
    <2>1. CASE /\ state'[n] = state[n] /\ currentTerm'[n] = currentTerm[n]
               /\ leaderID'[n] = leaderID[n]
        <3>1. Won(leaderID[n], currentTerm[n])
            BY <1>4, <2>1 DEF HintInv, FollowerHint, Won
        <3>. QED
            BY <2>1, <3>1 DEF Won
    <2>. QED
        BY <1>4, <2>1 DEF HintKept
<1>5. FollowerHint'
    BY <1>4 DEF FollowerHint, Won
<1>. QED
    BY <1>2, <1>3, <1>5 DEF HintInv

LEMMA HintStep ==
    ASSUME TypeOK, HintInv, [Next]_vars
    PROVE  HintInv'
<1>0. /\ currentTerm \in [Server -> Nat] /\ leaderID \in [Server -> Server \cup {Nil}]
      /\ state \in [Server -> {"Follower", "Candidate", "Leader"}]
      /\ loop \in [Server -> {"follower", "candidate", "starting", "leader"}]
      /\ \A c \in calls : c \in Call
    BY DEF TypeOK
<1>1. ASSUME elections' = elections,
             \A d \in calls' : \E c \in calls : d.req = c.req,
             \A s \in Server : HintKept(s)
      PROVE  HintInv'
    BY <1>1, HintsKept
<1>2. ASSUME UNCHANGED <<elections, calls, state, currentTerm, leaderID>>,
             \A s \in Server : loop'[s] = loop[s] \/ state[s] # "Leader"
      PROVE  HintInv'
    BY <1>1, <1>2 DEF HintKept
<1>3. ASSUME NEW n \in Server, NEW t, NEW V, BecomeLeader(n, t, V),
             currentTerm' = [currentTerm EXCEPT ![n] = t]
      PROVE  HintInv'
    <2>1. /\ state' = [state EXCEPT ![n] = "Leader"]
          /\ leaderID' = [leaderID EXCEPT ![n] = n]
          /\ loop' = [loop EXCEPT ![n] = "starting"]
          /\ elections' = elections \cup {[term |-> t, leader |-> n, votes |-> V]}
        BY <1>3 DEF BecomeLeader
    <2>2. Won(n, currentTerm[n])'
        <3>. DEFINE e == [term |-> t, leader |-> n, votes |-> V]
        <3>1. e \in elections' /\ e.term = t /\ e.leader = n
            BY <2>1
        <3>2. currentTerm'[n] = t
            BY <1>0, <1>3
        <3>. QED
            BY <3>1, <3>2 DEF Won
    <2>3. \A s \in Server : HintKept(s)
        BY <1>0, <1>3, <2>1, <2>2 DEF HintKept
    <2>4. \A d \in calls' : \E c \in calls : d.req = c.req
        BY <1>0, <1>3 DEF BecomeLeader, InitPeers, Call
    <2>. QED
        BY <2>1, <2>3, <2>4, HintsKept
<1>4. ASSUME NEW n \in Server, NEW t, NEW l, StepDown(n, t, l),
             l = Nil \/ Won(l, t), elections' = elections,
             \A s \in Server : s # n => loop'[s] = loop[s],
             \A d \in calls' : \E c \in calls : d.req = c.req
      PROVE  HintInv'
    <2>1. \A s \in Server : HintKept(s)
        BY <1>0, <1>4 DEF StepDown, HintKept, Won
    <2>. QED
        BY <1>1, <1>4, <2>1
<1>5. ASSUME NEW n \in Server, ElectionTimeout(n) PROVE HintInv'
    <2>. DEFINE t == currentTerm[n] + 1
    <2>1. CASE BecomeLeader(n, t, {n})
        BY <1>3, <1>5, <2>1 DEF ElectionTimeout
    <2>2. CASE ~ BecomeLeader(n, t, {n})
        <3>1. /\ UNCHANGED <<elections, calls, leaderID>>
              /\ state' = [state EXCEPT ![n] = "Candidate"]
              /\ loop' = [loop EXCEPT ![n] = "candidate"]
              /\ currentTerm' = [currentTerm EXCEPT ![n] = t]
            BY <1>5, <2>2 DEF ElectionTimeout
        <3>2. \A s \in Server : HintKept(s)
            BY <1>0, <3>1 DEF HintKept
        <3>. QED
            BY <1>1, <3>1, <3>2
    <2>. QED
        BY <2>1, <2>2
<1>6. ASSUME NEW n \in Server, NEW m \in voteReqs, HandleRequestVote(n, m)
      PROVE  HintInv'
    <2>1. CASE m.term > currentTerm[n]
        <3>1. /\ UNCHANGED <<elections, calls>>
              /\ state' = [state EXCEPT ![n] = "Follower"]
              /\ leaderID' = [leaderID EXCEPT ![n] = Nil]
              /\ currentTerm' = [currentTerm EXCEPT ![n] = m.term]
            BY <1>6, <2>1 DEF HandleRequestVote
        <3>2. \A s \in Server : s # n => loop'[s] = loop[s]
            BY <1>0, <1>6 DEF HandleRequestVote, Reenter
        <3>3. \A s \in Server : HintKept(s)
            BY <1>0, <3>1, <3>2 DEF HintKept
        <3>. QED
            BY <1>1, <3>1, <3>3
    <2>2. CASE ~ (m.term > currentTerm[n])
        <3>1. UNCHANGED <<elections, calls, state, leaderID, currentTerm>>
            BY <1>0, <1>6, <2>2 DEF HandleRequestVote
        <3>2. \A s \in Server : loop'[s] = loop[s] \/ state[s] # "Leader"
            BY <1>0, <1>6, <3>1 DEF HandleRequestVote, Reenter
        <3>. QED
            BY <1>2, <3>1, <3>2
    <2>. QED
        BY <2>1, <2>2
<1>7. ASSUME NEW n \in Server, NEW r \in voteReplies, HandleVoteReply(n, r)
      PROVE  HintInv'
    <2>1. CASE /\ StepDown(n, r.term, Nil) /\ Reenter(n, "Follower")
               /\ UNCHANGED <<calls, elections>>
        BY <1>0, <1>4, <2>1 DEF Reenter
    <2>2. CASE /\ BecomeLeader(n, currentTerm[n], votes[n] \cup {r.from})
               /\ UNCHANGED currentTerm
        BY <1>0, <1>3, <2>2
    <2>3. CASE /\ UNCHANGED <<currentTerm, state, leaderID, calls, elections>>
               /\ loop' = [loop EXCEPT
                      ![n] = IF state[n] = "Candidate" THEN @ ELSE "follower"]
        <3>1. state[n] # "Leader"
            BY <1>7 DEF HandleVoteReply, HintInv
        <3>. QED
            BY <1>0, <1>2, <2>3, <3>1
    <2>. QED
        BY <1>7, <2>1, <2>2, <2>3 DEF HandleVoteReply
<1>8. ASSUME NEW n \in Server, NEW c \in calls, HandleAppendEntries(n, c)
      PROVE  HintInv'
    <2>1. CASE RejectAppend(n, c)
        <3>1. /\ UNCHANGED <<state, currentTerm, leaderID, elections>>
              /\ \A d \in calls' : \E e \in calls : d.req = e.req
            BY <1>0, <1>8, <2>1 DEF HandleAppendEntries, RejectAppend, persistent,
                                    Answer, Call
        <3>2. \A s \in Server : loop'[s] = loop[s] \/ state[s] # "Leader"
            BY <1>0, <2>1 DEF RejectAppend, Reenter
        <3>. QED
            BY <1>1, <3>1, <3>2 DEF HintKept
    <2>2. CASE RefuseAppend(n, c) \/ AcceptAppend(n, c)
        <3>1. FollowLeader(n, c.req) /\ elections' = elections
            BY <1>8, <2>2 DEF HandleAppendEntries, RefuseAppend, AcceptAppend
        <3>2. \A d \in calls' : \E e \in calls : d.req = e.req
            BY <1>0, <2>2 DEF RefuseAppend, AcceptAppend, Answer, Call
        <3>3. Won(c.req.from, c.req.term)
            BY DEF HintInv
        <3>4. \A s \in Server : s # n => loop'[s] = loop[s]
            BY <1>0, <3>1 DEF FollowLeader, Reenter
        <3>5. CASE StepDown(n, c.req.term, c.req.from)
            BY <1>4, <3>1, <3>2, <3>3, <3>4, <3>5
        <3>6. CASE /\ c.req.term = currentTerm[n] /\ state[n] = "Follower"
                   /\ leaderID' = [leaderID EXCEPT ![n] = c.req.from]
                   /\ UNCHANGED <<currentTerm, state>>
            <4>1. HintKept(n)
                BY <1>0, <3>1, <3>3, <3>6 DEF HintKept, Won
            <4>2. \A s \in Server : HintKept(s)
                BY <1>0, <3>4, <3>6, <4>1 DEF HintKept
            <4>. QED
                BY <1>1, <3>1, <3>2, <4>2
        <3>. QED
            BY <3>1, <3>5, <3>6 DEF FollowLeader
    <2>. QED
        BY <1>8, <2>1, <2>2 DEF HandleAppendEntries
<1>9. ASSUME NEW n \in Server, NEW p \in Server, ReplicateOnce(n, p)
      PROVE  HintInv'
    <2>. DEFINE new == [req |-> AppendRequest(n, p), reply |-> NoReply, status |-> "live"]
    <2>1. /\ UNCHANGED <<state, currentTerm, leaderID, loop, elections>>
          /\ state[n] = "Leader" /\ calls' = calls \cup {new}
        BY <1>9 DEF ReplicateOnce, persistent
    <2>2. new.req.from = n /\ new.req.term = currentTerm[n]
        BY DEF AppendRequest
    <2>. HIDE DEF new
    <2>3. ASSUME NEW d \in calls', d = new
          PROVE  Won(d.req.from, d.req.term)'
        <3>1. Won(n, currentTerm[n])
            BY <2>1 DEF HintInv
        <3>2. d.req.from = n /\ d.req.term = currentTerm[n]
            BY <2>2, <2>3
        <3>. QED
            BY <2>1, <3>1, <3>2 DEF Won
    <2>4. \A s \in Server : HintKept(s)
        BY <2>1 DEF HintKept
    <2>. QED
        BY <2>1, <2>3, <2>4, HintsKept
<1>10. ASSUME NEW n \in Server, NEW c \in calls, HandleAppendReply(n, c)
       PROVE  HintInv'
    <2>1. UNCHANGED <<loop, elections>> /\ calls' = calls \ {c}
        BY <1>10 DEF HandleAppendReply
    <2>2. CASE ReplyHigherTerm(n, c)
        BY <1>4, <2>1, <2>2 DEF ReplyHigherTerm
    <2>3. CASE ReplySuccess(n, c) \/ ReplyConflict(n, c)
        <3>1. UNCHANGED <<state, currentTerm, leaderID>>
            BY <2>3 DEF ReplySuccess, ReplyConflict
        <3>. QED
            BY <1>1, <2>1, <3>1 DEF HintKept
    <2>. QED
        BY <1>10, <2>2, <2>3 DEF HandleAppendReply
<1>11. ASSUME NEW n \in Server, CrashStep(n) PROVE HintInv'
    <2>1. PICK left \in SUBSET calls : Reboot(n, left)
        BY <1>11 DEF CrashStep, Restart, TornPersist, TornAppend
    <2>2. /\ state' = [state EXCEPT ![n] = "Follower"]
          /\ leaderID' = [leaderID EXCEPT ![n] = Nil]
          /\ loop' = [loop EXCEPT ![n] = "follower"] /\ elections' = elections
        BY <2>1 DEF Reboot
    <2>3. \A s \in Server : s # n => currentTerm'[s] = currentTerm[s]
        BY <1>0, <1>11 DEF CrashStep, Restart, TornPersist, TornAppend, persistent
    <2>4. \A s \in Server : HintKept(s)
        BY <1>0, <2>2, <2>3 DEF HintKept
    <2>5. \A d \in calls' : \E c \in calls : d.req = c.req
        BY <1>0, <2>1 DEF Reboot, Call
    <2>. QED
        BY <1>1, <2>2, <2>4, <2>5
<1>12. ASSUME NEW n \in Server,
              \/ CandidateGivesUp(n) \/ AppendNoOp(n)
              \/ \E v \in Value : HandleApplyRequest(n, v)
       PROVE  HintInv'
    <2>1. UNCHANGED <<elections, calls, state, currentTerm, leaderID>>
        BY <1>12 DEF CandidateGivesUp, AppendNoOp, HandleApplyRequest, persistent
    <2>2. CASE CandidateGivesUp(n)
        BY <1>0, <1>2, <2>1, <2>2 DEF CandidateGivesUp, Reenter
    <2>3. CASE AppendNoOp(n)
        <3>1. \A s \in Server : state[s] = "Leader" => loop'[s] \in {loop[s], "leader"}
            BY <1>0, <2>3 DEF AppendNoOp
        <3>2. \A s \in Server : HintKept(s)
            BY <1>0, <2>1, <3>1 DEF HintKept, HintInv, Won
        <3>. QED
            BY <1>1, <2>1, <3>2
    <2>4. CASE \E v \in Value : HandleApplyRequest(n, v)
        BY <1>0, <1>2, <2>1, <2>4 DEF HandleApplyRequest
    <2>. QED
        BY <1>12, <2>2, <2>3, <2>4
<1>13. CASE \/ UNCHANGED vars \/ \E m \in voteReqs : VoteCallFails(m)
            \/ \E c \in calls : CallFails(c)
    <2>1. /\ UNCHANGED <<elections, state, currentTerm, leaderID, loop>>
          /\ \A d \in calls' : \E c \in calls : d.req = c.req
        BY <1>0, <1>13 DEF vars, VoteCallFails, CallFails, persistent, Call
    <2>. QED
        BY <1>1, <2>1 DEF HintKept
<1>. QED
    BY <1>5, <1>6, <1>7, <1>8, <1>9, <1>10, <1>11, <1>12, <1>13
       DEF Next, MainStep, ReplicatorStep

(***************************************************************************)
(* A Follower sends its clients to a server that really won the Follower's *)
(* own term, never to the leader of an older one: every way into a new     *)
(* term clears leaderID or stores the sender of an AppendEntries of that   *)
(* term.  This holds with the race as well.                                *)
(***************************************************************************)
THEOREM HintsSound == Spec => []FollowerHint
<1>1. Init => HintInv
    BY DEF Init, HintInv, FollowerHint
<1>2. TypeOK /\ HintInv /\ [Next]_vars => HintInv'
    BY HintStep
<1>3. HintInv => FollowerHint
    BY DEF HintInv
<1>. QED
    BY <1>1, <1>2, <1>3, TypeCorrect, PTL DEF Spec

=============================================================================
