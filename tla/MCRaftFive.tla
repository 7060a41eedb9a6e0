----------------------------- MODULE MCRaftFive -----------------------------
(***************************************************************************)
(* Five servers, as in the clusters of raft_test.go:231 and                *)
(* fault_test.go:470.  Their interleavings are out of TLC's reach, so the  *)
(* run follows one story: who stands in which term, whom its request       *)
(* reaches and in which order, and whom a leader sends entries to.  Every  *)
(* step is one of Raft's; the story only leaves steps out.                 *)
(***************************************************************************)
EXTENDS MCRaft

CONSTANTS n, l, p1, p2, q       \* the servers

\* The candidate of each term, the servers that its request reaches, in this
\* order, the length of its log when the next candidate stands, and the peers
\* that it sends entries to.
Terms ==
    <<[cand |-> n,  heard |-> <<p1, p2, l>>, wrote |-> 2, sendsTo |-> {}],
      [cand |-> l,  heard |-> <<q, p1, n>>,  wrote |-> 1, sendsTo |-> {}],
      [cand |-> n,  heard |-> <<p1, p2, l>>, wrote |-> 3, sendsTo |-> {p1, p2}],
      [cand |-> l,  heard |-> <<q, p1, p2>>, wrote |-> 2, sendsTo |-> {n}],
      [cand |-> p2, heard |-> <<q, p1>>,     wrote |-> 1, sendsTo |-> {}]>>

\* The request of term t has reached the first k of its servers.
HeardBy(t, k) == \A i \in 1..k : currentTerm[Terms[t].heard[i]] >= t

\* The candidate of the last term has been heard and has written its log.
TermDone ==
    \/ started = 0
    \/ /\ HeardBy(started, Len(Terms[started].heard))
       /\ Len(log[Terms[started].cand]) = Terms[started].wrote

\* Elections follow each other; a vote is counted before anything else happens.
ElectionStory ==
    /\ \A m \in voteReqs' \ voteReqs : TermDone /\ m.cand = Terms[m.term].cand
    /\ \A m \in voteReqs \ voteReqs' :
           \E i \in DOMAIN Terms[m.term].heard :
               /\ m.to = Terms[m.term].heard[i] /\ currentTerm[m.to] < m.term
               /\ HeardBy(m.term, i - 1)
    /\ voteReplies # {} => voteReplies \ voteReplies' # {}

\* A leader sends a peer that has confirmed nothing its first two entries; no
\* call is lost.
CallStory ==
    /\ \A c \in calls' \ calls :
           /\ c.req.to \in Terms[c.req.term].sendsTo
           /\ matchIndex[c.req.from][c.req.to] = 0
           /\ c.req.prevIndex + Len(c.req.entries) = 2
    /\ \A c \in calls \ calls' :
           c.reply # NoReply \/ c.req \in {d.req : d \in calls'}

Story == ElectionStory /\ CallStory
=============================================================================
