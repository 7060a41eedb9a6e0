-------------------------------- MODULE Raft --------------------------------
(***************************************************************************)
(* The consensus core of the collaborative editor: internal/raft/raft.go,  *)
(* election.go and replication.go, a cluster of RaftNodes that exchange    *)
(* RequestVote and AppendEntries calls.                                    *)
(*                                                                         *)
(* One node runs several goroutines over one mutex.  The main goroutine    *)
(* (run) is in runFollower, runCandidate or runLeader: variable loop.  It  *)
(* alone serves incoming RPCs, election timers, votes and client commands. *)
(* One replicator goroutine per peer sends AppendEntries calls and handles *)
(* their replies, and so changes the node's state behind the main          *)
(* goroutine's back.  state (Follower, Candidate, Leader) is what they     *)
(* share, so the two variables may disagree.  An action is one critical    *)
(* section of the code, or a run of them that no other goroutine can tell  *)
(* apart (the README lists the merges).                                    *)
(*                                                                         *)
(* Calls may be lost, late or out of order between any two goroutines; a   *)
(* request is delivered at most once (one TCP frame, no resend below the   *)
(* replicator).  A node may crash between any two actions, and between the *)
(* two transactions of persistState and of a conflicting append.           *)
(***************************************************************************)
EXTENDS RaftRules

CONSTANTS
    Server,         \* config.Peers: the servers, each with its own ServerID
    Value,          \* commands that clients submit through Apply
    NoOp,           \* the empty data of appendNoOp
    Nil,            \* "": no vote, no known leader
    MaxTerm,        \* bound: no election goes beyond this term
    MaxElections,   \* bound: elections started by all the servers together
    MaxLog,         \* bound: no leader appends beyond this index
    MaxRestarts,    \* bound: crashes of all the servers together
    MaxVoteReqs,    \* bound: RequestVote requests under way
    MaxCalls,       \* bound: AppendEntries calls whose caller is waiting
    MaxLate,        \* bound: requests that may still arrive although their
                    \* caller has given up
    RacyStepDown    \* TRUE: a replicator may see a higher term at any time.
                    \* FALSE: not while its main goroutine is inside an
                    \* election or has not yet written its no-op

ASSUME ServerAssumption == IsFiniteSet(Server) /\ Server # {}
ASSUME NilAssumption == Nil \notin Server
ASSUME BoundAssumption ==
    /\ MaxTerm \in Nat /\ MaxElections \in Nat /\ MaxLog \in Nat
    /\ MaxRestarts \in Nat /\ MaxVoteReqs \in Nat
    /\ MaxCalls \in Nat /\ MaxLate \in Nat
ASSUME RaceAssumption == RacyStepDown \in BOOLEAN

VARIABLES
    \* In the stores, survive a crash.
    currentTerm,    \* the latest term each server has seen
    votedFor,       \* whom it voted for in that term, or Nil
    log,            \* its log, a sequence of [term, data]
    \* In memory.
    state,          \* "Follower", "Candidate" or "Leader"
    loop,           \* where the main goroutine is: in runFollower, in
                    \* runCandidate, in runLeader before the no-op
                    \* ("starting") or in the loop of runLeader
    commitIndex,    \* the highest index known to be committed
    leaderID,       \* the leader that clients are sent to, or Nil
    campaign,       \* the term that startElection asked votes for, 0 when
                    \* the main goroutine is not in runCandidate
    votes,          \* the servers whose votes runCandidate has counted
    nextIndex,      \* peerState.nextIndex, for each peer
    matchIndex,     \* peerState.matchIndex, for each peer
    \* Between the servers.
    voteReqs,       \* RequestVote requests under way
    voteReplies,    \* the answers on their way to the voteCh of an election
    calls,          \* AppendEntries calls: request, reply, who waits for it
    \* History, for the properties only.
    elections,      \* every election won: term, winner and its voters
    started,        \* elections started so far
    restarts        \* crashes so far

persistent == <<currentTerm, votedFor, log>>
peerVars == <<nextIndex, matchIndex>>
candVars == <<campaign, votes>>
voteMsgs == <<voteReqs, voteReplies>>
vars == <<currentTerm, votedFor, log, state, loop, commitIndex, leaderID,
          campaign, votes, nextIndex, matchIndex, voteReqs, voteReplies,
          calls, elections, started, restarts>>

-----------------------------------------------------------------------------
(* Entries and messages *)

Entry == [term : Nat, data : Value \cup {NoOp}]

VoteReq == [cand : Server, to : Server, term : Nat, lastIndex : Nat,
            lastTerm : Nat]

\* term is the voter's, reqTerm the one of the request it answers.
VoteReply == [from : Server, to : Server, reqTerm : Nat, term : Nat,
              granted : BOOLEAN]

AppendReq == [from : Server, to : Server, term : Nat, prevIndex : Nat,
              prevTerm : Nat, entries : Seq(Entry), commit : Nat]

NoHint == [term |-> 0, index |-> 0]

AppendReply == [term : Nat, success : BOOLEAN,
                hint : [term : Nat, index : Nat]]

\* The request is under way, or the network has swallowed it.
NoReply == [term |-> 0, success |-> FALSE, hint |-> NoHint]

(***************************************************************************)
(* A call is "live" while the replicator that made it waits for the reply, *)
(* "orphan" when that replicator belongs to an earlier leadership (its     *)
(* peerState is no longer in r.peers), "late" when nobody waits any more   *)
(* and the request can only still be delivered.                            *)
(***************************************************************************)
Call == [req : AppendReq, reply : AppendReply,
         status : {"live", "orphan", "late"}]

\* The shape of the state; every nextIndex is at least 1, as the comment at
\* replication.go:169 asks, although a refusal may carry the hint 0.
TypeOK ==
    /\ currentTerm \in [Server -> Nat]
    /\ votedFor \in [Server -> Server \cup {Nil}]
    /\ log \in [Server -> Seq(Entry)]
    /\ state \in [Server -> {"Follower", "Candidate", "Leader"}]
    /\ loop \in [Server -> {"follower", "candidate", "starting", "leader"}]
    /\ commitIndex \in [Server -> Nat]
    /\ leaderID \in [Server -> Server \cup {Nil}]
    /\ campaign \in [Server -> Nat]
    /\ votes \in [Server -> SUBSET Server]
    /\ nextIndex \in [Server -> [Server -> Nat \ {0}]]
    /\ matchIndex \in [Server -> [Server -> Nat]]
    /\ voteReqs \subseteq VoteReq
    /\ voteReplies \subseteq VoteReply
    /\ calls \subseteq Call
    /\ elections \subseteq [term : Nat, leader : Server, votes : SUBSET Server]
    /\ started \in Nat
    /\ restarts \in Nat

-----------------------------------------------------------------------------
(* Shared steps *)

\* NewRaftNode on empty stores: a Follower at term 0.
Init ==
    /\ currentTerm = [n \in Server |-> 0]
    /\ votedFor = [n \in Server |-> Nil]
    /\ log = [n \in Server |-> <<>>]
    /\ state = [n \in Server |-> "Follower"]
    /\ loop = [n \in Server |-> "follower"]
    /\ commitIndex = [n \in Server |-> 0]
    /\ leaderID = [n \in Server |-> Nil]
    /\ campaign = [n \in Server |-> 0]
    /\ votes = [n \in Server |-> {}]
    /\ nextIndex = [n \in Server |-> [p \in Server |-> 1]]
    /\ matchIndex = [n \in Server |-> [p \in Server |-> 0]]
    /\ voteReqs = {}
    /\ voteReplies = {}
    /\ calls = {}
    /\ elections = {}
    /\ started = 0
    /\ restarts = 0

\* The main goroutine has handled an event and looks at the state again: it
\* leaves runCandidate or runLeader when the node is a Follower.
Reenter(n, st) ==
    /\ loop' = [loop EXCEPT ![n] = IF st = "Follower" THEN "follower" ELSE @]
    /\ campaign' = [campaign EXCEPT ![n] = IF st = "Candidate" THEN @ ELSE 0]
    /\ votes' = [votes EXCEPT ![n] = IF st = "Candidate" THEN @ ELSE {}]

\* The answers that a runCandidate still listens to; those of an election it
\* has left end in a channel nobody reads.  To be used after campaign'.
Listened(replies) == {r \in replies : r.reqTerm = campaign'[r.to]}

\* Defect: the leader of the old term stays the leader clients are sent to.
StepDownKeepsLeader(n, newTerm, leader) ==
    /\ currentTerm' = [currentTerm EXCEPT ![n] = newTerm]
    /\ state' = [state EXCEPT ![n] = "Follower"]
    /\ votedFor' = [votedFor EXCEPT ![n] = Nil]
    /\ leaderID' = [leaderID EXCEPT ![n] = IF leader = Nil THEN @ ELSE leader]

\* stepDown(newTerm), after which the caller may have stored a leader.
StepDown(n, newTerm, leader) ==
    /\ currentTerm' = [currentTerm EXCEPT ![n] = newTerm]
    /\ state' = [state EXCEPT ![n] = "Follower"]
    /\ votedFor' = [votedFor EXCEPT ![n] = Nil]
    /\ leaderID' = [leaderID EXCEPT ![n] = leader]

\* runLeader starts: a new peers map, so that the replicators of an earlier
\* leadership that still wait for a reply update a peerState nobody reads.
InitPeers(n) ==
    /\ nextIndex' = [nextIndex EXCEPT ![n] = [p \in Server |-> Len(log[n]) + 1]]
    /\ matchIndex' = [matchIndex EXCEPT ![n] = [p \in Server |-> 0]]
    /\ calls' = {IF c.req.from = n /\ c.status = "live"
                 THEN [c EXCEPT !.status = "orphan"] ELSE c : c \in calls}

\* A majority in the election of term t: Leader, at the top of runLeader.
BecomeLeader(n, t, voters) ==
    /\ state' = [state EXCEPT ![n] = "Leader"]
    /\ leaderID' = [leaderID EXCEPT ![n] = n]
    /\ loop' = [loop EXCEPT ![n] = "starting"]
    /\ campaign' = [campaign EXCEPT ![n] = 0]
    /\ votes' = [votes EXCEPT ![n] = {}]
    /\ InitPeers(n)
    /\ elections' = elections \cup {[term |-> t, leader |-> n, votes |-> voters]}

-----------------------------------------------------------------------------
(* Elections *)

(***************************************************************************)
(* The election timer fires.  A follower becomes Candidate and runs        *)
(* startElection; a candidate starts over, unless a replicator has made it *)
(* a Follower meanwhile, in which case it goes back to runFollower.        *)
(* startElection leaves leaderID as it was.  A server that is a majority   *)
(* by itself wins at once.                                                 *)
(***************************************************************************)
ElectionTimeout(n) ==
    LET t == currentTerm[n] + 1
    IN  /\ \/ loop[n] = "follower"
           \/ loop[n] = "candidate" /\ state[n] = "Candidate"
        /\ t <= MaxTerm /\ started < MaxElections
        /\ Cardinality(voteReqs) + Cardinality(Server) <= MaxVoteReqs + 1
        /\ started' = started + 1
        /\ currentTerm' = [currentTerm EXCEPT ![n] = t]
        /\ votedFor' = [votedFor EXCEPT ![n] = n]
        /\ voteReqs' = voteReqs \cup
               {[cand |-> n, to |-> p, term |-> t, lastIndex |-> Len(log[n]),
                 lastTerm |-> lastTerm(log[n])] : p \in Server \ {n}}
        /\ IF IsQuorum({n}, Server)
           THEN BecomeLeader(n, t, {n})
           ELSE /\ state' = [state EXCEPT ![n] = "Candidate"]
                /\ loop' = [loop EXCEPT ![n] = "candidate"]
                /\ campaign' = [campaign EXCEPT ![n] = t]
                /\ votes' = [votes EXCEPT ![n] = {n}]
                /\ UNCHANGED <<leaderID, peerVars, calls, elections>>
        /\ voteReplies' = Listened(voteReplies)
        /\ UNCHANGED <<log, commitIndex, restarts>>

CandidateGivesUp(n) ==
    /\ loop[n] = "candidate" /\ state[n] = "Follower"
    /\ Reenter(n, state[n])
    /\ voteReplies' = Listened(voteReplies)
    /\ UNCHANGED <<persistent, state, commitIndex, leaderID, peerVars,
                   voteReqs, calls, elections, started, restarts>>

\* Defect: the server does not remember that it has voted.
VoteAgain(n, vote, m) ==
    isLogUpToDate(m.lastTerm, m.lastIndex, lastTerm(log[n]), Len(log[n]))

\* The two refusals of handleRequestVote, after the terms have been compared.
MayGrant(n, vote, m) ==
    /\ vote \in {Nil, m.cand}
    /\ isLogUpToDate(m.lastTerm, m.lastIndex, lastTerm(log[n]), Len(log[n]))

(***************************************************************************)
(* handleRequestVote.  A request of an older term is refused and changes   *)
(* nothing; one of a newer term makes the server a Follower of that term   *)
(* that has not voted, before it decides.                                  *)
(***************************************************************************)
HandleRequestVote(n, m) ==
    LET newer == m.term > currentTerm[n]
        vote == IF newer THEN Nil ELSE votedFor[n]
        granted == m.term >= currentTerm[n] /\ MayGrant(n, vote, m)
    IN  /\ m.to = n
        /\ loop[n] # "starting"
        /\ currentTerm' = [currentTerm EXCEPT ![n] = IF newer THEN m.term ELSE @]
        /\ votedFor' = [votedFor EXCEPT ![n] = IF granted THEN m.cand ELSE vote]
        /\ state' = [state EXCEPT ![n] = IF newer THEN "Follower" ELSE @]
        /\ leaderID' = [leaderID EXCEPT ![n] = IF newer THEN Nil ELSE @]
        /\ Reenter(n, state'[n])
        /\ voteReqs' = voteReqs \ {m}
        /\ voteReplies' = Listened(voteReplies \cup
               {r \in {[from |-> n, to |-> m.cand, reqTerm |-> m.term,
                        term |-> currentTerm'[n], granted |-> granted]} :
                    granted \/ r.term > r.reqTerm})
        /\ UNCHANGED <<log, commitIndex, peerVars, calls, elections, started,
                       restarts>>

(***************************************************************************)
(* runCandidate takes an answer from the voteCh of its election.  Neither  *)
(* the state nor the term is looked at again before the answer is counted: *)
(* a granted vote that completes a majority makes the node Leader of its   *)
(* currentTerm, whatever that is by now.                                   *)
(***************************************************************************)
HandleVoteReply(n, r) ==
    /\ loop[n] = "candidate"
    /\ r.to = n /\ r.reqTerm = campaign[n]
    /\ \/ /\ r.term > currentTerm[n]
          /\ StepDown(n, r.term, Nil)
          /\ Reenter(n, "Follower")
          /\ UNCHANGED <<peerVars, calls, elections>>
       \/ /\ r.term <= currentTerm[n]
          /\ r.granted
          /\ ~ IsQuorum(votes[n] \cup {r.from}, Server)
          /\ loop' = [loop EXCEPT
                 ![n] = IF state[n] = "Candidate" THEN @ ELSE "follower"]
          /\ campaign' = [campaign EXCEPT
                 ![n] = IF state[n] = "Candidate" THEN @ ELSE 0]
          /\ votes' = [votes EXCEPT
                 ![n] = IF state[n] = "Candidate" THEN @ \cup {r.from} ELSE {}]
          /\ UNCHANGED <<currentTerm, votedFor, state, leaderID, peerVars,
                         calls, elections>>
       \/ /\ r.term <= currentTerm[n]
          /\ r.granted
          /\ IsQuorum(votes[n] \cup {r.from}, Server)
          /\ BecomeLeader(n, currentTerm[n], votes[n] \cup {r.from})
          /\ UNCHANGED <<currentTerm, votedFor>>
    /\ voteReplies' = Listened(voteReplies \ {r})
    /\ UNCHANGED <<log, commitIndex, voteReqs, started, restarts>>

\* SendRequestVote returns an error: the request is lost.  (A lost answer is
\* one that is never taken.)
VoteCallFails(m) ==
    /\ voteReqs' = voteReqs \ {m}
    /\ UNCHANGED <<persistent, state, loop, commitIndex, leaderID, candVars,
                   peerVars, voteReplies, calls, elections, started, restarts>>

-----------------------------------------------------------------------------
(* The leader *)

\* Defect: the no-op is written before the votes have been counted.
NoOpInElection(n) ==
    /\ loop[n] = "candidate"
    /\ log' = [log EXCEPT
           ![n] = Append(@, [term |-> currentTerm[n], data |-> NoOp])]
    /\ UNCHANGED <<currentTerm, votedFor, state, loop, commitIndex, leaderID,
                   candVars, peerVars, voteMsgs, calls, elections, started,
                   restarts>>

(***************************************************************************)
(* appendNoOp: an empty entry of the current term, without a look at the   *)
(* state, then the first test of runLeader's loop.  The replicators have   *)
(* been running since BecomeLeader.                                        *)
(***************************************************************************)
AppendNoOp(n) ==
    /\ loop[n] = "starting"
    /\ log' = [log EXCEPT
           ![n] = Append(@, [term |-> currentTerm[n], data |-> NoOp])]
    /\ loop' = [loop EXCEPT
           ![n] = IF state[n] = "Leader" THEN "leader" ELSE "follower"]
    /\ UNCHANGED <<currentTerm, votedFor, state, commitIndex, leaderID,
                   candVars, peerVars, voteMsgs, calls, elections, started,
                   restarts>>

\* handleApplyRequest of a queued command; a node that is no longer Leader
\* refuses it and leaves runLeader.
HandleApplyRequest(n, v) ==
    /\ loop[n] = "leader"
    /\ \/ /\ state[n] = "Leader"
          /\ Len(log[n]) < MaxLog
          /\ log' = [log EXCEPT
                 ![n] = Append(@, [term |-> currentTerm[n], data |-> v])]
          /\ UNCHANGED loop
       \/ /\ state[n] # "Leader"
          /\ loop' = [loop EXCEPT ![n] = "follower"]
          /\ UNCHANGED log
    /\ UNCHANGED <<currentTerm, votedFor, state, commitIndex, leaderID,
                   candVars, peerVars, voteMsgs, calls, elections, started,
                   restarts>>

\* The request replicateOnce builds under the read lock: everything from
\* nextIndex on, a heartbeat when there is nothing.
AppendRequest(n, p) ==
    LET prev == nextIndex[n][p] - 1
    IN  [from |-> n, to |-> p, term |-> currentTerm[n],
         prevIndex |-> prev,
         prevTerm |-> IF prev \in 1..Len(log[n]) THEN log[n][prev].term ELSE 0,
         entries |-> SubSeq(log[n], prev + 1, Len(log[n])),
         commit |-> commitIndex[n]]

\* replicateOnce up to the call.  A replicator has one call at a time.
ReplicateOnce(n, p) ==
    /\ p # n
    /\ state[n] = "Leader" /\ loop[n] \in {"starting", "leader"}
    /\ Cardinality({c \in calls : c.status # "late"}) < MaxCalls
    /\ ~ \E c \in calls :
            c.req.from = n /\ c.req.to = p /\ c.status = "live"
    /\ calls' = calls \cup {[req |-> AppendRequest(n, p), reply |-> NoReply,
                             status |-> "live"]}
    /\ UNCHANGED <<persistent, state, loop, commitIndex, leaderID, candVars,
                   peerVars, voteMsgs, elections, started, restarts>>

-----------------------------------------------------------------------------
(* The follower *)

\* The handler has answered c: the reply travels back to the replicator, or to
\* nobody when it has stopped waiting.
Answer(c, reply) ==
    IF c.status = "late"
    THEN calls \ {c}
    ELSE (calls \ {c}) \cup {[c EXCEPT !.reply = reply]}

\* handleAppendEntries, step 1: a request of an older term changes nothing.
RejectAppend(n, c) ==
    /\ c.req.term < currentTerm[n]
    /\ calls' = Answer(c, [term |-> currentTerm[n], success |-> FALSE,
                           hint |-> NoHint])
    /\ Reenter(n, state[n])
    /\ UNCHANGED <<persistent, state, commitIndex, leaderID>>

\* The sender is the leader of its term.  stepDown runs when the term is newer
\* and when a Candidate or Leader meets a leader of its own term, and clears
\* the vote in both cases.
FollowLeader(n, req) ==
    /\ req.term >= currentTerm[n]
    /\ Reenter(n, "Follower")
    /\ \/ /\ req.term > currentTerm[n] \/ state[n] # "Follower"
          /\ StepDown(n, req.term, req.from)
       \/ /\ req.term = currentTerm[n] /\ state[n] = "Follower"
          /\ leaderID' = [leaderID EXCEPT ![n] = req.from]
          /\ UNCHANGED <<currentTerm, votedFor, state>>

\* Step 2: the log does not hold prevIndex with prevTerm.
RefuseAppend(n, c) ==
    /\ FollowLeader(n, c.req)
    /\ ~ LogConsistent(log[n], c.req.prevIndex, c.req.prevTerm)
    /\ calls' = Answer(c, [term |-> currentTerm'[n], success |-> FALSE,
                           hint |-> ConflictHint(log[n], c.req.prevIndex)])
    /\ UNCHANGED <<log, commitIndex>>

\* Steps 3 and 4: merge the entries, take over the commit index.
AcceptAppend(n, c) ==
    /\ FollowLeader(n, c.req)
    /\ LogConsistent(log[n], c.req.prevIndex, c.req.prevTerm)
    /\ log' = [log EXCEPT
           ![n] = MergeEntries(@, c.req.prevIndex, c.req.entries)]
    /\ commitIndex' = [commitIndex EXCEPT
           ![n] = FollowerCommit(@, c.req.commit, Len(log'[n]))]
    /\ calls' = Answer(c, [term |-> currentTerm'[n], success |-> TRUE,
                           hint |-> NoHint])

HandleAppendEntries(n, c) ==
    /\ c.req.to = n /\ c.reply = NoReply
    /\ loop[n] # "starting"
    /\ RejectAppend(n, c) \/ RefuseAppend(n, c) \/ AcceptAppend(n, c)
    /\ voteReplies' = Listened(voteReplies)
    /\ UNCHANGED <<peerVars, voteReqs, elections, started, restarts>>

-----------------------------------------------------------------------------
(* The replicator, after the call *)

\* A reply with a higher term.  The main goroutine is not told: it finds out
\* at its next event.
ReplyHigherTerm(n, c) ==
    /\ c.reply.term > currentTerm[n]
    /\ RacyStepDown \/ loop[n] \in {"follower", "leader"}
    /\ StepDown(n, c.reply.term, Nil)
    /\ UNCHANGED <<commitIndex, peerVars>>

\* Defect: the whole log is taken for replicated.
MatchAll(n, c) == Len(log[n])

\* matchIndex after a success: the last index of the request, if it had
\* entries; a heartbeat confirms nothing.
Matched(n, c) ==
    IF c.req.entries = <<>>
    THEN matchIndex[n][c.req.to]
    ELSE c.req.prevIndex + Len(c.req.entries)

\* advanceCommitIndex over the peers' matchIndex and the node's own log.
Advance(n, match) ==
    LeaderCommit(log[n], commitIndex[n], currentTerm[n],
        CommitCandidate([match EXCEPT ![n] = Len(log[n])], Server))

\* A success.  Nothing asks whether the node is still Leader.
ReplySuccess(n, c) ==
    /\ c.reply.term <= currentTerm[n] /\ c.reply.success
    /\ IF c.status = "live" /\ c.req.entries # <<>>
       THEN /\ matchIndex' = [matchIndex EXCEPT ![n][c.req.to] = Matched(n, c)]
            /\ nextIndex' = [nextIndex EXCEPT ![n][c.req.to] = Matched(n, c) + 1]
       ELSE UNCHANGED peerVars
    /\ commitIndex' = [commitIndex EXCEPT ![n] = Advance(n, matchIndex'[n])]
    /\ UNCHANGED <<currentTerm, votedFor, state, leaderID>>

\* A refusal: back up.
ReplyConflict(n, c) ==
    /\ c.reply.term <= currentTerm[n] /\ ~ c.reply.success
    /\ nextIndex' = [nextIndex EXCEPT ![n][c.req.to] =
                        IF c.status = "live" THEN BackUp(log[n], c.reply.hint)
                        ELSE @]
    /\ UNCHANGED <<currentTerm, votedFor, state, leaderID, commitIndex,
                   matchIndex>>

HandleAppendReply(n, c) ==
    /\ c.req.from = n /\ c.reply # NoReply /\ c.status # "late"
    /\ calls' = calls \ {c}
    /\ ReplyHigherTerm(n, c) \/ ReplySuccess(n, c) \/ ReplyConflict(n, c)
    /\ UNCHANGED <<log, loop, candVars, voteMsgs, elections, started, restarts>>

\* SendAppendEntries returns an error: the request or its reply is gone, or
\* the request is still under way and may arrive after all.
CallFails(c) ==
    /\ c.status # "late"
    /\ \/ calls' = calls \ {c}
       \/ /\ c.reply = NoReply
          /\ Cardinality({d \in calls : d.status = "late"}) < MaxLate
          /\ calls' = (calls \ {c}) \cup {[c EXCEPT !.status = "late"]}
    /\ UNCHANGED <<persistent, state, loop, commitIndex, leaderID, candVars,
                   peerVars, voteMsgs, elections, started, restarts>>

-----------------------------------------------------------------------------
(* Crashes *)

\* The process dies and NewRaftNode runs again on the stores.  Of the calls
\* that are left, its own have no replicator any more: their requests may
\* still arrive, nobody reads the replies.
Reboot(n, left) ==
    /\ restarts < MaxRestarts
    /\ restarts' = restarts + 1
    /\ state' = [state EXCEPT ![n] = "Follower"]
    /\ loop' = [loop EXCEPT ![n] = "follower"]
    /\ commitIndex' = [commitIndex EXCEPT ![n] = 0]
    /\ leaderID' = [leaderID EXCEPT ![n] = Nil]
    /\ campaign' = [campaign EXCEPT ![n] = 0]
    /\ votes' = [votes EXCEPT ![n] = {}]
    /\ nextIndex' = [nextIndex EXCEPT ![n] = [p \in Server |-> 1]]
    /\ matchIndex' = [matchIndex EXCEPT ![n] = [p \in Server |-> 0]]
    /\ calls' = {c \in left : c.req.from # n}
                    \cup {[c EXCEPT !.status = "late"] :
                             c \in {d \in left : d.req.from = n /\ d.reply = NoReply}}
    /\ voteReplies' = Listened(voteReplies)
    /\ UNCHANGED <<voteReqs, elections, started>>

Restart(n) ==
    /\ Reboot(n, calls)
    /\ UNCHANGED persistent

\* Terms that a message on its way to n carries.
TermsOnTheWay(n) ==
    {m.term : m \in {v \in voteReqs : v.to = n}}
        \cup {r.term : r \in {v \in voteReplies : v.to = n}}
        \cup {c.req.term : c \in {d \in calls : d.req.to = n}}
        \cup {c.reply.term : c \in {d \in calls : d.req.from = n}}

(***************************************************************************)
(* A crash between the two transactions of persistState: the new term is   *)
(* on disk, the vote is still the one of an earlier term; or between       *)
(* stepDown and the second persistState of handleRequestVote: the new term *)
(* and no vote.                                                            *)
(***************************************************************************)
TornPersist(n) ==
    \E t \in TermsOnTheWay(n) \cup {currentTerm[n] + 1} :
        /\ currentTerm[n] < t /\ t <= MaxTerm
        /\ currentTerm' = [currentTerm EXCEPT ![n] = t]
        /\ \/ UNCHANGED votedFor
           \/ /\ t \in TermsOnTheWay(n)
              /\ votedFor' = [votedFor EXCEPT ![n] = Nil]
        /\ UNCHANGED log
        /\ Reboot(n, calls)

\* A crash between DeleteRange and StoreLogs of a conflicting append.
TornAppend(n, c) ==
    /\ c.req.to = n /\ c.reply = NoReply
    /\ loop[n] # "starting"
    /\ c.req.term >= currentTerm[n]
    /\ LogConsistent(log[n], c.req.prevIndex, c.req.prevTerm)
    /\ DeleteConflicts(log[n], c.req.prevIndex, c.req.entries) # log[n]
    /\ log' = [log EXCEPT
           ![n] = DeleteConflicts(@, c.req.prevIndex, c.req.entries)]
    /\ currentTerm' = [currentTerm EXCEPT ![n] = c.req.term]
    /\ votedFor' = [votedFor EXCEPT
           ![n] = IF c.req.term > currentTerm[n] \/ state[n] # "Follower"
                  THEN Nil ELSE @]
    /\ Reboot(n, calls \ {c})

-----------------------------------------------------------------------------
MainStep(n) ==
    \/ ElectionTimeout(n)
    \/ CandidateGivesUp(n)
    \/ \E m \in voteReqs : HandleRequestVote(n, m)
    \/ \E r \in voteReplies : HandleVoteReply(n, r)
    \/ AppendNoOp(n)
    \/ \E v \in Value : HandleApplyRequest(n, v)
    \/ \E c \in calls : HandleAppendEntries(n, c)

ReplicatorStep(n) ==
    \/ \E p \in Server : ReplicateOnce(n, p)
    \/ \E c \in calls : HandleAppendReply(n, c)

CrashStep(n) ==
    \/ Restart(n)
    \/ TornPersist(n)
    \/ \E c \in calls : TornAppend(n, c)

Next ==
    \/ \E n \in Server : MainStep(n) \/ ReplicatorStep(n) \/ CrashStep(n)
    \/ \E m \in voteReqs : VoteCallFails(m)
    \/ \E c \in calls : CallFails(c)

Spec == Init /\ [][Next]_vars

(***************************************************************************)
(* The goroutines of a node run: its timer fires, what waits in its        *)
(* channels is taken, its replicators send and handle replies.  Nothing is *)
(* assumed about the network or about crashes.                             *)
(***************************************************************************)
FairSpec ==
    /\ Spec
    /\ \A n \in Server : WF_vars(MainStep(n)) /\ WF_vars(ReplicatorStep(n))

-----------------------------------------------------------------------------
(* Properties *)

(***************************************************************************)
(* Election Safety (raft_test.go:6, fault_test.go:379): at most one server *)
(* ever becomes Leader of a term.  Two candidates, the voters' memory      *)
(* across crashes and the vote that handleAppendEntries erases in its own  *)
(* term are what could break it.                                           *)
(***************************************************************************)
ElectionSafety ==
    \A e, f \in elections : e.term = f.term => e.leader = f.leader

(***************************************************************************)
(* A vote for another server is final within its term: no crash between    *)
(* the two writes of persistState, no later candidate and no leader of the *)
(* same term makes the server forget it or vote again.                     *)
(***************************************************************************)
VoteIsFinal ==
    [][\A n \in Server :
          (currentTerm'[n] = currentTerm[n] /\ votedFor[n] \notin {n, Nil})
              => votedFor'[n] = votedFor[n]]_vars

(***************************************************************************)
(* "a server votes for at most one candidate per term" (raft_test.go:261): *)
(* a server whose own request for votes in its current term is still under *)
(* way has voted for nobody else in that term.                             *)
(***************************************************************************)
VoteOnlyOnce ==
    \A m \in voteReqs :
        m.term = currentTerm[m.cand] => votedFor[m.cand] \in {m.cand, Nil}

(***************************************************************************)
(* Every entry in a log was created in a term that some server won (the    *)
(* no-op and the commands are appended "to the leader's log",              *)
(* raft.go:438 and 477): terms that nobody won leave no entries behind.    *)
(***************************************************************************)
EntriesFromLeaders ==
    \A n \in Server : \A i \in 1..Len(log[n]) :
        \E e \in elections : e.term = log[n][i].term

(***************************************************************************)
(* Log Matching (raft_test.go:7): if two logs hold the same term at the    *)
(* same index they are equal up to there.  The consistency check, the      *)
(* merge of late requests and Election Safety together give it.            *)
(***************************************************************************)
LogMatching ==
    \A s, t \in Server :
        \A i \in 1..Len(log[s]) :
            (i <= Len(log[t]) /\ log[s][i].term = log[t][i].term)
                => \A j \in 1..i : log[s][j] = log[t][j]

(***************************************************************************)
(* Leader Completeness (raft_test.go:8): what a server of this or an       *)
(* earlier term believes committed is in the log of every Leader.          *)
(***************************************************************************)
LeaderCompleteness ==
    \A l, s \in Server :
        (state[l] = "Leader" /\ currentTerm[s] <= currentTerm[l])
            => /\ commitIndex[s] <= Len(log[l])
               /\ \A i \in 1..commitIndex[s] :
                      i <= Len(log[s]) /\ log[l][i] = log[s][i]

(***************************************************************************)
(* A committed entry is safe from the elections to come: a server whose    *)
(* log a majority would vote for holds everything that any server believes *)
(* committed.  An entry of an old term that is on a majority need not be   *)
(* so, which is why advanceCommitIndex does not count it (section 5.4.2).  *)
(***************************************************************************)
OnlyHoldersElectable ==
    \A s \in Server :
        LET voters == {v \in Server :
                isLogUpToDate(lastTerm(log[s]), Len(log[s]),
                              lastTerm(log[v]), Len(log[v]))}
        IN  Cardinality(voters) >= QuorumSize(Server)
                => \A c \in Server : \A i \in 1..commitIndex[c] :
                       /\ i <= Len(log[s]) /\ i <= Len(log[c])
                       /\ log[s][i] = log[c][i]

(***************************************************************************)
(* What the leader counts: while no server is ahead of the Leader's term,  *)
(* a peer really holds the Leader's entries up to its matchIndex, although *)
(* the count comes from replies that may be late and peers that crash.     *)
(***************************************************************************)
MatchIndexSound ==
    \A l, p \in Server :
        (state[l] = "Leader" /\ currentTerm[p] <= currentTerm[l])
            => \A i \in 1..matchIndex[l][p] :
                   i <= Len(log[p]) /\ i <= Len(log[l]) /\ log[p][i] = log[l][i]

(***************************************************************************)
(* Clients are redirected to leaderID (LeaderAddr): the hint of a Follower *)
(* is a server that really won the election of the Follower's own term,    *)
(* never one of an older term.                                             *)
(***************************************************************************)
FollowerHint ==
    \A n \in Server :
        (state[n] = "Follower" /\ leaderID[n] # Nil)
            => \E e \in elections :
                   e.term = currentTerm[n] /\ e.leader = leaderID[n]

(***************************************************************************)
(* A committed entry is final on the server that committed it: no later    *)
(* append, conflict deletion or crash removes or replaces it, although     *)
(* handleAppendEntries deletes conflicts without a look at commitIndex.    *)
(***************************************************************************)
CommittedStable ==
    [][\A n \in Server :
          \A i \in 1..commitIndex[n] :
              i <= Len(log'[n]) /\ log'[n][i] = log[n][i]]_vars

(***************************************************************************)
(* "as long as majority alive, progress is made" (fault_test.go:24): when  *)
(* no server crashes, something is committed in the end.                   *)
(***************************************************************************)
Progress == <>(\E n \in Server : commitIndex[n] > 0)

=============================================================================
