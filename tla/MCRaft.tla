------------------------------- MODULE MCRaft -------------------------------
(***************************************************************************)
(* Instances of Raft for TLC.  Servers are model values and                *)
(* interchangeable: nothing in the protocol orders them.                   *)
(***************************************************************************)
EXTENDS Raft, TLC

CONSTANT Scenarios

Symmetry == Permutations(Server)

(***************************************************************************)
(* Views: states that differ only in what no action reads any more, and    *)
(* the run's properties do not mention, are explored once.                 *)
(***************************************************************************)
\* Of the history, only who won which term.
Winners == {<<e.term, e.leader>> : e \in elections}

\* The peerStates of a server that is no Leader and waits for no reply are
\* read by nobody: InitPeers makes new ones when it is elected again.  Only
\* TypeOK has something to say about them, that no index to send is 0.
Peers(n) ==
    IF state[n] = "Leader" \/ \E c \in calls : c.req.from = n /\ c.status # "late"
    THEN <<nextIndex[n], matchIndex[n]>>
    ELSE {p \in Server : nextIndex[n][p] = 0}

\* Without redirect hints.
LogView ==
    <<persistent, state, loop, commitIndex, candVars,
      [n \in Server |-> Peers(n)], voteMsgs, calls, Winners, started, restarts>>

HintView == <<LogView, leaderID>>

-----------------------------------------------------------------------------
(***************************************************************************)
(* Scenarios: a run explores the states within the bounds of one of them,  *)
(* where all the bounds of its cfg together would be too many.             *)
(***************************************************************************)
Scenario(terms, commands, crashes, late) ==
    [terms |-> terms, commands |-> commands, crashes |-> crashes, late |-> late,
     servers |-> Cardinality(Server), racy |-> FALSE]

\* One leader whose log outgrows a late request.
OneLeader == Scenario(1, 1, 0, 1)

\* Two leaders with conflicting logs.
TwoLeaders == Scenario(2, 1, 0, 0)

\* A server that knew of a commit, or has voted, crashes.
Crashing == Scenario(2, 0, 1, 0)

\* Three leaders whose logs hold no-ops only.
ThreeLeaders == Scenario(3, 0, 0, 0)

\* Two servers, the third hears nothing, and replicators that step their node
\* down during its elections.
Racing(terms, crashes) ==
    [Scenario(terms, 0, crashes, 0) EXCEPT !.servers = 2, !.racy = TRUE]

RaftScenarios ==
    {OneLeader, TwoLeaders, Crashing, Racing(4, 0), Racing(3, 1)}
LeaderScenarios == {ThreeLeaders, Crashing}
AnyScenario == {Scenario(MaxTerm, MaxLog, MaxRestarts, MaxLate)}

Commands(n) == {i \in DOMAIN log[n] : log[n][i].data # NoOp}
Late == {c \in calls : c.status = "late"}

\* The main goroutine of n, in an election or before its no-op, has been stepped
\* down behind its back.
SteppedDownInElection(n) ==
    /\ loop[n] \notin {"follower", "leader"} /\ loop'[n] = loop[n]
    /\ state'[n] = "Follower" /\ currentTerm'[n] > currentTerm[n]

\* A step within the bounds of s.  A crash may leave late requests behind;
\* those do not count.
Within(s) ==
    /\ \A n \in Server : /\ currentTerm'[n] <= s.terms
                         /\ Cardinality(Commands(n)') <= s.commands
    /\ Cardinality({n \in Server : currentTerm'[n] > 0}) <= s.servers
    /\ s.racy \/ ~ \E n \in Server : SteppedDownInElection(n)
    /\ started' <= s.terms /\ restarts' <= s.crashes
    /\ \/ Cardinality(Late') <= s.late
       \/ restarts' > restarts /\ Cardinality(Late) <= s.late
       \/ restarts > 0 /\ Late' \subseteq Late

Bounded == \E s \in Scenarios : Within(s)
=============================================================================
