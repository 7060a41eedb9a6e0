# Formal model of the distributed collaborative editor

TLA+ modules, TLC runs and TLAPS proofs for the repository in `src/`: a text
editor whose document is replicated by a hand-written Raft implementation
(`internal/raft`) and merged by operational transformation (`internal/ot`).

    tlc -workers 2 -config MCRaft_<run>.cfg MCRaft
    tlc -workers 2 -config MCEditorSession_<run>.cfg MCEditorSession
    tlc -workers 2 -config <M>.cfg <M>      # M: MCRaftImplementsLog (run log),
                                            #    MCRaftFive, MCApplyPath, MCOT,
                                            #    MCLogStores, Transports
    tlapm <M>.tla                           # M: RaftProofs, RaftLogProofs,
                                            #    ApplyPathProofs, TransportProofs,
                                            #    LogStoresProofs, OTLemmas,
                                            #    OTProofs, EditorSessionProofs

`PROJECT.json` lists the runs, the code lines behind every definition (`map`),
the defects that each property has been seen to catch (`mutants`), the findings
and the hazards.

## 1. The system

| Component | State | Operations | Talks to |
|---|---|---|---|
| Raft elections (`raft.go`, `election.go`) | currentTerm, votedFor (stored); state, leaderID, timers, the votes of the election under way | runFollower, runCandidate, startElection, handleRequestVote, stepDown, persistState | peers through RequestVote calls; the stores |
| Raft replication (`replication.go`, `raft.go`) | log (stored); commitIndex; nextIndex and matchIndex per peer | runLeader, appendNoOp, handleApplyRequest, replicateOnce, handleAppendEntries, advanceCommitIndex | peers through AppendEntries calls; the apply loop |
| Apply path (`raft.go`, `future.go`) | applyCh, pendingFutures, lastApplied | Apply, applyLoop, applyCommitted, failPendingFutures, Shutdown | the WebSocket server above, the FSM below |
| Document FSM (`fsm/`) | head text, head revision, revision log, last submission id per client | Apply (duplicate check, rebase over the missed revisions, append), RevisionsSince | called by the apply loop, calls `ot`; notifies the server by onCommit |
| Operational transformation (`ot/`) | none | Validate, ApplyChangeset, Follow, Compose, DiffToChangeset | used by the FSM; copied into `client.js` |
| WebSocket server (`server/websocket.go`) | client registry, a bounded send queue per client | handleConnect, handleSubmit, onCommit, redirect | Raft's Apply; browsers |
| Browser client (`web/client.js`) | A (acknowledged), X (sent), Y (local edits), revision, submission id | edit, submit, handleAck, handleBroadcast, reconnect and catch-up | the server it is connected to |
| Bolt store (`store/boltstore.go`) | the database file: entries under byte-ordered keys, term and vote | StoreLogs, GetLog, FirstIndex, LastIndex, DeleteRange, Set | Raft |
| TCP transport (`transport.go`) | a connection per call, a handler goroutine per connection, rpcCh | SendRequestVote, SendAppendEntries, acceptLoop, handleConn, Shutdown | Raft's main goroutine; peers |
| In-memory stores and transport (`inmem.go`) | maps, cached indexes, links | the same operations, for the tests | Raft |
| Cluster set-up, `main.go` | whether this process has proposed the initial text | start, bootstrap, shutdown | all of the above |

What is hard in this code:

* **Goroutines over one mutex.** A Raft node runs one main goroutine and one
  replicator per peer. A replicator that sees a higher term calls `stepDown`
  and does not tell the main goroutine, which goes on with what it believed.
  A replicator may also outlive its leadership by one call.
* **Partial writes.** `persistState` writes term and vote in two transactions,
  and a conflicting append deletes in one and stores in another.
* **The network.** Calls get lost, and a request whose caller has given up may
  still arrive, after a newer one.
* **Votes erased within a term.** `handleAppendEntries` calls `stepDown`, which
  clears `votedFor`, also when the term is the node's own.
* **Indexes.** Unsigned `nextIndex - 1`, conflict hints of 0, the position
  `majority-1` in a sorted slice.
* **Two orders of edits.** Two users' changesets must merge to one text
  whichever comes first; results are rebased and composed again and again.
* **Futures.** Callers, the main goroutine, the replicators and the apply loop
  meet in one map keyed by log index; a replaced entry leaves its future behind.
* **Sessions.** Acknowledgements and broadcasts come from a goroutine per
  revision, queues overflow, clients reconnect and submit again, and an ACK does
  not say which submission it acknowledges.
* **Two units of length.** UTF-16 units in the browser, bytes on the server.

What makes each component correct:

* elections: one leader per term; a vote is not cast twice; the redirect hint is
  never a leader of an older term;
* replication: logs agree where terms agree, leaders hold what is committed,
  committed entries never change, the leader's counts are true;
* apply path: every accepted command is answered exactly once, and with success
  only if that command was committed;
* FSM: all replicas that applied the same log have the same text, a submission
  takes effect once;
* OT: convergence, intention, composition, minimal diffs, valid results;
* sessions: a quiet client shows the server's text; an edit is not lost.

## 2. Modules

    RaftRules --> Raft --> MCRaft --> MCRaftFive     (TLC)
                       |-> RaftImplementsLog ==> ReplicatedLog
                       |     \-> MCRaftImplementsLog (with MCRaft)
                       |-> RaftProofs                (TLAPS)
                       \-> RaftHistory
                             \-> RaftLogProofs (with RaftProofs, RaftImplementsLog)
    ApplyPath --> MCApplyPath
              \-> ApplyPathProofs                    (TLAPS)
    OT --> OTEdits --> MCOT
       |         \-> OTProofs (with OTLemmas)         (TLAPS)
       |-> OTLemmas                                   (TLAPS)
       |-> DocumentFSM  \
       \-> EditorClient --> EditorSession --> MCEditorSession
                                         \-> EditorSessionProofs (with OTLemmas)
    LogStores --> MCLogStores                ==> LogSequence
              \-> LogStoresProofs                    (TLAPS)
    TcpTransport, InmemTransport --> Transports ==> RpcCalls
                                     \-> TransportProofs (TLAPS)

`-->` is EXTENDS, `==>` "implements", checked by TLC with a refinement mapping;
that Raft implements ReplicatedLog, the transports RpcCalls and LogStores
LogSequence is proved too.
The layers meet at their abstract specifications: LogStores implements the
sequence that Raft's variable `log` is, the transports implement the calls that
Raft's `calls` are, Raft implements the committed sequence that ApplyPath and
EditorSession stand on.

### RaftRules

The decisions of `internal/raft` that are functions of their arguments: majority
size, log comparison, consistency check, conflict hint, merge of entries, commit
indexes, backing up. The loops of the code are sets with a least or greatest
element: the index `majority-1` of the sorted match indexes is the highest index
that a majority has reached, the scan for the start of a term is the least index
of the run that ends at prevIndex.

### Raft

One action per critical section. `loop[n]` is where the main goroutine of node n
is, `state[n]` is the shared field; the two may disagree, which is the point.

| Action | Code |
|---|---|
| ElectionTimeout | timer in runFollower or runCandidate, startElection |
| CandidateGivesUp | runCandidate finds that it is a Follower |
| HandleRequestVote | handleRequestVote, and the loop test after it |
| HandleVoteReply | runCandidate takes an answer from voteCh |
| AppendNoOp, HandleApplyRequest | runLeader |
| ReplicateOnce | replicateOnce up to the call |
| HandleAppendEntries | handleAppendEntries: RejectAppend, RefuseAppend, AcceptAppend |
| HandleAppendReply | replicateOnce after the call: ReplyHigherTerm, ReplySuccess, ReplyConflict |
| VoteCallFails, CallFails | an error of the transport; a call may fail although its request is still under way ("late") |
| Restart, TornPersist, TornAppend | a crash between two actions, inside persistState, inside an append |

Calls are records in `calls`: request, reply, and who waits. "live" means that
the replicator of the present leadership waits, "orphan" one of an earlier
leadership (its peerState is no longer in `r.peers`), "late" nobody.
`elections` is a history variable for the properties.

The constant `RacyStepDown` says whether a replicator may step its node down
while the main goroutine is inside an election or has not yet written its no-op.
The code allows it (TRUE). FALSE is the discipline that the algorithm needs;
section 4 shows what its absence costs, the runs with FALSE show that nothing
else is wrong, and two scenarios of the run raft show what the race leaves alone.

Choices and merges:

* The timer and startElection are one action, and so are the winning vote and
  the creation of the peers map: nothing in between reads what they write,
  except replicators of an earlier leadership, whose step-down is possible
  before and after.
* An orphan replicator handles the reply it waits for. That it may start one
  more call before it looks at its stop channel is left out.
* A refused vote of the same term carries no information for runCandidate and
  is not kept. Answers to an election that the node has left are dropped
  (`Listened`): they end in a channel nobody reads.
* A lost reply is one that is never taken or whose call fails.
* Errors of the store (a full disk) are left out: the code logs them and goes
  on, or ignores them.
* TornPersist does not consume the message that caused it, so the message may be
  delivered once more after the restart. This allows more than the code.
* The index of an entry is its position in the log.
* Futures, the FSM and the apply loop are not here; they read commitIndex and
  the log and never write either.

### OT and OTEdits

`OT` holds the functions of `internal/ot` over sequences of characters. Op lists
are the code's op slices; a partly consumed op is the head of the list. `Follow`
and `Compose` are written as loops over both lists in the order of the code's
branches. Characters have length 1, so the difference between bytes on the
server and UTF-16 units in the browser does not show here (hazard list).

`OTEdits` lets two users edit the same text at the same time (A and B), or one
user edit twice (A, then C by way of the diff, as the client does). `Changesets`
is every merged changeset of a text: in each gap an insert or none, each
character kept or deleted.

`client.js` has a copy of these functions with the same branches; EditorClient
names them (`identity`, `compose`, `follow`, `diffToChangeset`) and has its own
`JsApply`, because the browser's applyChangeset checks less than the server's.

### ReplicatedLog and RaftImplementsLog

What the consensus core promises: one sequence of committed entries that only
grows, of which every server knows a prefix. A restarted server has forgotten
its commitIndex and learns it anew. The mapping takes a server's log up to
commitIndex as what it has learned; `chosen` is a history variable added to
Raft, the longest prefix ever known, so that it outlives the servers that knew.

### RaftHistory

Raft with two more history variables, for the proofs: `leaderLog`, the last log
that the winner of each term had as Leader, and `accepted`, who has held an entry
of which term at which index while that term was its own. They are determined by
the step (`RecordHistory`) and restrain none, so what HistorySpec says about
Raft's own variables holds of Spec.

### Scenarios of MCRaft, and MCRaftFive

A cfg of MCRaft gives the bounds of the actions. All of them together would be too
many states, so the runs raft and log also have a set of `Scenarios`, records of
smaller bounds, and explore the steps that stay within
one of them (the action constraint `Bounded`). A scenario also says how many servers
hear of a term at all (`servers`), and whether a replicator may step its node down in
an election (`racy`): only the `Racing` ones of the run raft, with two servers, allow
that. The others are the same as with RacyStepDown = FALSE.

`MCRaftFive` has five servers. It follows one story instead (`Story`): who stands
in which of five terms, whom its request reaches, whom a leader sends entries to.
Every step is one of Raft's.

### ApplyPath

One node with its callers, main goroutine, replicators and apply loop as actors.
The main goroutine's place is `loop`, finer than in Raft: the moments between
two locks ("expired", "won", "leaving") are places of their own, because
Shutdown, a replicator or the apply loop may step in there.

| Action | Code |
|---|---|
| Apply, Enqueue, GiveUp, TimeOut | Apply: quick check, select on applyCh, its timers and the goroutine it leaves behind |
| Dispatch, ReturnToRun, ElectionTimeout, BecomeCandidate, WinElection, BecomeLeader | run, runFollower, runCandidate |
| AppendNoOp, LeaderCheck, HandleApplyRequest, LeaderStops, FailPendingFutures | runLeader |
| HandleVoteOrStale, HandleAppendEntries | handleRPC on the main goroutine |
| ReplicatorStepsDown, AdvanceCommitIndex | replicateOnce after its call |
| Wake, ReadIndexes, FsmApply, MarkApplied, ApplierStops | applyLoop, applyCommitted |
| CloseShutdown, FinishShutdown | Shutdown |

The other servers are the environment: an accepted AppendEntries keeps at least
the committed prefix (which Raft is checked for) and may otherwise replace the
log by entries of others or by ones this node once proposed; elections may be won
at any time. This allows more than Raft does, so what holds here holds there; for
the violations of section 4 the trace is one the code can take: an old leader in a
minority whose successor replaces and commits, and an election won during
Shutdown. Errors of the stores are left out.

### DocumentFSM, EditorClient, EditorSession

`DocumentFSM` is fsm.go as functions of a document and an entry; `EditorClient`
is client.js's handlers as functions of a tab; `EditorSession` puts tabs,
connections, servers and the committed log together.

| Action | Code |
|---|---|
| Connect, Disconnect | connectToServer, onWsOpen, onWsClose |
| Type | the user, or performRandomOp |
| SubmitTick, Resend | submitTick: the first submission, and the one after two seconds |
| Receive | onWsMessage: CONNECT_ACK, ACK, BROADCAST, REDIRECT |
| HandleConnect, ReadNext | handleConnect: registration and leader check, then its three reads |
| HandleSubmit, FutureAnswered, FutureFails | handleSubmit, which blocks its readPump on the future |
| PumpExit | readPump returns, removeClient |
| ApplyNext, OnCommit | applyCommitted and fsm.Apply; onCommit in its own goroutine |
| Commit, LoseProposal, Failover | the replicated log (ReplicatedLog): an entry is committed, lost, another server leads |
| Restart, Bootstrap | a process starts again and builds its document anew; main.go proposes the initial text |

Every typed character is a new number, so each has one author and its fate can
be followed.

The bounds of a behaviour are one record, `scenario`, which Init takes from the
constant `Scenarios`; MCEditorSession has the sets. Its field `race` lists the
orders of events in which this code goes wrong and which the behaviour may take.
The code admits all of them, and so do the actions above: Connect does not wait for
the old readPump, Resend does not ask what is under way, HandleConnect only begins to
read, and ApplyNext leaves onCommit to a goroutine. What restrains them is apart, in
the module's section "Schedules": an operator `May...` for each race, and
`ConnectAtOnce` and `ApplyAtOnce`, which are HandleConnect with its reads and ApplyNext
with its OnCommit in one step. Each is lifted by its race. A statement that only a
race could break is not checked on schedule, where it says nothing; section 4 reports
it with the race. The behaviours on schedule show that the rest is right:

| Race | On the schedule without it |
|---|---|
| callback | onCommit runs inside Apply |
| snapshot | handleConnect reads atomically |
| resend | a submission is sent again only when nothing of it is under way |
| reconnect | connections end, and servers and leaders change, only while the client has nothing unsent and waits for nothing |
| exit | a client connects again after its old readPump has returned |
| lag | a server waits with its greeting until it knows what the client knows |
| tabs | each tab has its own client id |

Choices and merges:

* The writePump and the socket are one queue, `down`, with the capacity of
  sendCh; messages of one connection keep their order.
* A server that does not lead believes in the real leader, or in nobody; a hint
  that is out of date leads to one more redirect. The client's translation of a
  Raft address into a WebSocket address (ports differ by 3920) is one to one.
* ERROR messages, which the client only logs, leave the client as it is.
* Every entry comes from MarshalEntry and every changeset from diffToChangeset or
  follow, so the FSM's branches for bytes that cannot be parsed and changesets
  that are not valid are not reached from here.
* A page that is loaded again, and an onclose event of a replaced socket that
  arrives late, are left out.

### LogStores, LogSequence

Both log stores get the same calls. A Bolt bucket is a map ordered by bytes
(external); keys have `Width` digits in base `Base`, so that the order of bytes
against the order of numbers shows at index 3 of 8.

### TcpTransport, InmemTransport, Transports, RpcCalls

`RpcCalls` is what Raft may expect: a call ends in an answer or an error, an
answer means that the request was handled, after an error it may still be
handled later, and never twice. `Transports` lets a node have either
implementation and states the contract for both. Every deadline is an alternative
that is always possible; bytes of a frame are left out, a frame that is cut off,
too long or of the wrong type ends the connection.

## 3. Passing runs

Only `stores` checks for deadlock: in the others the bounds on elections, log
length, calls and edits run out, or every call has been made. Symmetry over
servers and tabs is used in safety runs only; no rule compares them. The
runs raft and log use a VIEW that leaves out what no action reads any more and the
run's properties do not mention: the voters in the history `elections`, the peerStates of a
server that is no Leader and waits for no reply (`Peers`), and in log also
`leaderID`.

| Run | Instance | Checks |
|---|---|---|
| raft | 3 servers, 1 call under way; one leader, a command and a late request \| two leaders, two elections, a command each \| two elections and a crash, also inside a step \| RacyStepDown with 2 of the servers, 4 terms and elections \| the same with 3 and a crash | TypeOK, FollowerHint, MatchIndexSound, LogMatching, VoteIsFinal, CommittedStable |
| log | 3 servers, 1 call under way, logs of no-ops; 3 terms and elections \| 2 terms and elections, a crash | ElectionSafety, EntriesFromLeaders, LeaderCompleteness, OnlyHoldersElectable, ImplementsLog |
| apply (FairSpec) | 2 commands, queue of 1, log up to 2, 2 elections, 1 call that changes something | TypeOK, AppliedOnceInOrder, PendingOwn, RefusedNeverProposed, CommittedGetsApplied, EveryCallAnswered, LostLeadershipReported |
| session | 2 tabs, no race; 3 edits \| 2 edits, 3 connections, 1 resubmission, 1 fault \| 2 servers, 1 edit, 3 connections, 1 fault \| an initial text, 1 edit, 1 fault | ClientInStep, EditsSurvive, CommittedTakesEffect, Converged, BroadcastShown |
| retries (FairSpec) | race reconnect with 1 edit, 3 connections and 2 resubmissions \| with 2 edits of one user or two, 2 connections, 1 resubmission \| with 3 edits of one user, 2 connections, 2 resubmissions \| races callback, snapshot, reconnect and lag, 1 edit \| 2 servers, race reconnect, 1 edit, 2 resubmissions, 1 fault \| no race, 2 edits, 1 resubmission, 1 fault | SubmissionOnce, Acknowledged |
| transports | either transport, 3 calls, rpcCh of 1, Shutdown, links cut and mended at any time | ImplementsCalls, EveryCallEnds, HandlersEnd |
| stores | 8 indexes, keys of 2 digits in base 3 | StoresAgree, ImplementsSequence |
| transform | texts of 0 to 2 characters, inserts of 0 to 2 | Convergence, IntentPreserved, ResultsValid, ComposeLaw, DiffMinimal |

Why the bounds are enough to be interesting: a crash lets a voter, or the only
server that knew of a commit, forget; a late request meets a log that has grown
past it; two leaders with no-ops give conflicting suffixes. Three terms are the
smallest case in which a leader brings an entry of an old term to a majority that
a server with a newer, conflicting log could still overwrite in a fourth term
(figure 8 of the Raft paper); LeaderCompleteness would show it only there,
OnlyHoldersElectable shows it already when the entry is counted as committed. In
the transform run the inserts contain equal strings, a prefix of another, and
strings that sort before and after, and the texts all overlaps of deletes. In
ApplyPath a queue of one is full while a command waits, and two elections and one
call let a node lead, be replaced with a future pending, and lead again. In the
sessions three edits of two users give two concurrent ones and one
that is typed on top while the first is under way (X and Y both not empty); one
fault is enough to lose a proposal, time out a future, restart a server or change
the leader in every state; the third connection is the reconnection of one of two
users, or the one a redirect leads to. Three calls and a channel of one make a
handler wait for room behind one request in the channel and one being handled.
Every property has a defect of the code in the modules (operators marked "Defect")
that makes its run fail. Clusters larger than three, more terms and longer logs are
not explored; the proofs of section 6 cover them, and run five_servers shows the
one thing that changes with the size of the cluster.

## 4. Where code and documents disagree

Four runs state a sentence of the repository and find it violated:

* **race_election** (ElectionSafety, RacyStepDown = TRUE). A node led an earlier
  term; its replicator still waits for a reply. It stands for election; the reply
  arrives with a higher term and steps it down behind runCandidate, which then
  counts a vote of its own, older election and sets itself Leader of the new term,
  in which another node is Leader already. `fault_test.go:378`.
* **five_servers** (LeaderCompleteness, RacyStepDown = FALSE, no crash and no lost
  call). `replicateOnce` handles a success without asking whether the node still
  leads, and `advanceCommitIndex`, headed "(Leader only)", counts the match indexes
  of the leadership that has ended: `r.peers` is replaced only by the next
  runLeader. Node n leads term 1 and writes two entries, l leads term 2 and writes
  one, neither reaches anybody. n leads term 3 and, before its no-op is written,
  sends its two old entries to p1 and p2; p1's success is counted, p2's is still
  under way. l leads term 4 and replaces n's log by its own two entries. Now p2's
  success is handled: n, a Follower of term 4, finds index 2 on n, p1 and p2 and an
  entry of term 4 there, and commits it, although only n and l hold it. p2 is
  elected by p1 and q without it. `raft_test.go:8`. With at most four servers it
  cannot happen: the node and the leader that wrote the entry hold it, and these two
  meet every majority (section 6).
* **callbacks** (InOrder). fsm.Apply starts a goroutine for onCommit
  (`fsm.go:131`). A client that connects after a revision has been applied and
  before its goroutine has run is greeted with the revision and then sent it once
  more as a BROADCAST; it does not look at `new_rev` and applies it again. Two
  goroutines may also overtake each other. `easysync-algorithm-description.md:496`.
* **reconnect** (ClientInStep). After a lost ACK the client's own edit comes back
  in catch_up and is counted once more when its resubmission is acknowledged.
  `client.js:359`.

The modules show more of them. Each line names what to change in a cfg, and the
property that TLC then finds violated:

| Change | Property | What happens | Against |
|---|---|---|---|
| MCRaft_race_election.cfg, MaxTerm = MaxElections = 2 | EntriesFromLeaders | the replicators start before the no-op is written; one steps the node down to a higher term, and appendNoOp writes an entry with that term, which nobody has won | `raft.go:477` |
| MCRaft_race_election.cfg, five servers, MaxTerm = 1, MaxElections = 3, MaxVoteReqs = 12, RacyStepDown = FALSE | VoteOnlyOnce | a candidate that meets the leader of its own term loses its vote for itself and votes for a third server. Elections remain safe, because that leader already has a majority; the proof of ElectionSafe uses exactly this | `raft_test.go:261` |
| MCRaft_race_election.cfg without SYMMETRY, one server, SPECIFICATION FairSpec, RacyStepDown = FALSE, MaxTerm = MaxElections = 1, MaxLog = 2, MaxVoteReqs = 0 | Progress | a cluster of one server elects itself, appends and never commits: advanceCommitIndex runs only on a peer's reply | `fault_test.go:24` |
| MCApplyPath.cfg | FutureTruthful | a leader with a pending command is replaced; the new leader's entry takes the index, is committed and applied before runLeader reaches failPendingFutures, and the future of the lost command is answered with success | `raft.go:42` |
| MCApplyPath.cfg | ShutdownReportsFollower | runCandidate is past its last look at shutdownCh when Shutdown sets the state, and then sets state = Leader | `raft.go:190` |
| MCEditorSession_session.cfg, QueueCap = 1 | InOrder | a full queue drops a revision and the connection goes on | `easysync-algorithm-description.md:496` |
| MCEditorSession_session.cfg, Scenarios <- RaceSnapshot | GreetingConsistent | a commit between the reads of handleConnect gives a text with another revision's number | `easysync-algorithm-description.md:310` |
| MCEditorSession_session.cfg, Scenarios <- RaceResend | AckMeansCommitted | a submission sent twice is acknowledged twice and the second ACK is taken for the next submission, which is then forgotten | `easysync-algorithm-description.md:205` |
| MCEditorSession_session.cfg, Scenarios <- RaceReconnect | EditsSurvive | CONNECT_ACK overwrites what was typed since Y was last computed | `easysync-algorithm-description.md:498` |
| MCEditorSession_session.cfg, Scenarios <- RaceLag | Converged | a restarted server greets a client with an older revision; the client keeps its newer text under the older number | `README.md:3` |
| MCEditorSession_session.cfg, Scenarios <- RaceExit | InOrder | the old connection's exit unregisters the new one, which is sent nothing any more | `websocket.go:403` |
| MCEditorSession_retries.cfg, Scenarios <- RaceRepeating | AlwaysAcknowledged | after a lost ACK the client counts its own edit twice (run reconnect); its next submission fits no text, `fsm.go:94-102` logs and drops it without an answer, and the client submits it again for ever | `client.js:519` |
| MCEditorSession_session.cfg without SYMMETRY, Scenarios <- RaceTabs | Converged | two tabs of one browser share a client id | `README.md:47` |

Outside the models: client.js counts UTF-16 units (`client.js:158`), the server
bytes (`changeset.go:113`), so the lengths of a changeset with a character outside
ASCII do not add up on the server.

## 5. Fairness

The Go scheduler runs every runnable goroutine, timers fire and deadlines pass;
nothing is assumed about users, crashes, leader changes or messages that the code
does not retry.

* ApplyPath's `FairSpec` (apply): callers, main goroutine, apply loop, and a
  Shutdown that has begun. LostLeadershipReported has one hypothesis more,
  `PeersCall`: peers keep calling, since a peer that hears no heartbeat has a timer
  that ends in RequestVote. Without it the property does not hold, because
  runLeader has no timer.
* EditorSession's `FairSpec` (retries): the tabs' timers, delivery on an open
  connection, goroutines, the commit of a proposal that is not lost, and that a
  disconnected user connects again. The bound on resubmissions is large enough for
  the connections and faults of each scenario, so it cuts no retry short. Acknowledged
  is a promise to a client that is in step with the server; that every client which
  waits is acknowledged (AlwaysAcknowledged) is false, see section 4.
* `TransportSpec` (transports): callers, handlers and the main goroutine until it
  is stopped.
* Raft's `FairSpec` (property Progress of section 4): each node's main goroutine
  and its replicators.

## 6. Proofs

All of them hold for every finite non-empty set of servers, of commands or of
calls, for all tabs, texts and edits and for every value of the bounds, with the
assumptions named below.

| Theorem | Module | Property | Assumes |
|---|---|---|---|
| TypeCorrect | RaftProofs | TypeOK | |
| HintsSound | RaftProofs | FollowerHint | |
| ElectionSafe, VotesFinal | RaftProofs | ElectionSafety, VoteIsFinal | no race |
| LogsMatch, EntriesElected, MatchSound | RaftLogProofs | LogMatching, EntriesFromLeaders, MatchIndexSound | no race |
| LeadersComplete, HoldersElected, CommittedIsFinal | RaftLogProofs | LeaderCompleteness, OnlyHoldersElectable, CommittedStable | no race, at most 4 servers |
| RaftIsOneLog | RaftLogProofs | ImplementsLog | no race, at most 4 servers |
| TypeCorrect, AppliedOnce, PendingIsOwn, RefusalIsFinal | ApplyPathProofs | TypeOK, AppliedOnceInOrder, PendingOwn, RefusedNeverProposed | |
| TransportsKeepContract | TransportProofs | ImplementsCalls | |
| SameStores, StoreIsSequence | LogStoresProofs | StoresAgree, ImplementsSequence | |
| Converges, AllValid, ComposeIsSequence, DiffIsMinimal | OTProofs | Convergence, ResultsValid, ComposeLaw, DiffMinimal | |
| SessionTypes, OnlyOnce | EditorSessionProofs | (its TypeOK), SubmissionOnce | |
| InStep, EffectTaken, AllConverge, ShownRight | EditorSessionProofs | ClientInStep, CommittedTakesEffect, Converged, BroadcastShown | orderly |

"No race" is `RacyStepDown = FALSE`; without it ElectionSafety is false (run
race_election), and the rest of the argument goes with it. "At most 4 servers" is
`Cardinality(Server) <= 4`; with five, LeaderCompleteness is false (run
five_servers). Both are hypotheses of the theorems that need them, not assumptions
on the constants. The theorems of RaftLogProofs are about HistorySpec, RaftIsOneLog
about FullSpec, which adds RaftImplementsLog's `chosen`: Raft with history variables
that restrain no step (section 2).

"Orderly" is a hypothesis about the behaviour, `[]Orderly`: the scenario has none of
the races of section 2, and no connection's queue is full. With a race, or with a full
queue, the code violates what these theorems say (section 4), so neither can go. The
run session explores such behaviours: its queues of 10 never fill. That messages arrive
in order, that greetings are consistent, that an ACK is for the submission that waits
and that an editor stays registered are not theorems: the orderly behaviours leave out
just what could break them, so they are stated (InOrder, GreetingConsistent,
AckMeansCommitted) and reported as violated in section 4.

**Elections.** ElectionSafety is not inductive; `ElectionInv` is, and its parts are:

* LoopInv: the main goroutine and the shared state agree; a candidate campaigns in
  its current term and has voted for itself; a Leader has won its current term.
  This is what RacyStepDown = FALSE buys.
* GrantInv: a vote that is counted, on its way, or part of a won election was
  cast in a term the voter has reached, and as long as the voter is in that
  term it is a Follower with that vote.
* GrantOnce: a server grants its vote of a term to one other server.
* WinnerInv: a winner had a majority, has not fallen behind its term, and
  has granted nobody else its vote of that term. It covers a winner's vote for
  itself.
* CallInv: whoever sends AppendEntries in a term has won it. Hence only a server
  that lost the election of its term can have its vote erased within the term.

Two majorities share a server (QuorumsMeet); by GrantOnce and WinnerInv it voted
for one candidate. The lemmas follow the kinds of step: a node follows or steps
down (Demotion, Following), nothing about elections changes (Quiet), a candidate
stands (Standing), a vote is granted (Voting), an election is won (Winning), a
node crashes (Crashing); ElectionStep goes through the actions. VotesFinal uses
the same invariant: a vote for another server is erased only by a leader of the
same term, when the voter is a Candidate or Leader, and such a node has voted for
itself. FollowerHint needs an invariant of its own (`HintInv`: a Leader has won its
term, and whoever sends AppendEntries the term of its request), which the race does
not touch.

**Logs.** LogMatching does not speak of requests under way, so it is not inductive.
`LogInv` is:

* TraceInv: every log agrees, up to each of its entries, with the log that the
  Leader of that entry's term had (`leaderLog`), and holds no entry of a term that
  the server has not reached; while a Leader leads, `leaderLog` is its log.
* FreshInv: a candidate has not won the term it stands in yet.
* RequestInv: a request is a piece of its Leader's log, and a server that has
  answered yes holds it as long as it has not moved to a later term.
* PeerInv: the same for what a Leader counts as matched; nextIndex stays within the
  Leader's log plus one.

`Merging` says what a merge of handleAppendEntries keeps, `Deleting` what is left
when the process dies between the two transactions; both rest on the consistency
check meaning agreement (`Consistent`). MatchIndexSound is not implied by
LogMatching: replies are handled without a look at their term, and the invariant
has to show that a reply to an earlier leadership cannot reach the peers map of
the present one.

**Commits.** `accepted` records who held an entry of term t at index k while in
term t. An entry is chosen when servers that meet every majority have accepted it
(`Chosen`). `ChoiceInv` says that what was accepted is still held unless a later
Leader did not have it (AcceptInv), that a vote went to a log at least as up to
date as the voter's was (CandidateInv, BallotInv), and hence that the Leader of a
later term has what its voters accepted, unless a Leader in between did not
(ElectedInv). The first Leader without a chosen entry therefore cannot exist
(`ChosenStays`). `CommitInv` ties commitIndex to this: what a server or a request
calls committed is a prefix of a Leader's log that ends in a chosen entry.

advanceCommitIndex meets it in two ways. A Leader counts a majority that has
accepted an entry of its term (`Committing`). A node that is no longer Leader
counts nothing of value: all that is known is that the entry has its current term,
so it and the Leader that wrote it have accepted the entry (`LateCommit`). Two
servers meet every majority of at most four (`PairBlocks`), and no more; this is
the only place where the number of servers matters. Were the state checked before
advanceCommitIndex, LateCommit would not be needed and the bound could go.

**Refinement.** Two logs that end in chosen entries agree as far as the shorter
goes (`Meeting`), because the Leader of the later term has both entries; so each
commitIndex that moves shows a longer prefix of `chosen` or extends it, and all
other steps stutter. Crashes are ReplicatedLog's forgetting.

**ApplyPath.** `ApplierInv` says what applyCommitted carries from one critical
section to the next: the index it works on is the first one that is not applied,
and the batch it has read ends at or before the commit index. With it
AppliedOnceInOrder is inductive. PendingOwn needs that futures exist only inside
runLeader's loop (`TrackedInLeader`): every way out goes through
failPendingFutures. RefusedNeverProposed needs that a command is in applyCh once
and before it is in the log (`QueueInv`).

**Transports.** A request is in one place at a time and moves forward only
(`CallInv` of TransportProofs: RequestOnce, OnConnection). A step of either
transport is then a step of RpcCalls or a stutter.

**Log stores.** The cursor of Bolt walks the keys in the order of their bytes;
FirstIndex and LastIndex are right because that is the order of the numbers
(`KeyOrder`): the digits of a smaller number first differ from those of a larger one
at a digit that is smaller. The invariant says that the bucket holds exactly the keys
of 1..highIdx, with the entries that the map of InmemLogStore holds, so both stores
answer alike and both are LogSequence's one sequence.

**Operational transformation.** What a changeset does to a text is an *alignment*:
for each op a mark in the old and one in the new text, between which the op has kept,
deleted or inserted. `Leads(t, c, u)` says that c has such an alignment of all of t
with all of u. The loops are followed one round at a time:

* ApplyChangeset writes the text up to the mark in u and reads up to the mark in t;
* Follow and Compose take an op, or a piece of one, from the head of each list; the
  ops they have put out lead from mark to mark, and addOp, which merges an op with
  the last one, extends the alignment (`AlignAppend`). In Follow, the rounds of
  Follow(A, B) and of Follow(B, A) are taken together: after each round both have
  written the same piece of the merged text, the tie between two inserts being broken
  the same way from either side;
* DiffToChangeset walks back through the table of longest common subsequences. No
  cell of the table is larger than its neighbours by more than one (`AllGrown`), no
  edit keeps more than a cell says (`KeptBound`), and the walk keeps exactly that
  (`DiffKeeps`).

The library's induction theorems take an operator, which none of the provers can
instantiate, so induction is stated for sets of numbers (`Induction`: a set with 0
and with the successor of each of its members has all of 0..n, shown by the least
number that is missing). A recursive function is defined by CHOOSE; that a function
with its equations exists is shown the same way (`Recursion`), and what it computes
from the equations.

**Sessions, whatever the scenario.** `DocsInv` says that a server's document is what
the entries applied so far amount to, and `Distinct`, that no (client, submission id)
stands twice in a document. The FSM compares a submission with the largest id it has
seen of that client only, so Distinct needs to know that no revision has a larger id
than that. Together they give SubmissionOnce for every race, restart and
resubmission.

**Sessions without a race.** The invariant is `Core`, and each part is there for
another:

* LogInv: every entry of the log fits the document it meets. Only then does each
  one take effect, and each revision is an edit of the one before.
* TabInv: A leads to the server's text of the tab's revision, and X can be done to
  that text (`TextOK`); of the revisions that the tab does not know yet, at most one
  is its own, and its changeset is what X has become by being moved over the
  revisions in between (`Own`). So an ACK, which says neither what it acknowledges nor
  what became of it, may be taken for X.
* CarrierInv: a submission on its way, in a connection or proposed, is X as it
  was at its base revision; moved to the tab's revision it is X (`Carrier`).
  At most one place has it.
* LinkInv: what waits for a tab is the very next revisions, or the greeting and then
  those after it, up to the head revision of the server, which is the leader and
  has the tab registered under this connection. This is why messages arrive in order
  and none is missing.
* ConnsInv, AloneInv, RegisteredInv: a tab has one living readPump, a closed
  connection delivers nothing more, a registered connection is its client's.

The heart of the argument is that client and server rebase separately and agree:
the browser replaces X by Follow(B, X) for every broadcast B, the server moves the
submission from its base over the revisions it missed, and both are `Moved`, one round
of the same recursion at a time. A step that appends a revision (`Extended`) is treated
once for all tabs; the rest is a case for each action. That what the client holds after
a broadcast or a reconnection is again an edit uses the laws of OT above.

ShownRight and AllConverge speak of the screen, on which nothing of the invariant
depends: the text is composed anew from A, X and Y (`Shown`).

Model-checked only:

* what survives a racy step-down: FollowerHint is proved with it, but MatchIndexSound,
  LogMatching, VoteIsFinal and CommittedStable are only checked, in the two-server
  scenarios of the run raft. ElectionSafety and EntriesFromLeaders do not survive it
  (section 4);
* liveness (CommittedGetsApplied, EveryCallAnswered, LostLeadershipReported,
  Acknowledged, EveryCallEnds, HandlersEnd): out of the prover's reach;
* IntentPreserved and EditsSurvive, which follow single characters: they hold only
  because no character is typed twice, and a proof would have to carry whose each
  character is through the diff, Follow and Compose;

## 7. Not modelled

Of what is modelled, two things are open: the proof of EditsSurvive (section 6), and
the invariants that the liveness properties stand on (a full rpcCh has a reader, a
tracked future has someone who will answer it).

Left out, and why:

* errors of the disk: the code logs them and goes on, or ignores them, and no
  test or document says what should hold then;
* bytes: JSON, frames, HTTP and the WebSocket protocol (gorilla/websocket), bbolt's
  file format; pings and pongs, which only decide when a connection ends;
* the stable store: a map with two keys, whose durability is part of Raft
  (persistState);
* configuration, flags and logging, which keep no state;
* the page: cursor position, layout, status display, the random editor beyond the
  edits it makes; loading the page again;
* clocks: timers may fire at any moment, so nothing depends on their values, and
  nothing is said about them (that elections end, that two seconds are enough).
