----------------------------- MODULE ApplyPath -----------------------------
(***************************************************************************)
(* The way of a client's command through one RaftNode (internal/raft/      *)
(* raft.go and future.go): Apply and its timers, the queue applyCh, the    *)
(* main goroutine that appends the command and remembers its future, the   *)
(* apply loop that feeds committed entries to the FSM and answers the      *)
(* futures, failPendingFutures and Shutdown.                               *)
(*                                                                         *)
(* Four kinds of goroutine share the node: the callers of Apply, the main  *)
(* goroutine (loop), the replicators and the apply loop (applier).  An     *)
(* action is one critical section, or one step between two of them.        *)
(*                                                                         *)
(* The other servers are the environment: their calls and replies may take *)
(* leadership away, replace whatever is not committed and commit entries.  *)
(* That committed entries stay is what Raft is checked for                 *)
(* (CommittedStable); which entries may be committed and who may win are   *)
(* its business too, and are left open here.                               *)
(***************************************************************************)
EXTENDS Naturals, Sequences, FiniteSets

CONSTANTS
    Command,        \* the commands given to Apply, each in one call
    NoOp,           \* the entry of appendNoOp
    Other,          \* an entry that another server has created
    QueueCap,       \* the capacity of applyCh, 256 in the code
    MaxLog,         \* bound: the log does not grow beyond this index
    MaxElections,   \* bound: election timers that fire
    MaxCalls        \* bound: calls of other servers that take leadership
                    \* away or change the log

ASSUME EntryAssumption == NoOp # Other /\ {NoOp, Other} \cap Command = {}
ASSUME BoundAssumption ==
    /\ QueueCap \in Nat \ {0} /\ MaxLog \in Nat
    /\ MaxElections \in Nat /\ MaxCalls \in Nat

VARIABLES
    state,          \* "Follower", "Candidate" or "Leader"
    loop,           \* where the main goroutine is
    log,            \* the entries, without their terms
    commitIndex,
    lastApplied,
    applyCh,        \* commands that wait for the main goroutine
    pending,        \* pendingFutures: log index -> command
    future,         \* what each caller has been told
    notify,         \* commitNotifyCh holds its one token
    applier,        \* the apply loop: [pc, next, upTo]
    shutdown,       \* "no", "closed" (shutdownCh), "done" (state set too)
    led,            \* runLeader has started replicators, one of which may
                    \* still wait for a reply
    \* History and bounds.
    applied,        \* what fsm.Apply has been given, no-ops included
    proposed,       \* commands that have ever been in this log
    elections,
    calls

vars == <<state, loop, log, commitIndex, lastApplied, applyCh, pending, future,
          notify, applier, shutdown, led, applied, proposed, elections, calls>>
callerVars == <<applyCh, future>>
lifeVars == <<shutdown, led>>
applierVars == <<lastApplied, applier, applied>>
bounds == <<elections, calls>>

Entry == Command \cup {NoOp, Other}
Answers == {"ok", "notLeader", "leaderLost", "timeout", "shutdown"}
Closed == shutdown # "no"
Nothing == [i \in {} |-> NoOp]

(***************************************************************************)
(* The main goroutine is at the top of run, in the select of runFollower,  *)
(* past its timer ("expired"), in the select of runCandidate, past the     *)
(* winning vote ("won"), in runLeader before the no-op ("starting"), in    *)
(* its select ("leader"), at its loop test ("check"), before               *)
(* failPendingFutures ("leaving"), or it has returned.                     *)
(***************************************************************************)
Places == {"top", "follower", "expired", "candidate", "won", "starting",
           "leader", "check", "leaving", "stopped"}

\* The shape of the state: the queue keeps to its capacity, no index is
\* applied or pending that is not in the log.
TypeOK ==
    /\ state \in {"Follower", "Candidate", "Leader"}
    /\ loop \in Places
    /\ log \in Seq(Entry)
    /\ commitIndex \in 0..Len(log)
    /\ lastApplied \in 0..commitIndex
    /\ applyCh \in Seq(Command) /\ Len(applyCh) <= QueueCap
    /\ DOMAIN pending \subseteq Nat
    /\ \A i \in DOMAIN pending : pending[i] \in Command
    /\ future \in [Command -> {"none", "entering", "waiting"} \cup Answers]
    /\ notify \in BOOLEAN
    /\ applier \in [pc : {"idle", "woken", "fetch", "mark", "stopped"},
                    next : Nat, upTo : Nat]
    /\ shutdown \in {"no", "closed", "done"} /\ led \in BOOLEAN
    /\ applied \in Seq(Entry)
    /\ proposed \subseteq Command
    /\ elections \in Nat /\ calls \in Nat

\* NewRaftNode.
Init ==
    /\ state = "Follower" /\ loop = "top"
    /\ log = <<>> /\ commitIndex = 0 /\ lastApplied = 0
    /\ applyCh = <<>> /\ pending = Nothing
    /\ future = [c \in Command |-> "none"]
    /\ notify = FALSE
    /\ applier = [pc |-> "idle", next |-> 1, upTo |-> 0]
    /\ shutdown = "no" /\ led = FALSE
    /\ applied = <<>> /\ proposed = {}
    /\ elections = 0 /\ calls = 0

\* future.respond for a set of commands: only the first answer counts.
Respond(cs, answer) ==
    [c \in Command |-> IF c \in cs /\ future[c] \notin Answers
                       THEN answer ELSE future[c]]

Tracked == {pending[i] : i \in DOMAIN pending}

-----------------------------------------------------------------------------
(* Apply *)

\* The quick check.
Apply(c) ==
    /\ future[c] = "none"
    /\ future' = [future EXCEPT
           ![c] = IF state = "Leader" THEN "entering" ELSE "notLeader"]
    /\ UNCHANGED <<state, loop, log, commitIndex, applyCh, pending, notify,
                   lifeVars, proposed, applierVars, bounds>>

\* Defect: the queue has no bound.
EnqueueAlways(c) ==
    /\ future[c] = "entering"
    /\ applyCh' = Append(applyCh, c)
    /\ future' = [future EXCEPT ![c] = "waiting"]
    /\ UNCHANGED <<state, loop, log, commitIndex, pending, notify, lifeVars,
                   proposed, applierVars, bounds>>

\* The select: room in applyCh, ...
Enqueue(c) ==
    /\ future[c] = "entering"
    /\ Len(applyCh) < QueueCap
    /\ applyCh' = Append(applyCh, c)
    /\ future' = [future EXCEPT ![c] = "waiting"]
    /\ UNCHANGED <<state, loop, log, commitIndex, pending, notify, lifeVars,
                   proposed, applierVars, bounds>>

\* Defect: the caller waits for room in applyCh without a limit.
EnqueueOnly(c) ==
    /\ future[c] = "entering" /\ Closed
    /\ future' = Respond({c}, "shutdown")
    /\ UNCHANGED <<state, loop, log, commitIndex, applyCh, pending, notify,
                   lifeVars, proposed, applierVars, bounds>>

\* ... the timeout, or shutdownCh.
GiveUp(c) ==
    /\ future[c] = "entering"
    /\ \/ future' = Respond({c}, "timeout")
       \/ Closed /\ future' = Respond({c}, "shutdown")
    /\ UNCHANGED <<state, loop, log, commitIndex, applyCh, pending, notify,
                   lifeVars, proposed, applierVars, bounds>>

\* The goroutine that Apply leaves behind.  The command stays where it is: in
\* applyCh, in the log, in pendingFutures.
TimeOut(c) ==
    /\ future[c] = "waiting"
    /\ \/ future' = Respond({c}, "timeout")
       \/ Closed /\ future' = Respond({c}, "shutdown")
    /\ UNCHANGED <<state, loop, log, commitIndex, applyCh, pending, notify,
                   lifeVars, proposed, applierVars, bounds>>

-----------------------------------------------------------------------------
(* The main goroutine *)

\* run: shutdownCh, then the state.
Dispatch ==
    /\ loop = "top"
    /\ loop' = IF Closed THEN "stopped"
               ELSE [Follower |-> "follower", Candidate |-> "candidate",
                     Leader |-> "starting"][state]
    /\ led' = (led \/ loop' = "starting")
    /\ UNCHANGED <<state, log, commitIndex, callerVars, pending, notify,
                   shutdown, proposed, applierVars, bounds>>

\* runFollower and runCandidate return on shutdownCh; runCandidate also when
\* its timer fires or somebody has made the node a Follower.
ReturnToRun ==
    /\ \/ loop \in {"follower", "candidate"} /\ Closed
       \/ loop = "candidate"
    /\ loop' = "top"
    /\ UNCHANGED <<state, log, commitIndex, callerVars, pending, notify,
                   lifeVars, proposed, applierVars, bounds>>

\* The follower's timer fires; then it takes the lock.
ElectionTimeout ==
    /\ loop = "follower" /\ elections < MaxElections
    /\ elections' = elections + 1
    /\ loop' = "expired"
    /\ UNCHANGED <<state, log, commitIndex, callerVars, pending, notify,
                   lifeVars, proposed, applierVars, calls>>

BecomeCandidate ==
    /\ loop = "expired"
    /\ state' = "Candidate" /\ loop' = "top"
    /\ UNCHANGED <<log, commitIndex, callerVars, pending, notify, lifeVars,
                   proposed, applierVars, bounds>>

\* The vote that completes a majority; then runCandidate takes the lock again.
WinElection ==
    /\ loop = "candidate"
    /\ loop' = "won"
    /\ UNCHANGED <<state, log, commitIndex, callerVars, pending, notify,
                   lifeVars, proposed, applierVars, bounds>>

BecomeLeader ==
    /\ loop = "won"
    /\ state' = "Leader" /\ loop' = "top"
    /\ UNCHANGED <<log, commitIndex, callerVars, pending, notify, lifeVars,
                   proposed, applierVars, bounds>>

AppendNoOp ==
    /\ loop = "starting" /\ Len(log) < MaxLog
    /\ log' = Append(log, NoOp)
    /\ loop' = "check"
    /\ UNCHANGED <<state, commitIndex, callerVars, pending, notify, lifeVars,
                   proposed, applierVars, bounds>>

\* The test of runLeader's loop.
LeaderCheck ==
    /\ loop = "check"
    /\ loop' = IF state = "Leader" THEN "leader" ELSE "leaving"
    /\ UNCHANGED <<state, log, commitIndex, callerVars, pending, notify,
                   lifeVars, proposed, applierVars, bounds>>

\* The command is stored and its future is registered at its index.
Register(c) ==
    /\ log' = Append(log, c)
    /\ pending' = [i \in DOMAIN pending \cup {Len(log')} |->
                      IF i = Len(log') THEN c ELSE pending[i]]

\* Defect: the state is looked at when the entry has been stored.
StoreThenCheck ==
    /\ loop = "leader" /\ applyCh # <<>> /\ Len(log) < MaxLog
    /\ LET c == Head(applyCh)
       IN  /\ applyCh' = Tail(applyCh)
           /\ log' = Append(log, c)
           /\ proposed' = proposed \cup {c}
           /\ IF state = "Leader"
              THEN /\ pending' = [i \in DOMAIN pending \cup {Len(log')} |->
                                     IF i = Len(log') THEN c ELSE pending[i]]
                   /\ UNCHANGED future
              ELSE /\ future' = Respond({c}, "notLeader")
                   /\ UNCHANGED pending
    /\ loop' = "check"
    /\ UNCHANGED <<state, commitIndex, notify, lifeVars, applierVars, bounds>>

\* handleApplyRequest.
HandleApplyRequest ==
    /\ loop = "leader" /\ applyCh # <<>>
    /\ LET c == Head(applyCh)
       IN  /\ applyCh' = Tail(applyCh)
           /\ \/ /\ state = "Leader" /\ Len(log) < MaxLog
                 /\ Register(c)
                 /\ proposed' = proposed \cup {c}
                 /\ UNCHANGED future
              \/ /\ state # "Leader"
                 /\ future' = Respond({c}, "notLeader")
                 /\ UNCHANGED <<log, pending, proposed>>
    /\ loop' = "check"
    /\ UNCHANGED <<state, commitIndex, notify, lifeVars, applierVars, bounds>>

\* runLeader notices shutdownCh.
LeaderStops ==
    /\ loop = "leader" /\ Closed
    /\ loop' = "leaving"
    /\ UNCHANGED <<state, log, commitIndex, callerVars, pending, notify,
                   lifeVars, proposed, applierVars, bounds>>

\* Defect: the futures are answered and stay in the map.
AnswerPendingFutures ==
    /\ loop = "leaving"
    /\ future' = Respond(Tracked, "leaderLost")
    /\ loop' = "top"
    /\ UNCHANGED <<state, log, commitIndex, applyCh, pending, notify, lifeVars,
                   proposed, applierVars, bounds>>

\* failPendingFutures, and runLeader returns.
FailPendingFutures ==
    /\ loop = "leaving"
    /\ future' = Respond(Tracked, "leaderLost")
    /\ pending' = Nothing
    /\ loop' = "top"
    /\ UNCHANGED <<state, log, commitIndex, applyCh, notify, lifeVars,
                   proposed, applierVars, bounds>>

-----------------------------------------------------------------------------
(* The other servers *)

\* Defect: runLeader goes back to its select without a look at the state.
AfterRPCStay(st) ==
    IF loop = "candidate" /\ st # "Candidate" THEN "top" ELSE loop

\* Where the main goroutine goes after an RPC: runCandidate returns when the
\* node has become a Follower, runLeader tests its loop.
AfterRPC(st) ==
    CASE loop = "follower"  -> "follower"
      [] loop = "candidate" -> IF st = "Candidate" THEN "candidate" ELSE "top"
      [] loop = "leader"    -> "check"

Listening == loop \in {"follower", "candidate", "leader"}

\* An RPC of an older term, which changes nothing, or a RequestVote of a newer
\* one, which makes the node a Follower.
HandleVoteOrStale ==
    /\ Listening
    /\ \/ UNCHANGED <<state, calls>>
       \/ /\ state # "Follower" /\ calls < MaxCalls
          /\ state' = "Follower" /\ calls' = calls + 1
    /\ loop' = AfterRPC(state')
    /\ UNCHANGED <<log, commitIndex, callerVars, pending, notify, lifeVars,
                   proposed, applierVars, elections>>

\* notifyCommit, when the commit index has moved: one token at the most.
NotifyCommit == notify' = (notify \/ commitIndex' > commitIndex)

(***************************************************************************)
(* An AppendEntries that is accepted: the node follows, the log keeps its  *)
(* first k entries (the committed ones at least) and may get one more, of  *)
(* another server or one that this node once proposed and another has kept *)
(* for it; the commit index may follow and the apply loop is told.         *)
(***************************************************************************)
HandleAppendEntries ==
    /\ Listening /\ calls < MaxCalls
    /\ \E k \in commitIndex..Len(log) : \E e \in {Other} \cup proposed :
           \/ log' = Append(SubSeq(log, 1, k), e) /\ k < MaxLog
           \/ log' = log
    /\ commitIndex' \in commitIndex..Len(log')
    /\ NotifyCommit
    /\ state' = "Follower" /\ loop' = AfterRPC("Follower")
    /\ calls' = calls + 1
    /\ UNCHANGED <<callerVars, pending, lifeVars, proposed, applierVars,
                   elections>>

\* A replicator, of this leadership or an earlier one, sees a higher term.
ReplicatorStepsDown ==
    /\ led /\ state # "Follower" /\ calls < MaxCalls
    /\ state' = "Follower" /\ calls' = calls + 1
    /\ UNCHANGED <<loop, log, commitIndex, callerVars, pending, notify,
                   lifeVars, proposed, applierVars, elections>>

\* A replicator's success moves the commit index.
AdvanceCommitIndex ==
    /\ led
    /\ \E k \in (commitIndex + 1)..Len(log) : commitIndex' = k
    /\ NotifyCommit
    /\ UNCHANGED <<state, loop, log, callerVars, pending, lifeVars, proposed,
                   applierVars, bounds>>

-----------------------------------------------------------------------------
(* The apply loop *)

Wake ==
    /\ applier.pc = "idle" /\ notify
    /\ notify' = FALSE
    /\ applier' = [applier EXCEPT !.pc = "woken"]
    /\ UNCHANGED <<state, loop, log, commitIndex, lastApplied, callerVars,
                   pending, lifeVars, applied, proposed, bounds>>

\* Defect: everything in the log is taken for committed.
ReadLastIndex ==
    /\ applier.pc = "woken"
    /\ applier' = [pc |-> IF lastApplied < Len(log) THEN "fetch" ELSE "idle",
                   next |-> lastApplied + 1, upTo |-> Len(log)]
    /\ UNCHANGED <<state, loop, log, commitIndex, lastApplied, callerVars,
                   pending, notify, lifeVars, applied, proposed, bounds>>

\* applyCommitted reads lastApplied and commitIndex once.
ReadIndexes ==
    /\ applier.pc = "woken"
    /\ applier' = [pc |-> IF lastApplied < commitIndex THEN "fetch" ELSE "idle",
                   next |-> lastApplied + 1, upTo |-> commitIndex]
    /\ UNCHANGED <<state, loop, log, commitIndex, lastApplied, callerVars,
                   pending, notify, lifeVars, applied, proposed, bounds>>

\* GetLog and fsm.Apply, outside the lock.
FsmApply ==
    /\ applier.pc = "fetch"
    /\ applied' = Append(applied, log[applier.next])
    /\ applier' = [applier EXCEPT !.pc = "mark"]
    /\ UNCHANGED <<state, loop, log, commitIndex, lastApplied, callerVars,
                   pending, notify, lifeVars, proposed, bounds>>

\* Defect: a token that has come meanwhile is taken for the one of this batch.
DrainedBatch ==
    /\ applier' = [applier EXCEPT !.next = @ + 1,
                       !.pc = IF applier.next < applier.upTo THEN "fetch"
                              ELSE "idle"]
    /\ notify' = (notify /\ applier.next < applier.upTo)

\* The loop goes on to upTo, and back to the select.
NextInBatch ==
    /\ applier' = [applier EXCEPT !.next = @ + 1,
                       !.pc = IF applier.next < applier.upTo THEN "fetch"
                              ELSE "idle"]
    /\ UNCHANGED notify

\* lastApplied, and the future that waits at this index.
MarkApplied ==
    /\ applier.pc = "mark"
    /\ lastApplied' = applier.next
    /\ future' = IF applier.next \in DOMAIN pending
                 THEN Respond({pending[applier.next]}, "ok") ELSE future
    /\ pending' = [i \in DOMAIN pending \ {applier.next} |-> pending[i]]
    /\ NextInBatch
    /\ UNCHANGED <<state, loop, log, commitIndex, applyCh, lifeVars, applied,
                   proposed, bounds>>

ApplierStops ==
    /\ applier.pc = "idle" /\ Closed
    /\ applier' = [applier EXCEPT !.pc = "stopped"]
    /\ UNCHANGED <<state, loop, log, commitIndex, lastApplied, callerVars,
                   pending, notify, lifeVars, applied, proposed, bounds>>

-----------------------------------------------------------------------------
(* Shutdown: shutdownCh is closed, then the lock is taken. *)

CloseShutdown ==
    /\ shutdown = "no"
    /\ shutdown' = "closed"
    /\ UNCHANGED <<state, loop, log, commitIndex, callerVars, pending, notify,
                   led, proposed, applierVars, bounds>>

FinishShutdown ==
    /\ shutdown = "closed"
    /\ shutdown' = "done"
    /\ state' = "Follower"
    /\ future' = Respond(Tracked, "shutdown")
    /\ pending' = Nothing
    /\ UNCHANGED <<loop, log, commitIndex, applyCh, notify, led, proposed,
                   applierVars, bounds>>

-----------------------------------------------------------------------------
CallerStep(c) == Enqueue(c) \/ GiveUp(c) \/ TimeOut(c)

MainStep ==
    \/ Dispatch \/ ReturnToRun \/ BecomeCandidate \/ BecomeLeader
    \/ AppendNoOp \/ LeaderCheck \/ HandleApplyRequest \/ LeaderStops
    \/ FailPendingFutures

PeerStep ==
    \/ ElectionTimeout \/ WinElection \/ HandleVoteOrStale
    \/ HandleAppendEntries \/ ReplicatorStepsDown \/ AdvanceCommitIndex

ApplierStep == Wake \/ ReadIndexes \/ FsmApply \/ MarkApplied \/ ApplierStops

Next ==
    \/ \E c \in Command : Apply(c) \/ CallerStep(c)
    \/ MainStep
    \/ PeerStep
    \/ ApplierStep
    \/ CloseShutdown
    \/ FinishShutdown

Spec == Init /\ [][Next]_vars

(***************************************************************************)
(* Every goroutine that can go on does, time.After fires, and Shutdown     *)
(* returns once it has begun.  Nothing is assumed of the other servers, of *)
(* elections, or that Shutdown is ever called.                             *)
(***************************************************************************)
FairSpec ==
    /\ Spec
    /\ \A c \in Command : WF_vars(CallerStep(c))
    /\ WF_vars(MainStep) /\ WF_vars(ApplierStep) /\ WF_vars(FinishShutdown)

\* The other servers keep calling: the ones that no longer hear from this
\* Leader have timers that end in RequestVote calls.
PeersCall == WF_vars(HandleVoteOrStale)

-----------------------------------------------------------------------------
(* Properties *)

(***************************************************************************)
(* The FSM is given exactly the committed log, every index once and in     *)
(* order (raft_test.go:9), although applyCommitted reads the indexes once, *)
(* fetches outside the lock and marks in another critical section, while   *)
(* commits go on and the rest of the log is replaced.                      *)
(***************************************************************************)
AppliedOnceInOrder ==
    /\ Len(applied) = lastApplied + IF applier.pc = "mark" THEN 1 ELSE 0
    /\ Len(applied) <= commitIndex
    /\ \A i \in DOMAIN applied : applied[i] = log[i]

(***************************************************************************)
(* While the node is Leader, the future at an index belongs to the entry   *)
(* at that index: nothing is left in pendingFutures from an earlier        *)
(* leadership whose entries have been replaced (raft.go:41).               *)
(***************************************************************************)
PendingOwn ==
    state = "Leader" =>
        \A i \in DOMAIN pending : i <= Len(log) /\ log[i] = pending[i]

(***************************************************************************)
(* ErrNotLeader is a promise: the command has never been in the log and    *)
(* never will be, so the caller may take it to another server.             *)
(***************************************************************************)
RefusedNeverProposed ==
    \A c \in Command : future[c] = "notLeader" => c \notin proposed

(***************************************************************************)
(* No lost wake-up: what is committed is applied in the end, unless the    *)
(* node shuts down, although notifyCommit drops its signal when one is     *)
(* waiting (raft.go:585).                                                  *)
(***************************************************************************)
CommittedGetsApplied ==
    \A k \in 1..MaxLog :
        (commitIndex >= k) ~> (lastApplied >= k \/ Closed)

(***************************************************************************)
(* Nobody waits for ever on an ApplyFuture: not when applyCh is full and   *)
(* the node has stopped leading, not when the queue is never read again,   *)
(* not when the node shuts down (raft.go:138).                             *)
(***************************************************************************)
EveryCallAnswered ==
    \A c \in Command : (future[c] = "entering") ~> (future[c] \in Answers)

(***************************************************************************)
(* A node that has lost leadership lets go of every future it tracks, as   *)
(* long as its peers call it: a replicator that steps it down does not     *)
(* wake runLeader, which has no timer and waits for the next call of a     *)
(* peer (raft.go:415).                                                     *)
(***************************************************************************)
LostLeadershipReported ==
    PeersCall => \A c \in Command :
        (c \in Tracked /\ state # "Leader") ~> (c \notin Tracked)

(***************************************************************************)
(* A future that is resolved without an error says that its entry was      *)
(* committed and applied ("Resolved when the entry is committed and        *)
(* applied to the FSM", raft.go:42).                                       *)
(***************************************************************************)
FutureTruthful ==
    \A c \in Command :
        future[c] = "ok" => \E i \in DOMAIN applied : applied[i] = c

(***************************************************************************)
(* "After Shutdown, the node reports as Follower (not Leader)"             *)
(* (raft.go:190).                                                          *)
(***************************************************************************)
ShutdownReportsFollower == shutdown = "done" => state # "Leader"

=============================================================================
