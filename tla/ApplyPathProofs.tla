-------------------------- MODULE ApplyPathProofs --------------------------
(***************************************************************************)
(* Proofs about ApplyPath, for every set of commands, queue capacity and   *)
(* bound: the shape of the state, that the FSM is given the committed log  *)
(* once and in order, that a Leader's futures belong to its own entries,   *)
(* and that a refused command is never in the log.                         *)
(***************************************************************************)
EXTENDS ApplyPath, TLAPS

-----------------------------------------------------------------------------
(* The inductive invariants *)

\* What the apply loop carries from one critical section to the next: the
\* index it works on is the first one that is not applied, and the batch it
\* has read ends at or before the commit index.
ApplierInv ==
    applier.pc \in {"fetch", "mark"} =>
        /\ applier.next = lastApplied + 1
        /\ applier.next <= applier.upTo
        /\ applier.upTo <= commitIndex

\* Futures are tracked only inside runLeader's loop: every way out of it goes
\* through failPendingFutures.  Log indexes start at 1.
TrackedInLeader ==
    /\ loop \notin {"leader", "check", "leaving"} => DOMAIN pending = {}
    /\ 0 \notin DOMAIN pending

\* A command is in applyCh once, before it is in the log; a caller that is
\* not past the queue yet has a command that is in neither.
QueueInv ==
    /\ \A i, j \in DOMAIN applyCh : applyCh[i] = applyCh[j] => i = j
    /\ \A i \in DOMAIN applyCh :
           /\ applyCh[i] \notin proposed
           /\ future[applyCh[i]] \notin {"none", "entering", "notLeader"}
    /\ \A c \in Command :
           future[c] \in {"none", "entering"} => c \notin proposed

AppliedInv == TypeOK /\ ApplierInv /\ AppliedOnceInOrder
LeaderInv == TypeOK /\ TrackedInLeader /\ PendingOwn
RefusalInv == TypeOK /\ QueueInv /\ RefusedNeverProposed

-----------------------------------------------------------------------------
(* The operators *)

\* future.respond changes no future that has its answer and invents none.
LEMMA RespondType ==
    ASSUME TypeOK, NEW cs, NEW answer \in Answers
    PROVE  Respond(cs, answer)
               \in [Command -> {"none", "entering", "waiting"} \cup Answers]
BY DEF Respond, TypeOK

\* Where the main goroutine goes after an RPC is one of its places.
LEMMA AfterRPCType ==
    ASSUME Listening, NEW st
    PROVE  AfterRPC(st) \in {"follower", "candidate", "top", "check"}
BY DEF AfterRPC, Listening

\* An accepted AppendEntries keeps the committed entries, and the log is a
\* sequence of entries again.
LEMMA ReplacedLog ==
    ASSUME TypeOK, HandleAppendEntries
    PROVE  /\ log' \in Seq(Entry)
           /\ commitIndex <= Len(log')
           /\ \A i \in 1..commitIndex : log'[i] = log[i]
<1> USE DEF TypeOK
<1>1. PICK k \in commitIndex..Len(log), e \in {Other} \cup proposed :
          \/ log' = Append(SubSeq(log, 1, k), e) /\ k < MaxLog
          \/ log' = log
  BY DEF HandleAppendEntries
<1>2. CASE log' = log
  BY <1>2
<1>3. CASE log' = Append(SubSeq(log, 1, k), e)
  <2>1. /\ e \in Entry /\ k \in Nat /\ k <= Len(log)
        /\ commitIndex \in Nat /\ commitIndex <= k
    BY DEF Entry
  <2>2. /\ SubSeq(log, 1, k) \in Seq(Entry)
        /\ Len(SubSeq(log, 1, k)) = k
        /\ \A i \in 1..k : SubSeq(log, 1, k)[i] = log[i]
    BY <2>1
  <2> QED
    BY <1>3, <2>1, <2>2
<1> QED
  BY <1>1, <1>2, <1>3

\* The loop of applyCommitted goes on by one index, or ends at upTo.
LEMMA BatchStep ==
    ASSUME applier \in [pc : {"idle", "woken", "fetch", "mark", "stopped"},
                        next : Nat, upTo : Nat],
           NextInBatch
    PROVE  /\ applier' \in [pc : {"fetch", "idle"}, next : Nat, upTo : Nat]
           /\ applier'.next = applier.next + 1
           /\ applier'.upTo = applier.upTo
           /\ applier'.pc = "fetch" => applier.next < applier.upTo
<1>1. applier' = [pc |-> IF applier.next < applier.upTo THEN "fetch" ELSE "idle",
                  next |-> applier.next + 1, upTo |-> applier.upTo]
  BY DEF NextInBatch
<1>2. applier.next \in Nat /\ applier.upTo \in Nat
  OBVIOUS
<1> QED
  BY <1>1, <1>2

-----------------------------------------------------------------------------
(* The shape of the state *)

\* NewRaftNode.
LEMMA InitType == Init => TypeOK /\ ApplierInv
<1> SUFFICES ASSUME Init PROVE TypeOK /\ ApplierInv
  OBVIOUS
<1> USE DEF Init
<1>1. /\ log \in Seq(Entry) /\ commitIndex \in 0..Len(log)
      /\ applyCh \in Seq(Command) /\ applied \in Seq(Entry)
  OBVIOUS
<1>2. Len(applyCh) <= QueueCap
  BY BoundAssumption
<1>3. DOMAIN pending \subseteq Nat /\ \A i \in DOMAIN pending : pending[i] \in Command
  BY DEF Nothing
<1>4. applier \in [pc : {"idle", "woken", "fetch", "mark", "stopped"},
                   next : Nat, upTo : Nat]
  OBVIOUS
<1>5. future \in [Command -> {"none", "entering", "waiting"} \cup Answers]
  OBVIOUS
<1>6. ApplierInv
  BY DEF ApplierInv
<1> QED
  BY <1>1, <1>2, <1>3, <1>4, <1>5, <1>6 DEF TypeOK, Places

\* Every step keeps the shape of the state and what the apply loop relies on.
LEMMA TypeStep ==
    ASSUME TypeOK, ApplierInv, [Next]_vars
    PROVE  TypeOK' /\ ApplierInv'
<1> USE DEF TypeOK, ApplierInv, callerVars, lifeVars, applierVars, bounds
<1>1. ASSUME NEW c \in Command, Apply(c)
      PROVE  TypeOK' /\ ApplierInv'
  BY <1>1 DEF Apply, Answers
<1>2. ASSUME NEW c \in Command, Enqueue(c)
      PROVE  TypeOK' /\ ApplierInv'
  <2>1. applyCh' \in Seq(Command) /\ Len(applyCh') <= QueueCap
    BY <1>2, BoundAssumption DEF Enqueue
  <2> QED
    BY <1>2, <2>1 DEF Enqueue
<1>3. ASSUME NEW c \in Command, GiveUp(c) \/ TimeOut(c)
      PROVE  TypeOK' /\ ApplierInv'
  <2>1. future' \in [Command -> {"none", "entering", "waiting"} \cup Answers]
    BY <1>3, RespondType DEF GiveUp, TimeOut, Answers
  <2> QED
    BY <1>3, <2>1 DEF GiveUp, TimeOut
<1>4. CASE Dispatch
  <2>1. loop' \in Places /\ led' \in BOOLEAN
    BY <1>4 DEF Dispatch, Places
  <2> QED
    BY <1>4, <2>1 DEF Dispatch
<1>5. CASE ReturnToRun \/ LeaderCheck \/ LeaderStops \/ WinElection
  <2>1. loop' \in Places
    BY <1>5 DEF ReturnToRun, LeaderCheck, LeaderStops, WinElection, Places
  <2>2. UNCHANGED <<state, log, commitIndex, callerVars, pending, notify,
                    lifeVars, proposed, applierVars, bounds>>
    BY <1>5 DEF ReturnToRun, LeaderCheck, LeaderStops, WinElection
  <2> QED
    BY <2>1, <2>2
<1>6. CASE ElectionTimeout
  BY <1>6 DEF ElectionTimeout, Places
<1>7. CASE BecomeCandidate \/ BecomeLeader
  BY <1>7 DEF BecomeCandidate, BecomeLeader, Places
<1>8. CASE AppendNoOp
  <2>1. log' \in Seq(Entry) /\ Len(log') = Len(log) + 1
    BY <1>8 DEF AppendNoOp, Entry
  <2> QED
    BY <1>8, <2>1 DEF AppendNoOp, Places
<1>9. CASE HandleApplyRequest
  <2>1. Head(applyCh) \in Command /\ Tail(applyCh) \in Seq(Command)
        /\ Len(Tail(applyCh)) <= QueueCap
    BY <1>9, BoundAssumption DEF HandleApplyRequest, Register
  <2>2. CASE state = "Leader" /\ log' = Append(log, Head(applyCh))
             /\ pending' = [i \in DOMAIN pending \cup {Len(log')} |->
                               IF i = Len(log') THEN Head(applyCh)
                               ELSE pending[i]]
             /\ proposed' = proposed \cup {Head(applyCh)}
             /\ UNCHANGED future
    <3>1. log' \in Seq(Entry) /\ Len(log') = Len(log) + 1
      BY <2>1, <2>2 DEF Entry
    <3>2. DOMAIN pending' \subseteq Nat
          /\ \A i \in DOMAIN pending' : pending'[i] \in Command
      BY <2>1, <2>2, <3>1
    <3> QED
      BY <1>9, <2>1, <2>2, <3>1, <3>2 DEF HandleApplyRequest, Register, Places
  <2>3. CASE future' = Respond({Head(applyCh)}, "notLeader")
             /\ UNCHANGED <<log, pending, proposed>>
    BY <1>9, <2>1, <2>3, RespondType DEF HandleApplyRequest, Register, Places, Answers
  <2> QED
    BY <1>9, <2>2, <2>3 DEF HandleApplyRequest, Register
<1>10. CASE FailPendingFutures
  BY <1>10, RespondType
     DEF FailPendingFutures, Nothing, Places, Answers
<1>11. CASE HandleVoteOrStale
  BY <1>11, AfterRPCType DEF HandleVoteOrStale, Places
<1>12. CASE HandleAppendEntries
  <2>1. log' \in Seq(Entry) /\ commitIndex <= Len(log')
    BY <1>12, ReplacedLog
  <2>2. commitIndex' \in commitIndex..Len(log') /\ notify' \in BOOLEAN
    BY <1>12 DEF HandleAppendEntries, NotifyCommit
  <2>3. commitIndex' \in 0..Len(log') /\ lastApplied \in 0..commitIndex'
        /\ commitIndex <= commitIndex'
    BY <2>1, <2>2
  <2> QED
    BY <1>12, <2>1, <2>2, <2>3, AfterRPCType DEF HandleAppendEntries, Places
<1>13. CASE ReplicatorStepsDown
  BY <1>13 DEF ReplicatorStepsDown
<1>14. CASE AdvanceCommitIndex
  <2>1. commitIndex' \in 0..Len(log) /\ commitIndex < commitIndex'
        /\ notify' \in BOOLEAN
    BY <1>14 DEF AdvanceCommitIndex, NotifyCommit
  <2> QED
    BY <1>14, <2>1 DEF AdvanceCommitIndex
<1>15. CASE Wake \/ ApplierStops
  BY <1>15 DEF Wake, ApplierStops
<1>16. CASE ReadIndexes
  BY <1>16 DEF ReadIndexes
<1>17. CASE FsmApply
  <2>1. applier.next \in 1..Len(log)
    BY <1>17 DEF FsmApply
  <2>2. applied' \in Seq(Entry)
    BY <1>17, <2>1 DEF FsmApply
  <2> QED
    BY <1>17, <2>2 DEF FsmApply
<1>18. CASE MarkApplied
  <2>1. future' \in [Command -> {"none", "entering", "waiting"} \cup Answers]
    BY <1>18, RespondType DEF MarkApplied, Answers
  <2>2. DOMAIN pending' \subseteq Nat
        /\ \A i \in DOMAIN pending' : pending'[i] \in Command
    BY <1>18 DEF MarkApplied
  <2>3. lastApplied' \in 0..commitIndex /\ applier.next = lastApplied'
        /\ applier.upTo <= commitIndex
    BY <1>18 DEF MarkApplied
  <2>4. /\ applier' \in [pc : {"fetch", "idle"}, next : Nat, upTo : Nat]
        /\ applier'.next = applier.next + 1
        /\ applier'.upTo = applier.upTo
        /\ applier'.pc = "fetch" => applier.next < applier.upTo
    BY <1>18, BatchStep DEF MarkApplied
  <2>5. TypeOK'
    BY <1>18, <2>1, <2>2, <2>3, <2>4 DEF MarkApplied, NextInBatch
  <2>6. ApplierInv'
    BY <1>18, <2>3, <2>4 DEF MarkApplied
  <2> QED
    BY <2>5, <2>6
<1>19. CASE CloseShutdown
  BY <1>19 DEF CloseShutdown
<1>20. CASE FinishShutdown
  BY <1>20, RespondType DEF FinishShutdown, Nothing, Answers
<1>21. CASE UNCHANGED vars
  BY <1>21 DEF vars
<1> QED
  BY <1>1, <1>2, <1>3, <1>4, <1>5, <1>6, <1>7, <1>8, <1>9, <1>10, <1>11,
     <1>12, <1>13, <1>14, <1>15, <1>16, <1>17, <1>18, <1>19, <1>20, <1>21
     DEF Next, CallerStep, MainStep, PeerStep, ApplierStep

\* Type correctness: the queue of ApplyPath keeps to its capacity and no
\* index beyond the log is committed or applied, for any number of commands.
THEOREM TypeCorrect == Spec => []TypeOK
<1>1. Init => TypeOK /\ ApplierInv
  BY InitType
<1>2. TypeOK /\ ApplierInv /\ [Next]_vars => TypeOK' /\ ApplierInv'
  BY TypeStep
<1> QED
  BY <1>1, <1>2, PTL DEF Spec

-----------------------------------------------------------------------------
(* What the FSM is given *)

\* What is applied lies below the commit index, so a step that keeps the log up
\* to there and leaves the apply loop alone keeps it right.
LEMMA AppliedKept ==
    ASSUME applied \in Seq(Entry), commitIndex \in Nat, commitIndex' \in Nat,
           AppliedOnceInOrder, commitIndex <= commitIndex',
           \A i \in 1..commitIndex : log'[i] = log[i],
           UNCHANGED applierVars
    PROVE  AppliedOnceInOrder'
<1>1. UNCHANGED <<applied, lastApplied, applier>>
  BY DEF applierVars
<1>2. Len(applied) <= commitIndex /\ DOMAIN applied = 1..Len(applied)
      /\ Len(applied) \in Nat
  BY DEF AppliedOnceInOrder
<1>3. \A i \in DOMAIN applied : applied'[i] = log'[i]
  BY <1>1, <1>2 DEF AppliedOnceInOrder
<1> QED
  BY <1>1, <1>2, <1>3 DEF AppliedOnceInOrder

\* No step takes back what is applied or replaces an entry below the commit
\* index, and only FsmApply adds to what is applied.
LEMMA AppliedStep ==
    ASSUME AppliedInv, [Next]_vars
    PROVE  AppliedInv'
<1> TypeOK' /\ ApplierInv'
  BY TypeStep DEF AppliedInv
<1> SUFFICES AppliedOnceInOrder'
  BY DEF AppliedInv
<1> USE DEF AppliedInv, TypeOK, AppliedOnceInOrder, callerVars, lifeVars,
            applierVars, bounds
<1>1. ASSUME UNCHANGED <<log, commitIndex, applierVars>>
      PROVE  AppliedOnceInOrder'
  BY <1>1
<1>2. ASSUME NEW e \in Entry, log' = Append(log, e),
             UNCHANGED <<commitIndex, applierVars>>
      PROVE  AppliedOnceInOrder'
  <2>1. \A i \in 1..commitIndex : log'[i] = log[i]
    BY <1>2
  <2>2. /\ applied \in Seq(Entry) /\ commitIndex \in Nat
        /\ AppliedOnceInOrder
        /\ UNCHANGED <<commitIndex, applierVars>>
    BY <1>2
  <2> HIDE DEF AppliedInv, TypeOK, AppliedOnceInOrder, applierVars
  <2> QED
    BY <2>1, <2>2, AppliedKept
<1>3. CASE HandleAppendEntries
  <2>1. commitIndex <= Len(log') /\ \A i \in 1..commitIndex : log'[i] = log[i]
    BY <1>3, ReplacedLog
  <2>2. commitIndex <= commitIndex' /\ UNCHANGED applierVars
    BY <1>3, <2>1 DEF HandleAppendEntries
  <2>3. /\ applied \in Seq(Entry) /\ commitIndex \in Nat /\ commitIndex' \in Nat
        /\ AppliedOnceInOrder
    OBVIOUS
  <2> HIDE DEF AppliedInv, TypeOK, AppliedOnceInOrder, applierVars
  <2> QED
    BY <2>1, <2>2, <2>3, AppliedKept
<1>4. CASE AdvanceCommitIndex
  BY <1>4 DEF AdvanceCommitIndex
<1>5. CASE Wake \/ ReadIndexes \/ ApplierStops
  <2>1. applier.pc # "mark"
    BY <1>5 DEF Wake, ReadIndexes, ApplierStops
  <2>2. applier'.pc # "mark"
    <3>1. CASE Wake
      BY <3>1 DEF Wake
    <3>2. CASE ReadIndexes
      BY <3>2 DEF ReadIndexes
    <3>3. CASE ApplierStops
      BY <3>3 DEF ApplierStops
    <3> QED
      BY <1>5, <3>1, <3>2, <3>3
  <2> QED
    BY <1>5, <2>1, <2>2 DEF Wake, ReadIndexes, ApplierStops
<1>6. CASE FsmApply
  <2>1. applier.next = Len(applied) + 1 /\ applier.next <= commitIndex
    BY <1>6 DEF FsmApply, ApplierInv
  <2>2. /\ applied' = Append(applied, log[applier.next])
        /\ applier'.pc = "mark"
        /\ log[applier.next] \in Entry
        /\ UNCHANGED <<log, commitIndex, lastApplied>>
    BY <1>6, <2>1 DEF FsmApply
  <2>3. Len(applied') = Len(applied) + 1
        /\ \A i \in DOMAIN applied' : applied'[i] = log[i]
    <3>1. applied \in Seq(Entry) /\ \A i \in DOMAIN applied : applied[i] = log[i]
      OBVIOUS
    <3> HIDE DEF AppliedInv, TypeOK, AppliedOnceInOrder
    <3> QED
      BY <2>1, <2>2, <3>1
  <2>4. applier.pc # "mark" /\ Len(applied) \in Nat /\ lastApplied \in Nat
    BY <1>6 DEF FsmApply
  <2>5. Len(applied) = lastApplied
    BY <2>4
  <2> HIDE DEF AppliedInv, TypeOK
  <2> QED
    BY <2>1, <2>2, <2>3, <2>4, <2>5
<1>7. CASE MarkApplied
  <2>1. lastApplied' = lastApplied + 1 /\ applier'.pc # "mark"
        /\ UNCHANGED <<log, commitIndex, applied>>
    BY <1>7 DEF MarkApplied, NextInBatch, ApplierInv
  <2> QED
    <3>1. applier.pc = "mark" /\ lastApplied \in Nat
      BY <1>7 DEF MarkApplied
    <3> QED
      BY <2>1, <3>1
<1>8. CASE HandleApplyRequest
  <2>1. Head(applyCh) \in Entry
    BY <1>8 DEF HandleApplyRequest, Register, Entry
  <2> QED
    BY <1>1, <1>2, <1>8, <2>1 DEF HandleApplyRequest, Register
<1>9. CASE AppendNoOp
  BY <1>2, <1>9 DEF AppendNoOp, Entry
<1> QED
  BY <1>1, <1>3, <1>4, <1>5, <1>6, <1>7, <1>8, <1>9
     DEF Next, CallerStep, MainStep, PeerStep, ApplierStep, vars, Apply,
         Enqueue, GiveUp, TimeOut, Dispatch, ReturnToRun, ElectionTimeout,
         BecomeCandidate, WinElection, BecomeLeader, LeaderCheck,
         LeaderStops, FailPendingFutures, HandleVoteOrStale,
         ReplicatorStepsDown, CloseShutdown, FinishShutdown

\* The FSM is given the committed log, every index once and in order, for
\* every interleaving of commits, replaced suffixes and the unlocked fetch of
\* applyCommitted.
THEOREM AppliedOnce == Spec => []AppliedOnceInOrder
<1>1. Init => AppliedInv
  BY InitType DEF Init, AppliedInv, AppliedOnceInOrder
<1>2. AppliedInv /\ [Next]_vars => AppliedInv'
  BY AppliedStep
<1>3. AppliedInv => AppliedOnceInOrder
  BY DEF AppliedInv
<1> QED
  BY <1>1, <1>2, <1>3, PTL DEF Spec

-----------------------------------------------------------------------------
(* The futures of a Leader *)

\* Futures are added by handleApplyRequest alone, at the index of the entry;
\* a log that is replaced belongs to a node that has just become a Follower;
\* and the way back to Leader leads out of runLeader's loop first.
LEMMA LeaderStep ==
    ASSUME LeaderInv, TypeOK', [Next]_vars
    PROVE  LeaderInv'
<1> SUFFICES TrackedInLeader' /\ PendingOwn'
  BY DEF LeaderInv
<1> USE DEF LeaderInv, TrackedInLeader, PendingOwn, TypeOK, callerVars,
            lifeVars, applierVars, bounds
<1>1. CASE Dispatch
  BY <1>1 DEF Dispatch
<1>2. CASE AppendNoOp
  BY <1>2 DEF AppendNoOp
<1>3. CASE HandleApplyRequest
  <2>1. CASE /\ state = "Leader"
             /\ log' = Append(log, Head(applyCh))
             /\ pending' = [i \in DOMAIN pending \cup {Len(log')} |->
                               IF i = Len(log') THEN Head(applyCh)
                               ELSE pending[i]]
    <3>1. Head(applyCh) \in Entry /\ Len(log') = Len(log) + 1
          /\ log'[Len(log')] = Head(applyCh)
          /\ \A i \in 1..Len(log) : log'[i] = log[i]
      BY <1>3, <2>1 DEF HandleApplyRequest, Register, Entry
    <3>2. \A i \in DOMAIN pending : i \in 1..Len(log) /\ pending[i] = log[i]
      <4>1. DOMAIN pending \subseteq Nat /\ 0 \notin DOMAIN pending
        BY Zenon
      <4>2. PendingOwn
        BY Zenon
      <4>3. Len(log) \in Nat
        OBVIOUS
      <4> HIDE DEF LeaderInv, TypeOK, TrackedInLeader
      <4> QED
        BY <2>1, <4>1, <4>2, <4>3
    <3>3. loop' = "check" /\ Len(log) \in Nat
      BY <1>3 DEF HandleApplyRequest
    <3> HIDE DEF LeaderInv, TypeOK
    <3> QED
      BY <2>1, <3>1, <3>2, <3>3
  <2>2. CASE state # "Leader" /\ UNCHANGED <<log, pending>>
    <3>1. loop' = "check" /\ UNCHANGED state
      BY <1>3 DEF HandleApplyRequest
    <3> QED
      BY <2>2, <3>1
  <2> QED
    BY <1>3, <2>1, <2>2 DEF HandleApplyRequest, Register
<1>4. CASE FailPendingFutures
  BY <1>4 DEF FailPendingFutures, Nothing
<1>5. CASE HandleVoteOrStale
  BY <1>5 DEF HandleVoteOrStale, Listening, AfterRPC
<1>6. CASE HandleAppendEntries
  BY <1>6 DEF HandleAppendEntries, Listening, AfterRPC
<1>7. CASE MarkApplied
  BY <1>7 DEF MarkApplied
<1>8. CASE FinishShutdown
  BY <1>8 DEF FinishShutdown, Nothing
<1>9. CASE ReturnToRun \/ ElectionTimeout \/ WinElection \/ LeaderCheck
           \/ LeaderStops
  BY <1>9 DEF ReturnToRun, ElectionTimeout, WinElection, LeaderCheck,
              LeaderStops
<1>10. CASE BecomeCandidate \/ BecomeLeader \/ ReplicatorStepsDown
  BY <1>10 DEF BecomeCandidate, BecomeLeader, ReplicatorStepsDown
<1>11. ASSUME UNCHANGED <<state, loop, log, pending>>
       PROVE  TrackedInLeader' /\ PendingOwn'
  BY <1>11
<1> QED
  BY <1>1, <1>2, <1>3, <1>4, <1>5, <1>6, <1>7, <1>8, <1>9, <1>10, <1>11
     DEF Next, CallerStep, MainStep, PeerStep, ApplierStep, vars, Apply,
         Enqueue, GiveUp, TimeOut, AdvanceCommitIndex, Wake, ReadIndexes,
         FsmApply, ApplierStops, CloseShutdown

\* While a node leads, the future at an index is the future of the entry at
\* that index, however often it has led before (raft.go:41).
THEOREM PendingIsOwn == Spec => []PendingOwn
<1>1. Init => LeaderInv
  BY InitType DEF Init, LeaderInv, TrackedInLeader, PendingOwn, Nothing
<1>2. LeaderInv /\ TypeOK' /\ [Next]_vars => LeaderInv'
  BY LeaderStep
<1>3. LeaderInv => PendingOwn
  BY DEF LeaderInv
<1> QED
  BY <1>1, <1>2, <1>3, TypeCorrect, PTL DEF Spec

-----------------------------------------------------------------------------
(* Refused commands *)

\* A command enters applyCh when its caller leaves the select, leaves it for
\* the log or for ErrNotLeader, and is never in two of these.
LEMMA RefusalStep ==
    ASSUME RefusalInv, TypeOK', [Next]_vars
    PROVE  RefusalInv'
<1> SUFFICES QueueInv' /\ RefusedNeverProposed'
  BY DEF RefusalInv
<1> DEFINE Futures == {"none", "entering", "waiting"} \cup Answers
<1>0. /\ applyCh \in Seq(Command) /\ applyCh' \in Seq(Command)
      /\ future \in [Command -> Futures] /\ future' \in [Command -> Futures]
      /\ proposed \subseteq Command
  BY DEF RefusalInv, TypeOK
<1> HIDE DEF Futures
<1> USE DEF QueueInv, RefusedNeverProposed
<1> QueueInv /\ RefusedNeverProposed
  BY DEF RefusalInv
\* Answers to callers past the queue, none of them ErrNotLeader.
<1>1. ASSUME UNCHANGED <<applyCh, proposed>>,
             \A c \in Command :
                 \/ future'[c] = future[c]
                 \/ future'[c] \in Answers \ {"notLeader"}
      PROVE  QueueInv' /\ RefusedNeverProposed'
  <2>1. \A i \in DOMAIN applyCh : applyCh[i] \in Command
    BY <1>0
  <2>2. \A c \in Command :
            /\ future[c] \notin {"none", "entering", "notLeader"}
                   => future'[c] \notin {"none", "entering", "notLeader"}
            /\ future'[c] \in {"none", "entering", "notLeader"}
                   => future'[c] = future[c]
    BY <1>1 DEF Answers
  <2> QED
    BY <1>1, <2>1, <2>2
<1>2. ASSUME NEW c \in Command, Apply(c)
      PROVE  QueueInv' /\ RefusedNeverProposed'
  BY <1>0, <1>2 DEF Apply, callerVars
<1>3. ASSUME NEW c \in Command, Enqueue(c)
      PROVE  QueueInv' /\ RefusedNeverProposed'
  <2>1. /\ applyCh' = Append(applyCh, c)
        /\ DOMAIN applyCh' = 1..(Len(applyCh) + 1)
        /\ applyCh'[Len(applyCh) + 1] = c
        /\ \A i \in 1..Len(applyCh) : applyCh'[i] = applyCh[i]
        /\ \A i \in 1..Len(applyCh) : applyCh[i] # c
    BY <1>0, <1>3 DEF Enqueue
  <2>2. \A i, j \in DOMAIN applyCh' : applyCh'[i] = applyCh'[j] => i = j
    BY <2>1
  <2>3. /\ future[c] = "entering" /\ future' = [future EXCEPT ![c] = "waiting"]
        /\ UNCHANGED proposed
    BY <1>3 DEF Enqueue
  <2>4. \A i \in DOMAIN applyCh' :
            /\ applyCh'[i] \notin proposed'
            /\ future'[applyCh'[i]] \notin {"none", "entering", "notLeader"}
    BY <1>0, <2>1, <2>3
  <2> QED
    BY <1>0, <2>2, <2>3, <2>4
<1>4. ASSUME NEW c \in Command, GiveUp(c) \/ TimeOut(c)
      PROVE  QueueInv' /\ RefusedNeverProposed'
  BY <1>0, <1>1, <1>4 DEF GiveUp, TimeOut, Respond, Answers
<1>5. CASE HandleApplyRequest
  <2> DEFINE c == Head(applyCh)
  <2>1. /\ c = applyCh[1] /\ c \in Command
        /\ applyCh' = Tail(applyCh)
        /\ 1 \in DOMAIN applyCh
        /\ DOMAIN applyCh' = 1..(Len(applyCh) - 1)
        /\ \A i \in DOMAIN applyCh' :
               i + 1 \in DOMAIN applyCh /\ applyCh'[i] = applyCh[i + 1]
    BY <1>0, <1>5 DEF HandleApplyRequest, Register
  <2>2. /\ c \notin proposed
        /\ future[c] \notin {"none", "entering", "notLeader"}
    BY <2>1
  <2>3. \A i \in DOMAIN applyCh' : applyCh'[i] # c
    BY <2>1
  <2>4. \A i, j \in DOMAIN applyCh' : applyCh'[i] = applyCh'[j] => i = j
    BY <2>1
  <2> HIDE DEF c
  <2>5. CASE proposed' = proposed \cup {c} /\ UNCHANGED future
    BY <1>0, <2>1, <2>2, <2>3, <2>4, <2>5
  <2>6. CASE future' = Respond({c}, "notLeader") /\ UNCHANGED proposed
    <3>1. \A d \in Command :
              future'[d] = future[d] \/ (d = c /\ future'[d] \in Answers)
      BY <1>0, <2>6 DEF Respond, Answers
    <3>2. \A i \in DOMAIN applyCh' :
              applyCh'[i] \in Command /\ future'[applyCh'[i]] = future[applyCh'[i]]
      BY <1>0, <2>3, <3>1
    <3>3. c \notin proposed' /\ UNCHANGED proposed
      BY <2>2, <2>6
    <3> QED
      BY <2>1, <2>2, <2>4, <3>1, <3>2, <3>3 DEF Answers
  <2> QED
    BY <1>5, <2>5, <2>6 DEF HandleApplyRequest, Register, c
<1>6. CASE FailPendingFutures \/ FinishShutdown
  BY <1>0, <1>1, <1>6 DEF FailPendingFutures, FinishShutdown, Respond, Answers
<1>7. CASE MarkApplied
  BY <1>0, <1>1, <1>7 DEF MarkApplied, Respond, Answers
<1>8. ASSUME UNCHANGED <<applyCh, future, proposed>>
      PROVE  QueueInv' /\ RefusedNeverProposed'
  BY <1>1, <1>8
<1> QED
  BY <1>2, <1>3, <1>4, <1>5, <1>6, <1>7, <1>8
     DEF Next, CallerStep, MainStep, PeerStep, ApplierStep, vars, Dispatch,
         ReturnToRun, ElectionTimeout, BecomeCandidate, WinElection,
         BecomeLeader, AppendNoOp, LeaderCheck, LeaderStops,
         HandleVoteOrStale, HandleAppendEntries, ReplicatorStepsDown,
         AdvanceCommitIndex, Wake, ReadIndexes, FsmApply, ApplierStops,
         CloseShutdown, callerVars

\* A command that was answered with ErrNotLeader is in no log this node has
\* ever had, for any number of callers and any capacity of applyCh.
THEOREM RefusalIsFinal == Spec => []RefusedNeverProposed
<1>1. Init => RefusalInv
  BY InitType DEF Init, RefusalInv, QueueInv, RefusedNeverProposed
<1>2. RefusalInv /\ TypeOK' /\ [Next]_vars => RefusalInv'
  BY RefusalStep
<1>3. RefusalInv => RefusedNeverProposed
  BY DEF RefusalInv
<1> QED
  BY <1>1, <1>2, <1>3, TypeCorrect, PTL DEF Spec

=============================================================================
