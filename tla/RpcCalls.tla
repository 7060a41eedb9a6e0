------------------------------ MODULE RpcCalls ------------------------------
(***************************************************************************)
(* What Raft may expect of a transport, and what module Raft assumes: a    *)
(* call ends with an answer or with an error; an answer means that the     *)
(* peer has handled the request; after an error it may have been handled,  *)
(* may be handled later or never; and no request is handled twice.         *)
(***************************************************************************)
EXTENDS Naturals

CONSTANT Call

VARIABLES
    outcome,    \* of each call: "idle", "open", "answered" or "failed"
    handled     \* how often the peer has handled its request

vars == <<outcome, handled>>

Init ==
    /\ outcome = [c \in Call |-> "idle"]
    /\ handled = [c \in Call |-> 0]

Start(c) ==
    /\ outcome[c] = "idle"
    /\ outcome' = [outcome EXCEPT ![c] = "open"]
    /\ UNCHANGED handled

Handle(c) ==
    /\ outcome[c] # "idle" /\ handled[c] = 0
    /\ handled' = [handled EXCEPT ![c] = 1]
    /\ UNCHANGED outcome

Answer(c) ==
    /\ outcome[c] = "open" /\ handled[c] = 1
    /\ outcome' = [outcome EXCEPT ![c] = "answered"]
    /\ UNCHANGED handled

Fail(c) ==
    /\ outcome[c] \in {"idle", "open"}
    /\ outcome' = [outcome EXCEPT ![c] = "failed"]
    /\ UNCHANGED handled

Next == \E c \in Call : Start(c) \/ Handle(c) \/ Answer(c) \/ Fail(c)

Spec == Init /\ [][Next]_vars

=============================================================================
