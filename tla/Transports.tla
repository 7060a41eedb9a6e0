----------------------------- MODULE Transports -----------------------------
(***************************************************************************)
(* A RaftNode is given one of two implementations of its interface         *)
(* Transport, TCPTransport or the InmemTransport of the tests.  Both have  *)
(* to keep the contract of RpcCalls, which module Raft relies on.          *)
(***************************************************************************)
EXTENDS TcpTransport

VARIABLES
    linked,         \* of InmemTransport, which has the other variables of
                    \* TcpTransport but its connections
    kind            \* the implementation at work

Inmem == INSTANCE InmemTransport

allVars == <<vars, linked, kind>>
inmemVars == Inmem!vars
Tcp == kind = "tcp"

TransportInit == Init /\ Inmem!Init /\ kind \in {"tcp", "inmem"}

TransportNext ==
    \/ Tcp /\ Next /\ UNCHANGED <<linked, kind>>
    \/ ~ Tcp /\ Inmem!Next /\ UNCHANGED <<conn, wire, handler, shutdown, kind>>

TransportSafety == TransportInit /\ [][TransportNext]_allVars

(***************************************************************************)
(* Deadlines pass and goroutines run.  Nothing is assumed about the server *)
(* being stopped, links being cut or calls being made.                     *)
(***************************************************************************)
TransportSpec ==
    /\ TransportSafety
    /\ \A c \in Call : /\ WF_vars(Tcp /\ CallerStep(c))
                       /\ WF_vars(Tcp /\ HandlerStep(c))
                       /\ WF_inmemVars(~ Tcp /\ Inmem!CallerStep(c))
    /\ WF_vars(Tcp /\ HandleRPC)
    /\ WF_inmemVars(~ Tcp /\ Inmem!HandleRPC)

-----------------------------------------------------------------------------
Open == {"dialed", "sending", "waiting"}

Contract == INSTANCE RpcCalls WITH
    outcome <- [c \in Call |-> IF caller[c] \in Open THEN "open" ELSE caller[c]]

(***************************************************************************)
(* Either transport keeps the contract, over lost connections, cut links,  *)
(* full channels, deadlines on both sides, late answers and Shutdown: an   *)
(* answer is the answer to this request and no request is handled twice.   *)
(***************************************************************************)
ImplementsCalls == Contract!Spec

(***************************************************************************)
(* A call ends, also when the peer has stopped, its rpcCh is full, the     *)
(* link is cut while the request waits, or the peer has taken the request  *)
(* and never answers (replicateOnce and the votes of startElection wait    *)
(* for it).                                                                *)
(***************************************************************************)
EveryCallEnds ==
    \A c \in Call : caller[c] \in Open ~> caller[c] \in {"answered", "failed"}

=============================================================================
