--------------------------- MODULE InmemTransport ---------------------------
(***************************************************************************)
(* InmemTransport of inmem.go, with which the tests replace TCPTransport:  *)
(* calls from one server to another.  The caller itself puts its request   *)
(* into the peer's rpcCh and waits for the answer, one second each.  The   *)
(* tests cut and mend the link (Disconnect, DisconnectAll, Shutdown,       *)
(* Connect).  It has to keep the contract of TCPTransport, RpcCalls.       *)
(***************************************************************************)
EXTENDS Naturals, Sequences

CONSTANTS
    Call,           \* the calls that are made
    ChanCap         \* capacity of rpcCh, 256 in the code

VARIABLES
    caller,         \* "idle", "sending", "waiting", "answered", "failed"
    linked,         \* the peer is in the map peers
    rpcCh,          \* requests for the peer's main goroutine
    respCh,         \* calls whose RespCh holds an answer
    handled,        \* how often a request has been handled
    running         \* the peer's main goroutine runs

vars == <<caller, linked, rpcCh, respCh, handled, running>>

Init ==
    /\ caller = [c \in Call |-> "idle"]
    /\ linked = FALSE
    /\ rpcCh = <<>> /\ respCh = {}
    /\ handled = [c \in Call |-> 0]
    /\ running = TRUE

\* Connect, Disconnect, DisconnectAll and Shutdown.
SetLink ==
    /\ linked' = ~ linked
    /\ UNCHANGED <<caller, rpcCh, respCh, handled, running>>

\* SendAppendEntries or SendRequestVote looks up the peer.
LookUp(c) ==
    /\ caller[c] = "idle"
    /\ caller' = [caller EXCEPT ![c] = IF linked THEN "sending" ELSE "failed"]
    /\ UNCHANGED <<linked, rpcCh, respCh, handled, running>>

\* The first select: room in rpcCh.
Send(c) ==
    /\ caller[c] = "sending" /\ Len(rpcCh) < ChanCap
    /\ rpcCh' = Append(rpcCh, c)
    /\ caller' = [caller EXCEPT ![c] = "waiting"]
    /\ UNCHANGED <<linked, respCh, handled, running>>

\* Defect: a full channel fails at once, an answer is waited for.
OnlyFull(c) ==
    /\ caller[c] = "sending" /\ Len(rpcCh) = ChanCap
    /\ caller' = [caller EXCEPT ![c] = "failed"]
    /\ UNCHANGED <<linked, rpcCh, respCh, handled, running>>

\* The second passes, in either select.
TimeOut(c) ==
    /\ caller[c] \in {"sending", "waiting"}
    /\ caller' = [caller EXCEPT ![c] = "failed"]
    /\ UNCHANGED <<linked, rpcCh, respCh, handled, running>>

\* The second select: the answer.
Receive(c) ==
    /\ caller[c] = "waiting" /\ c \in respCh
    /\ respCh' = respCh \ {c}
    /\ caller' = [caller EXCEPT ![c] = "answered"]
    /\ UNCHANGED <<linked, rpcCh, handled, running>>

\* The peer's main goroutine: handleRPC.
HandleRPC ==
    /\ running /\ rpcCh # <<>>
    /\ rpcCh' = Tail(rpcCh)
    /\ handled' = [handled EXCEPT ![Head(rpcCh)] = @ + 1]
    /\ respCh' = respCh \cup {Head(rpcCh)}
    /\ UNCHANGED <<caller, linked, running>>

Stop ==
    /\ running /\ running' = FALSE
    /\ UNCHANGED <<caller, linked, rpcCh, respCh, handled>>

CallerStep(c) == Send(c) \/ TimeOut(c) \/ Receive(c)

Next ==
    \/ \E c \in Call : LookUp(c) \/ CallerStep(c)
    \/ SetLink \/ HandleRPC \/ Stop

=============================================================================
