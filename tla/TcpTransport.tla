---------------------------- MODULE TcpTransport ----------------------------
(***************************************************************************)
(* TCPTransport of transport.go: calls to one server, each on a connection *)
(* of its own.  The caller is a goroutine of another server                *)
(* (SendAppendEntries, SendRequestVote); handleConn, a goroutine for each  *)
(* connection, puts the request into rpcCh and waits for the answer of the *)
(* server's main goroutine, which takes requests out of rpcCh until the    *)
(* server is stopped.                                                      *)
(*                                                                         *)
(* Every deadline (2 s to dial, 5 s to read or write, 10 s for the answer) *)
(* is an alternative that is always there: the model has no clock, and a   *)
(* message that is cut off ends like one that did not arrive.              *)
(***************************************************************************)
EXTENDS Naturals, Sequences

CONSTANTS
    Call,           \* the calls that are made
    ChanCap         \* capacity of rpcCh, 256 in the code

ASSUME ChanAssumption == ChanCap \in Nat \ {0}

VARIABLES
    caller,         \* "idle", "dialed", "waiting", "answered", "failed"
    conn,           \* the connection: "none", "open", "closed"
    wire,           \* what is on it: "nothing", "request", "response"
    handler,        \* handleConn: "none", "reading", "queueing", "waiting",
                    \* "gone"
    rpcCh,          \* requests for the main goroutine
    respCh,         \* calls whose RespCh holds an answer
    handled,        \* how often a request has been handled
    running,        \* the main goroutine runs
    shutdown        \* shutdownCh is closed

vars == <<caller, conn, wire, handler, rpcCh, respCh, handled, running,
          shutdown>>
server == <<rpcCh, respCh, handled, running, shutdown>>

Init ==
    /\ caller = [c \in Call |-> "idle"]
    /\ conn = [c \in Call |-> "none"]
    /\ wire = [c \in Call |-> "nothing"]
    /\ handler = [c \in Call |-> "none"]
    /\ rpcCh = <<>> /\ respCh = {}
    /\ handled = [c \in Call |-> 0]
    /\ running = TRUE /\ shutdown = FALSE

-----------------------------------------------------------------------------
(* The caller *)

\* The call returns; conn.Close is deferred.
Return(c, result) ==
    /\ caller' = [caller EXCEPT ![c] = result]
    /\ conn' = [conn EXCEPT ![c] = "closed"]

\* DialTimeout; nobody listens after Shutdown.
Dial(c) ==
    /\ caller[c] = "idle"
    /\ \/ /\ caller' = [caller EXCEPT ![c] = "failed"]
          /\ UNCHANGED conn
       \/ /\ ~ shutdown
          /\ caller' = [caller EXCEPT ![c] = "dialed"]
          /\ conn' = [conn EXCEPT ![c] = "open"]
    /\ UNCHANGED <<wire, handler, server>>

\* sendMessage.
Send(c) ==
    /\ caller[c] = "dialed"
    /\ \/ Return(c, "failed") /\ UNCHANGED wire
       \/ /\ caller' = [caller EXCEPT ![c] = "waiting"]
          /\ wire' = [wire EXCEPT ![c] = "request"]
          /\ UNCHANGED conn
    /\ UNCHANGED <<handler, server>>

\* readMessage returns the response.
ReadResponse(c) ==
    /\ caller[c] = "waiting" /\ wire[c] = "response"
    /\ Return(c, "answered")
    /\ UNCHANGED <<wire, handler, server>>

\* The read deadline passes, or the connection is gone.
ReadFails(c) ==
    /\ caller[c] = "waiting"
    /\ Return(c, "failed")
    /\ UNCHANGED <<wire, handler, server>>

-----------------------------------------------------------------------------
(* acceptLoop and handleConn *)

Leave(c) ==
    /\ handler' = [handler EXCEPT ![c] = "gone"]
    /\ conn' = [conn EXCEPT ![c] = "closed"]

\* acceptLoop, until Shutdown has closed the listener.
Accept(c) ==
    /\ conn[c] # "none" /\ handler[c] = "none" /\ ~ shutdown
    /\ handler' = [handler EXCEPT ![c] = "reading"]
    /\ UNCHANGED <<caller, conn, wire, server>>

\* A request is there.
ReadRequest(c) ==
    /\ handler[c] = "reading" /\ wire[c] = "request"
    /\ wire' = [wire EXCEPT ![c] = "nothing"]
    /\ handler' = [handler EXCEPT ![c] = "queueing"]
    /\ UNCHANGED <<caller, conn, server>>

\* Nothing comes, or nothing more.
ReadEnds(c) ==
    /\ handler[c] = "reading"
    /\ Leave(c)
    /\ UNCHANGED <<caller, wire, server>>

\* rpcCh <- rpc, which nothing but room in rpcCh ends.
Queue(c) ==
    /\ handler[c] = "queueing" /\ Len(rpcCh) < ChanCap
    /\ rpcCh' = Append(rpcCh, c)
    /\ handler' = [handler EXCEPT ![c] = "waiting"]
    /\ UNCHANGED <<caller, conn, wire, respCh, handled, running, shutdown>>

\* The answer is sent, or cannot be.
SendResponse(c) ==
    /\ handler[c] = "waiting" /\ c \in respCh
    /\ respCh' = respCh \ {c}
    /\ \/ /\ conn[c] = "open"
          /\ wire' = [wire EXCEPT ![c] = "response"]
          /\ handler' = [handler EXCEPT ![c] = "reading"]
          /\ UNCHANGED conn
       \/ Leave(c) /\ UNCHANGED wire
    /\ UNCHANGED <<caller, rpcCh, handled, running, shutdown>>

\* Defect: after a timeout the request is queued once more.
QueueAgain(c) ==
    /\ handler[c] = "waiting"
    /\ handler' = [handler EXCEPT ![c] = "queueing"]
    /\ UNCHANGED <<caller, conn, wire, server>>

\* Defect: there is only the answer to wait for.
WaitForEver(c) ==
    /\ handler[c] = "waiting" /\ c \in respCh
    /\ Leave(c)
    /\ UNCHANGED <<caller, wire, server>>

\* Ten seconds without an answer, or Shutdown.
GiveUp(c) ==
    /\ handler[c] = "waiting"
    /\ Leave(c)
    /\ UNCHANGED <<caller, wire, server>>

-----------------------------------------------------------------------------
(* The server *)

\* run, runFollower, runCandidate or runLeader: handleRPC.  RespCh has room
\* for one answer, so that a handler that has left blocks nobody.
HandleRPC ==
    /\ running /\ rpcCh # <<>>
    /\ rpcCh' = Tail(rpcCh)
    /\ handled' = [handled EXCEPT ![Head(rpcCh)] = @ + 1]
    /\ respCh' = respCh \cup {Head(rpcCh)}
    /\ UNCHANGED <<caller, conn, wire, handler, running, shutdown>>

\* Shutdown of the RaftNode, then of the transport (cluster.go).
Stop ==
    /\ \/ running /\ running' = FALSE /\ UNCHANGED shutdown
       \/ ~ running /\ ~ shutdown /\ shutdown' = TRUE /\ UNCHANGED running
    /\ UNCHANGED <<caller, conn, wire, handler, rpcCh, respCh, handled>>

CallerStep(c) == Send(c) \/ ReadResponse(c) \/ ReadFails(c)
HandlerStep(c) ==
    Accept(c) \/ ReadRequest(c) \/ ReadEnds(c) \/ Queue(c) \/ SendResponse(c)
        \/ GiveUp(c)

Next ==
    \/ \E c \in Call : Dial(c) \/ CallerStep(c) \/ HandlerStep(c)
    \/ HandleRPC \/ Stop

-----------------------------------------------------------------------------
(***************************************************************************)
(* After Shutdown every goroutine of handleConn ends (transport.go:169,    *)
(* 190), except one that waits for room in a full rpcCh: that send has no  *)
(* alternative (transport.go:159, 180).                                    *)
(***************************************************************************)
HandlersEnd ==
    shutdown ~> \A c \in Call :
        \/ handler[c] \in {"none", "gone"}
        \/ handler[c] = "queueing" /\ Len(rpcCh) = ChanCap

=============================================================================
