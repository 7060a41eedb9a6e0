-------------------------- MODULE TransportProofs --------------------------
(***************************************************************************)
(* Both transports keep the contract of RpcCalls, for any number of calls  *)
(* and any capacity of rpcCh.  The argument is that a request is in one    *)
(* place at a time (on the wire, with handleConn, in rpcCh, handled) and   *)
(* moves forward only, and that an answer exists only where the request    *)
(* has been handled.                                                       *)
(***************************************************************************)
EXTENDS Transports, TLAPS

Queued(c) == \E i \in DOMAIN rpcCh : rpcCh[i] = c

Callers == {"idle", "dialed", "sending", "waiting", "answered", "failed"}

CallTypes ==
    /\ caller \in [Call -> Callers]
    /\ conn \in [Call -> {"none", "open", "closed"}]
    /\ wire \in [Call -> {"nothing", "request", "response"}]
    /\ handler \in [Call -> {"none", "reading", "queueing", "waiting", "gone"}]
    /\ rpcCh \in Seq(Call)
    /\ respCh \subseteq Call
    /\ handled \in [Call -> {0, 1}]

\* A request is in rpcCh once and not yet handled; who has not sent has
\* nothing there; an answer waits only for a handled request.
RequestOnce ==
    /\ \A i, j \in DOMAIN rpcCh : rpcCh[i] = rpcCh[j] => i = j
    /\ \A c \in Call :
           /\ Queued(c) => handled[c] = 0
           /\ caller[c] \in {"idle", "dialed", "sending"}
                  => ~ Queued(c) /\ handled[c] = 0
           /\ c \in respCh => handled[c] = 1

\* With TCPTransport: before it is in rpcCh the request is on the wire or
\* with handleConn, never both, and a response on the wire was made by the
\* server.
OnConnection ==
    \A c \in Call :
        /\ wire[c] = "request" \/ handler[c] = "queueing" =>
               /\ ~ Queued(c) /\ handled[c] = 0
               /\ caller[c] \notin {"idle", "dialed", "sending"}
        /\ wire[c] = "request" \/ caller[c] \in {"idle", "dialed", "sending"} =>
               handler[c] \in {"none", "reading", "gone"}
        /\ wire[c] = "response" => handled[c] = 1

CallInv ==
    /\ CallTypes
    /\ RequestOnce
    /\ kind \in {"tcp", "inmem"}
    /\ Tcp => OnConnection

-----------------------------------------------------------------------------
(* The queue *)

\* rpcCh <- rpc: the request is behind the others, once.
LEMMA Queueing ==
    ASSUME CallTypes, RequestOnce, NEW c \in Call, ~ Queued(c),
           rpcCh' = Append(rpcCh, c)
    PROVE  /\ rpcCh' \in Seq(Call)
           /\ \A i, j \in DOMAIN rpcCh' : rpcCh'[i] = rpcCh'[j] => i = j
           /\ \A d \in Call : Queued(d)' <=> Queued(d) \/ d = c
<1> USE DEF CallTypes, RequestOnce, Queued
<1>1. /\ rpcCh' \in Seq(Call)
      /\ DOMAIN rpcCh = 1..Len(rpcCh)
      /\ DOMAIN rpcCh' = 1..(Len(rpcCh) + 1)
      /\ rpcCh'[Len(rpcCh) + 1] = c
      /\ \A i \in 1..Len(rpcCh) : rpcCh'[i] = rpcCh[i]
      /\ Len(rpcCh) \in Nat
  OBVIOUS
<1>2. \A i \in 1..Len(rpcCh) : rpcCh[i] # c
  BY <1>1
<1>3. \A i, j \in DOMAIN rpcCh' : rpcCh'[i] = rpcCh'[j] => i = j
  BY <1>1, <1>2
<1>4. \A d \in Call : Queued(d)' => Queued(d) \/ d = c
  BY <1>1
<1>5. \A d \in Call : Queued(d) \/ d = c => Queued(d)'
  BY <1>1
<1> QED
  BY <1>1, <1>3, <1>4, <1>5

\* <-rpcCh: the first request leaves the queue.
LEMMA Dequeueing ==
    ASSUME CallTypes, RequestOnce, rpcCh # <<>>, rpcCh' = Tail(rpcCh)
    PROVE  /\ rpcCh' \in Seq(Call)
           /\ Head(rpcCh) \in Call /\ Queued(Head(rpcCh))
           /\ \A i, j \in DOMAIN rpcCh' : rpcCh'[i] = rpcCh'[j] => i = j
           /\ \A d \in Call : Queued(d)' <=> Queued(d) /\ d # Head(rpcCh)
<1> USE DEF CallTypes, RequestOnce, Queued
<1>1. /\ rpcCh' \in Seq(Call)
      /\ Len(rpcCh) \in Nat /\ Len(rpcCh) > 0
      /\ DOMAIN rpcCh = 1..Len(rpcCh)
      /\ DOMAIN rpcCh' = 1..(Len(rpcCh) - 1)
      /\ Head(rpcCh) = rpcCh[1] /\ Head(rpcCh) \in Call
      /\ \A i \in 1..(Len(rpcCh) - 1) : rpcCh'[i] = rpcCh[i + 1]
  OBVIOUS
<1>2. \A i, j \in DOMAIN rpcCh' : rpcCh'[i] = rpcCh'[j] => i = j
  BY <1>1
<1>3. \A d \in Call : Queued(d)' => Queued(d) /\ d # Head(rpcCh)
  BY <1>1
<1>4. ASSUME NEW d \in Call, Queued(d), d # Head(rpcCh) PROVE Queued(d)'
  <2>1. PICK i \in 1..Len(rpcCh) : rpcCh[i] = d
    BY <1>1, <1>4
  <2>2. i # 1 /\ i - 1 \in 1..(Len(rpcCh) - 1)
    BY <1>1, <1>4, <2>1
  <2>3. i - 1 \in DOMAIN rpcCh' /\ rpcCh'[i - 1] = rpcCh[i]
    BY <1>1, <2>2
  <2> QED
    BY <2>1, <2>3
<1> QED
  BY <1>1, <1>2, <1>3, <1>4

\* handleRPC, the same for both transports.
LEMMA Handling ==
    ASSUME CallTypes, RequestOnce, HandleRPC
    PROVE  /\ CallTypes' /\ RequestOnce'
           /\ Head(rpcCh) \in Call /\ Queued(Head(rpcCh))
           /\ handled[Head(rpcCh)] = 0
           /\ handled' = [handled EXCEPT ![Head(rpcCh)] = 1]
           /\ \A d \in Call : Queued(d)' <=> Queued(d) /\ d # Head(rpcCh)
<1> DEFINE c == Head(rpcCh)
<1>1. /\ rpcCh' \in Seq(Call) /\ c \in Call /\ Queued(c)
      /\ \A i, j \in DOMAIN rpcCh' : rpcCh'[i] = rpcCh'[j] => i = j
      /\ \A d \in Call : Queued(d)' <=> Queued(d) /\ d # c
  BY Dequeueing DEF HandleRPC
<1>2. /\ handled' = [handled EXCEPT ![c] = handled[c] + 1]
      /\ respCh' = respCh \cup {c}
      /\ UNCHANGED <<caller, conn, wire, handler>>
  BY DEF HandleRPC
<1> HIDE DEF c
<1>3. handled[c] = 0
  BY <1>1 DEF RequestOnce
<1>4. handled' = [handled EXCEPT ![c] = 1]
  BY <1>2, <1>3
<1>5. CallTypes'
  BY <1>1, <1>2, <1>4 DEF CallTypes
<1>6. RequestOnce'
  BY <1>1, <1>2, <1>4 DEF CallTypes, RequestOnce
<1> QED
  BY <1>1, <1>3, <1>4, <1>5, <1>6 DEF c

-----------------------------------------------------------------------------
(* A request is in one place *)

\* The steps of TCPTransport.
LEMMA TcpStep ==
    ASSUME CallTypes, RequestOnce, OnConnection, Next
    PROVE  CallTypes' /\ RequestOnce' /\ OnConnection'
<1> USE DEF server
\* Nothing happens to rpcCh, the answers and the counts.
<1>1. ASSUME UNCHANGED <<rpcCh, handled>>, respCh' \subseteq respCh
      PROVE  /\ \A d \in Call : Queued(d)' <=> Queued(d)
             /\ rpcCh' \in Seq(Call) /\ respCh' \subseteq Call
             /\ \A i, j \in DOMAIN rpcCh' : rpcCh'[i] = rpcCh'[j] => i = j
             /\ \A d \in Call : /\ Queued(d)' => handled'[d] = 0
                                /\ d \in respCh' => handled'[d] = 1
  BY <1>1 DEF CallTypes, RequestOnce, Queued
<1>2. ASSUME NEW c \in Call, Dial(c)
      PROVE  CallTypes' /\ RequestOnce' /\ OnConnection'
  <2>1. CallTypes'
    BY <1>2 DEF Dial, CallTypes, Callers
  <2>2. RequestOnce' /\ OnConnection'
    BY <1>1, <1>2 DEF Dial, CallTypes, RequestOnce, OnConnection
  <2> QED
    BY <2>1, <2>2
<1>3. ASSUME NEW c \in Call, Send(c)
      PROVE  CallTypes' /\ RequestOnce' /\ OnConnection'
  <2>1. CallTypes'
    BY <1>3 DEF Send, Return, CallTypes, Callers
  <2>2. RequestOnce' /\ OnConnection'
    BY <1>1, <1>3 DEF Send, Return, CallTypes, RequestOnce, OnConnection
  <2> QED
    BY <2>1, <2>2
<1>4. ASSUME NEW c \in Call, ReadResponse(c) \/ ReadFails(c)
      PROVE  CallTypes' /\ RequestOnce' /\ OnConnection'
  <2>1. CallTypes'
    BY <1>4 DEF ReadResponse, ReadFails, Return, CallTypes, Callers
  <2>2. RequestOnce' /\ OnConnection'
    BY <1>1, <1>4
       DEF ReadResponse, ReadFails, Return, CallTypes, RequestOnce,
           OnConnection
  <2> QED
    BY <2>1, <2>2
<1>5. ASSUME NEW c \in Call, Accept(c) \/ ReadEnds(c) \/ GiveUp(c)
      PROVE  CallTypes' /\ RequestOnce' /\ OnConnection'
  <2>1. CallTypes'
    BY <1>5 DEF Accept, ReadEnds, GiveUp, Leave, CallTypes
  <2>2. RequestOnce' /\ OnConnection'
    BY <1>1, <1>5
       DEF Accept, ReadEnds, GiveUp, Leave, CallTypes, RequestOnce,
           OnConnection
  <2> QED
    BY <2>1, <2>2
<1>6. ASSUME NEW c \in Call, ReadRequest(c)
      PROVE  CallTypes' /\ RequestOnce' /\ OnConnection'
  <2>1. CallTypes'
    BY <1>6 DEF ReadRequest, CallTypes
  <2>2. RequestOnce' /\ OnConnection'
    BY <1>1, <1>6 DEF ReadRequest, CallTypes, RequestOnce, OnConnection
  <2> QED
    BY <2>1, <2>2
<1>7. ASSUME NEW c \in Call, Queue(c)
      PROVE  CallTypes' /\ RequestOnce' /\ OnConnection'
  <2>1. /\ ~ Queued(c) /\ handled[c] = 0
        /\ caller[c] \notin {"idle", "dialed", "sending"}
        /\ wire[c] # "request"
    BY <1>7 DEF Queue, OnConnection
  <2>2. /\ rpcCh' \in Seq(Call)
        /\ \A i, j \in DOMAIN rpcCh' : rpcCh'[i] = rpcCh'[j] => i = j
        /\ \A d \in Call : Queued(d)' <=> Queued(d) \/ d = c
    BY <1>7, <2>1, Queueing DEF Queue
  <2>3. CallTypes'
    BY <1>7, <2>2 DEF Queue, CallTypes
  <2>4. RequestOnce'
    BY <1>7, <2>1, <2>2 DEF Queue, RequestOnce, CallTypes
  <2>5. OnConnection'
    BY <1>7, <2>1, <2>2 DEF Queue, OnConnection, CallTypes
  <2> QED
    BY <2>3, <2>4, <2>5
<1>8. ASSUME NEW c \in Call, SendResponse(c)
      PROVE  CallTypes' /\ RequestOnce' /\ OnConnection'
  <2>1. CallTypes'
    BY <1>8 DEF SendResponse, Leave, CallTypes
  <2>2. handled[c] = 1
    BY <1>8 DEF SendResponse, RequestOnce
  <2>3. RequestOnce' /\ OnConnection'
    BY <1>1, <1>8, <2>2
       DEF SendResponse, Leave, CallTypes, RequestOnce, OnConnection
  <2> QED
    BY <2>1, <2>3
<1>9. CASE HandleRPC
  <2>1. OnConnection'
    BY <1>9, Handling DEF HandleRPC, OnConnection, CallTypes
  <2> QED
    BY <1>9, <2>1, Handling
<1>10. CASE Stop
  BY <1>1, <1>10 DEF Stop, CallTypes, RequestOnce, OnConnection
<1> QED
  BY <1>2, <1>3, <1>4, <1>5, <1>6, <1>7, <1>8, <1>9, <1>10
     DEF Next, CallerStep, HandlerStep

\* The steps of InmemTransport.
LEMMA InmemStep ==
    ASSUME CallTypes, RequestOnce, Inmem!Next,
           UNCHANGED <<conn, wire, handler, shutdown>>
    PROVE  CallTypes' /\ RequestOnce'
<1>1. ASSUME NEW c \in Call,
             Inmem!LookUp(c) \/ Inmem!TimeOut(c) \/ Inmem!Receive(c)
      PROVE  CallTypes' /\ RequestOnce'
  <2>1. CallTypes'
    BY <1>1 DEF Inmem!LookUp, Inmem!TimeOut, Inmem!Receive, CallTypes, Callers
  <2>2. RequestOnce'
    BY <1>1
       DEF Inmem!LookUp, Inmem!TimeOut, Inmem!Receive, CallTypes, RequestOnce,
           Queued
  <2> QED
    BY <2>1, <2>2
<1>2. ASSUME NEW c \in Call, Inmem!Send(c)
      PROVE  CallTypes' /\ RequestOnce'
  <2>1. ~ Queued(c) /\ handled[c] = 0
    BY <1>2 DEF Inmem!Send, RequestOnce
  <2>2. /\ rpcCh' \in Seq(Call)
        /\ \A i, j \in DOMAIN rpcCh' : rpcCh'[i] = rpcCh'[j] => i = j
        /\ \A d \in Call : Queued(d)' <=> Queued(d) \/ d = c
    BY <1>2, <2>1, Queueing DEF Inmem!Send
  <2>3. CallTypes'
    BY <1>2, <2>2 DEF Inmem!Send, CallTypes, Callers
  <2>4. RequestOnce'
    BY <1>2, <2>1, <2>2 DEF Inmem!Send, RequestOnce, CallTypes
  <2> QED
    BY <2>3, <2>4
<1>3. CASE Inmem!HandleRPC
  <2>1. HandleRPC
    BY <1>3 DEF Inmem!HandleRPC, HandleRPC
  <2> QED
    BY <2>1, Handling
<1>4. CASE Inmem!SetLink \/ Inmem!Stop
  BY <1>4 DEF Inmem!SetLink, Inmem!Stop, CallTypes, RequestOnce, Queued
<1> QED
  BY <1>1, <1>2, <1>3, <1>4 DEF Inmem!Next, Inmem!CallerStep

\* Every step of either transport.
LEMMA CallStep ==
    ASSUME CallInv, [TransportNext]_allVars
    PROVE  CallInv'
<1> USE DEF CallInv
<1>1. CASE Tcp /\ Next /\ UNCHANGED <<linked, kind>>
  BY <1>1, TcpStep DEF Tcp
<1>2. CASE /\ ~ Tcp /\ Inmem!Next
           /\ UNCHANGED <<conn, wire, handler, shutdown, kind>>
  BY <1>2, InmemStep DEF Tcp
<1>3. CASE UNCHANGED allVars
  BY <1>3 DEF allVars, vars, CallTypes, RequestOnce, OnConnection, Queued, Tcp
<1> QED
  BY <1>1, <1>2, <1>3 DEF TransportNext

-----------------------------------------------------------------------------
(* The contract *)

\* A step of either transport is a step of the contract or changes neither
\* the outcome of a call nor how often its request was handled.
LEMMA ContractStep ==
    ASSUME CallInv, CallInv', [TransportNext]_allVars
    PROVE  [Contract!Next]_(Contract!vars)
<1> DEFINE Outcome(cl) ==
        [c \in Call |-> IF cl[c] \in Open THEN "open" ELSE cl[c]]
<1> USE DEF CallInv, Contract!vars
\* Calls whose outcome does not change.
<1>1. ASSUME UNCHANGED handled, Outcome(caller)' = Outcome(caller)
      PROVE  UNCHANGED Contract!vars
  BY <1>1
<1>2. ASSUME NEW c \in Call, UNCHANGED handled,
             NEW r \in Callers, caller' = [caller EXCEPT ![c] = r]
      PROVE  /\ caller[c] \in Open /\ r \in Open =>
                    UNCHANGED Contract!vars
             /\ caller[c] = "idle" /\ r \in Open => Contract!Start(c)
             /\ caller[c] \in Open /\ handled[c] = 1 /\ r = "answered" =>
                    Contract!Answer(c)
             /\ caller[c] \in Open \cup {"idle"} /\ r = "failed" =>
                    Contract!Fail(c)
  <2>1. /\ caller \in [Call -> Callers]
        /\ \A d \in Call : caller'[d] = IF d = c THEN r ELSE caller[d]
    BY <1>2 DEF CallTypes
  <2> HIDE DEF CallInv
  <2>2. caller[c] \in Open /\ r \in Open => UNCHANGED Contract!vars
    BY <1>2, <2>1
  <2>3. caller[c] = "idle" /\ r \in Open => Contract!Start(c)
    BY <1>2, <2>1 DEF Contract!Start, Open
  <2>4. caller[c] \in Open /\ handled[c] = 1 /\ r = "answered" =>
            Contract!Answer(c)
    BY <1>2, <2>1 DEF Contract!Answer, Open
  <2>5. caller[c] \in Open \cup {"idle"} /\ r = "failed" => Contract!Fail(c)
    BY <1>2, <2>1 DEF Contract!Fail, Open
  <2> QED
    BY <2>2, <2>3, <2>4, <2>5
<1>3. CASE Tcp /\ Next /\ UNCHANGED <<linked, kind>>
  <2>1. ASSUME NEW c \in Call, Dial(c) \/ CallerStep(c)
        PROVE  Contract!Next \/ UNCHANGED Contract!vars
    <3>1. ReadResponse(c) => handled[c] = 1
      BY <1>3, <2>1 DEF ReadResponse, OnConnection
    <3> QED
      BY <1>2, <2>1, <3>1
         DEF Dial, CallerStep, Send, ReadResponse, ReadFails, Return, server,
             Contract!Next, Open, Callers
  <2>2. ASSUME NEW c \in Call, HandlerStep(c)
        PROVE  UNCHANGED Contract!vars
    BY <1>1, <2>2
       DEF HandlerStep, Accept, ReadRequest, ReadEnds, Queue, SendResponse,
           GiveUp, server
  <2>3. CASE HandleRPC
    <3>1. Contract!Handle(Head(rpcCh))
      BY <2>3, Handling DEF Contract!Handle, HandleRPC, RequestOnce, CallTypes, Open
    <3> QED
      BY <2>3, <3>1, Handling DEF Contract!Next
  <2>4. CASE Stop
    BY <1>1, <2>4 DEF Stop
  <2> QED
    BY <1>3, <2>1, <2>2, <2>3, <2>4 DEF Next
<1>4. CASE /\ ~ Tcp /\ Inmem!Next
           /\ UNCHANGED <<conn, wire, handler, shutdown, kind>>
  <2>1. ASSUME NEW c \in Call, Inmem!LookUp(c) \/ Inmem!CallerStep(c)
        PROVE  Contract!Next \/ UNCHANGED Contract!vars
    <3>1. Inmem!Receive(c) => handled[c] = 1
      BY DEF Inmem!Receive, RequestOnce
    <3> QED
      BY <1>2, <2>1, <3>1
         DEF Inmem!LookUp, Inmem!CallerStep, Inmem!Send, Inmem!TimeOut,
             Inmem!Receive, Contract!Next, Open, Callers
  <2>2. CASE Inmem!HandleRPC
    <3>1. HandleRPC
      BY <1>4, <2>2 DEF Inmem!HandleRPC, HandleRPC
    <3>2. Contract!Handle(Head(rpcCh))
      BY <3>1, Handling DEF Contract!Handle, HandleRPC, RequestOnce, CallTypes, Open
    <3> QED
      BY <3>1, <3>2, Handling DEF Contract!Next
  <2>3. CASE Inmem!SetLink \/ Inmem!Stop
    BY <1>1, <2>3 DEF Inmem!SetLink, Inmem!Stop
  <2> QED
    BY <1>4, <2>1, <2>2, <2>3 DEF Inmem!Next
<1>5. CASE UNCHANGED allVars
  BY <1>1, <1>5 DEF allVars, vars
<1> QED
  BY <1>3, <1>4, <1>5 DEF TransportNext

\* Either transport keeps the contract of a call, which is what module Raft
\* assumes of the network: an answer is the answer to this request, and no
\* request is handled twice, with any number of calls and any capacity.
THEOREM TransportsKeepContract == TransportSpec => ImplementsCalls
<1>1. TransportInit => CallInv
  <2> SUFFICES ASSUME TransportInit PROVE CallInv
    OBVIOUS
  <2>1. CallTypes
    BY DEF TransportInit, Init, CallTypes, Callers
  <2>2. RequestOnce /\ OnConnection
    BY DEF TransportInit, Init, RequestOnce, OnConnection, Queued
  <2> QED
    BY <2>1, <2>2 DEF TransportInit, CallInv
<1>2. CallInv /\ [TransportNext]_allVars => CallInv'
  BY CallStep
<1>3. TransportInit => Contract!Init
  BY DEF TransportInit, Init, Contract!Init, Open
<1>4. CallInv /\ CallInv' /\ [TransportNext]_allVars
          => [Contract!Next]_(Contract!vars)
  BY ContractStep
<1>5. TransportSpec => TransportSafety
  BY PTL DEF TransportSpec
<1> QED
  BY <1>1, <1>2, <1>3, <1>4, <1>5, PTL
     DEF TransportSafety, ImplementsCalls, Contract!Spec

=============================================================================
