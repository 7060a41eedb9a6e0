--------------------------- MODULE EditorSession ---------------------------
(***************************************************************************)
(* Users who edit one document together: the tabs of web/client.js, the    *)
(* WebSocket servers of internal/server/websocket.go and the documents of  *)
(* internal/fsm, on top of a replicated log that keeps the promise of      *)
(* ReplicatedLog (entries are committed in one order, some proposals       *)
(* never).  Text is edited by characters that are numbered as they are     *)
(* typed, so that every character of the document has one author.          *)
(*                                                                         *)
(* An action is one step of one goroutine or one event of a tab.  Bounds   *)
(* are collected in a scenario, which Init chooses for a whole behaviour.  *)
(* Its field race names orders of events in which the code goes wrong.     *)
(* The actions allow all of them; which of them a scenario takes is said   *)
(* in one place, under "Schedules", and a behaviour without one shows that *)
(* the rest is right:                                                      *)
(*   "callback"   onCommit runs in a goroutine of its own, after and in    *)
(*                another order than the entries were applied;             *)
(*   "snapshot"   handleConnect reads revisions, text and head revision    *)
(*                one after the other;                                     *)
(*   "resend"     a submission is sent again while it is still under way;  *)
(*   "reconnect"  a connection ends while something is unsent or waits;    *)
(*   "exit"       a client connects again before the readPump of its old   *)
(*                connection has returned;                                 *)
(*   "lag"        a server greets a client that knows more than it does;   *)
(*   "tabs"       two tabs of one browser, which share the client id.      *)
(***************************************************************************)
EXTENDS DocumentFSM, EditorClient, FiniteSets

CONSTANTS
    Tab,            \* the open tabs
    Nobody,         \* "": no known leader
    System,         \* "system-bootstrap", the client id of main.go
    QueueCap,       \* capacity of a sendCh, 256 in the code
    Scenarios       \* records of the fields below

VARIABLE scenario

Node == scenario.nodes          \* the servers
InitText == scenario.text       \* the text of the flag -init, <<>> for none
Race == scenario.race
Users == scenario.users         \* bound: the tabs that are opened
MaxEdits == scenario.edits      \* bound: characters typed or deleted
MaxConns == scenario.conns      \* bound: connections made
MaxResends == scenario.resends  \* bound: submissions sent again
MaxFaults == scenario.faults    \* bound: proposals lost, futures timed out,
                                \* leader changes and crashes

ASSUME ScenarioAssumption ==
    \A s \in Scenarios :
        /\ s.nodes # {} /\ Nobody \notin s.nodes
        /\ s.race \subseteq {"callback", "snapshot", "resend", "reconnect",
                             "exit", "lag", "tabs"}
        /\ s.text \in Seq(Nat) /\ s.users \subseteq Tab
        /\ {s.edits, s.conns, s.resends, s.faults} \subseteq Nat
ASSUME IdAssumption ==
    System \notin Tab /\ ClientIds = Tab \cup {System}
ASSUME QueueAssumption == QueueCap \in Nat \ {0}

VARIABLES
    log,            \* the committed entries
    proposals,      \* entries given to Apply and not yet committed or lost
    leader,         \* the server that accepts submissions
    doc,            \* the document of each server
    applied,        \* how much of the log it has been given
    results,        \* its onCommit calls that have not run
    clients,        \* its registry: client id -> connection, 0 for none
    conns,          \* every connection ever made, and its readPump
    tab,            \* the tabs, records of EditorClient
    current,        \* the connection of each tab, 0 for none
    home,           \* the server address in each tab
    booted,         \* servers whose process has proposed the initial text
    \* History and bounds.
    author,         \* the tab that typed each character
    erased,         \* characters that some user has deleted
    proposed,       \* how many proposals there have been
    edits, resends, faults

vars == <<log, proposals, leader, doc, applied, results, clients, conns, tab,
          current, home, booted, author, erased, proposed, scenario, edits,
          resends, faults>>
raftVars == <<log, proposals, leader, proposed, booted>>
docVars == <<doc, applied, results>>
tabVars == <<tab, current, home>>
history == <<author, erased, edits>>
bounds == <<scenario, resends, faults>>

\* localStorage: the tabs of one browser have one client id.
IdOf(t) == IF "tabs" \in Race THEN CHOOSE u \in Tab : TRUE ELSE t

Init ==
    /\ scenario \in Scenarios
    /\ log = <<>> /\ proposals = {} /\ proposed = 0
    /\ leader \in Node
    /\ doc = [n \in Node |-> NewDocument]
    /\ applied = [n \in Node |-> 0]
    /\ results = [n \in Node |-> <<>>]
    /\ clients = [n \in Node |-> [i \in ClientIds |-> 0]]
    /\ conns = <<>>
    /\ tab = [t \in Tab |-> NewTab]
    /\ current = [t \in Tab |-> 0]
    /\ home = [t \in Tab |-> leader]
    /\ booted = {}
    /\ author = <<>> /\ erased = {}
    /\ edits = 0 /\ resends = 0 /\ faults = 0

-----------------------------------------------------------------------------
(* Tabs *)

\* connectToServer and onWsOpen: CONNECT with the revision at hand.
Connect(t) ==
    /\ current[t] = 0
    /\ t \in Users /\ Len(conns) < MaxConns
    /\ conns' = Append(conns,
           [tab |-> t, node |-> home[t], open |-> TRUE, pc |-> "reading",
            up |-> <<[type |-> "CONNECT", rev |-> tab[t].rev]>>, down |-> <<>>,
            ack |-> [type |-> "CONNECT_ACK", text |-> <<>>, rev |-> 0,
                     catchUp |-> <<>>],
            future |-> 0])
    /\ current' = [current EXCEPT ![t] = Len(conns')]
    /\ UNCHANGED <<raftVars, docVars, clients, tab, home, history, bounds>>

\* The connection ends for the tab: onWsClose.
Hangup(t, address) ==
    /\ tab' = [tab EXCEPT ![t] = Closed(@)]
    /\ current' = [current EXCEPT ![t] = 0]
    /\ home' = [home EXCEPT ![t] = address]
    /\ conns' = [conns EXCEPT ![current[t]].open = FALSE,
                              ![current[t]].down = <<>>]

Disconnect(t) ==
    /\ current[t] # 0
    /\ Hangup(t, home[t])
    /\ UNCHANGED <<raftVars, docVars, clients, history, bounds>>

\* The user types the next character, or deletes one.
Type(t) ==
    LET s == tab[t].screen
        c == Len(author) + 1
    IN  /\ tab[t].editing /\ edits < MaxEdits
        /\ edits' = edits + 1
        /\ \/ /\ \E p \in 0..Len(s) : tab' = [tab EXCEPT ![t].screen =
                     SubSeq(s, 1, p) \o <<c>> \o SubSeq(s, p + 1, Len(s))]
              /\ author' = Append(author, t)
              /\ UNCHANGED erased
           \/ /\ \E p \in DOMAIN s :
                     /\ tab' = [tab EXCEPT ![t].screen =
                            SubSeq(s, 1, p - 1) \o SubSeq(s, p + 1, Len(s))]
                     /\ erased' = erased \cup {s[p]}
              /\ UNCHANGED author
        /\ UNCHANGED <<raftVars, docVars, clients, conns, current, home,
                       bounds>>

Transmit(t, state) ==
    conns' = [conns EXCEPT ![current[t]].up =
                  Append(@, Submission(state, IdOf(t)))]

HasEdits(t) ==
    tab[t].editing /\ ~ tab[t].waiting /\ ~ IsIdentity(Unsent(tab[t]))

\* submitTick with something to send.
SubmitTick(t) ==
    /\ HasEdits(t)
    /\ tab' = [tab EXCEPT ![t] = MoveToX(@)]
    /\ Transmit(t, tab'[t])
    /\ UNCHANGED <<raftVars, docVars, clients, current, home, history, bounds>>

\* submitTick two seconds after a submission that has not been acknowledged.
Resend(t) ==
    /\ tab[t].editing /\ tab[t].waiting
    /\ resends < MaxResends
    /\ Transmit(t, tab[t])
    /\ resends' = resends + 1
    /\ UNCHANGED <<raftVars, docVars, clients, tabVars, history, scenario,
                   faults>>

Handled(t, m) ==
    CASE m.type = "CONNECT_ACK" -> HandleConnectAck(tab[t], m)
      [] m.type = "ACK"         -> HandleAck(tab[t], m)
      [] m.type = "BROADCAST"   -> HandleBroadcast(tab[t], m)

Incoming(t) == current[t] # 0 /\ conns[current[t]].down # <<>>

\* onWsMessage.  A redirect closes the connection; an empty address leads to
\* the same server again.
Receive(t) ==
    /\ Incoming(t)
    /\ LET m == Head(conns[current[t]].down)
       IN  \/ /\ m.type = "REDIRECT"
              /\ Hangup(t, IF m.address = Nobody THEN home[t] ELSE m.address)
           \/ /\ m.type # "REDIRECT"
              /\ tab' = [tab EXCEPT ![t] = Handled(t, m)]
              /\ conns' = [conns EXCEPT ![current[t]].down = Tail(@)]
              /\ UNCHANGED <<current, home>>
    /\ UNCHANGED <<raftVars, docVars, clients, history, bounds>>

-----------------------------------------------------------------------------
(* The servers *)

\* send: a full queue drops the message.
Queue(conn, m) ==
    IF conn.open /\ Len(conn.down) < QueueCap
    THEN [conn EXCEPT !.down = Append(@, m)] ELSE conn

\* What a server that is not the leader believes about the leader: nothing
\* while an election is under way.
Hints(n) == ({leader} \cup {h \in {Nobody} : "reconnect" \in Race}) \ {n}

\* The three reads of handleConnect.
ReadPart(conn, d, part) ==
    CASE part = "revisions" ->
             [conn EXCEPT !.ack.catchUp = RevisionsSince(d, Head(conn.up).rev)]
      [] part = "text" -> [conn EXCEPT !.ack.text = d.text]
      [] part = "rev"  -> [conn EXCEPT !.ack.rev = headRev(d)]

Greeted(conn) ==
    [Queue(conn, conn.ack) EXCEPT !.up = Tail(@), !.pc = "reading"]

(***************************************************************************)
(* handleConnect until the reads: the connection is registered under the   *)
(* client's id, then the client is sent to the leader, when that is        *)
(* another server and is known, or goes on as accepted.                    *)
(***************************************************************************)
Admit(k, accepted) ==
    LET c == conns[k]
        n == c.node
    IN  /\ c.pc = "reading" /\ c.future = 0
        /\ c.up # <<>> /\ Head(c.up).type = "CONNECT"
        /\ clients' = [clients EXCEPT ![n][IdOf(c.tab)] = k]
        /\ \/ \E h \in Hints(n) \ {Nobody} :
                  /\ n # leader
                  /\ conns' = [conns EXCEPT ![k] =
                         Queue([c EXCEPT !.up = Tail(@)],
                               [type |-> "REDIRECT", address |-> h])]
           \/ /\ n = leader \/ Nobody \in Hints(n)
              /\ conns' = [conns EXCEPT ![k] = accepted]
        /\ UNCHANGED <<raftVars, docVars, tabVars, history, bounds>>

HandleConnect(k) == Admit(k, [conns[k] EXCEPT !.pc = "revisions"])

\* The next of its reads; after the last one the client is greeted.
ReadNext(k) ==
    LET c == conns[k]
        next == [revisions |-> "text", text |-> "rev", rev |-> "reading"]
        read == ReadPart(c, doc[c.node], c.pc)
    IN  /\ c.pc \in DOMAIN next
        /\ conns' = [conns EXCEPT ![k] =
               IF c.pc = "rev" THEN Greeted(read)
               ELSE [read EXCEPT !.pc = next[c.pc]]]
        /\ UNCHANGED <<raftVars, docVars, clients, tabVars, history, bounds>>

\* Apply of the Raft node, every proposal with a number of its own.
Propose(id, sub, base, cs) ==
    /\ proposed' = proposed + 1
    /\ proposals' = proposals \cup
           {[no |-> proposed', client |-> id, sub |-> sub, base |-> base,
             cs |-> cs]}

\* A submission that is not proposed: a redirect, or on the leader an ERROR,
\* which the client only logs.
Refused(conn) ==
    IF conn.node = leader THEN {conn}
    ELSE {Queue(conn, [type |-> "REDIRECT", address |-> h]) :
              h \in Hints(conn.node)}

(***************************************************************************)
(* handleSubmit: refuse the submission or propose the entry; the readPump  *)
(* then waits for the future.                                              *)
(***************************************************************************)
HandleSubmit(k) ==
    LET c == conns[k]
        m == Head(c.up)
        rest == [c EXCEPT !.up = Tail(@)]
    IN  /\ c.pc = "reading" /\ c.future = 0
        /\ c.up # <<>> /\ m.type = "SUBMIT"
        /\ \/ /\ c.node # leader \/ ~ Validate(m.cs)
              /\ \E answered \in Refused(rest) :
                     conns' = [conns EXCEPT ![k] = answered]
              /\ UNCHANGED <<proposals, proposed>>
           \/ /\ c.node = leader /\ Validate(m.cs)
              /\ Propose(m.client, m.sub, m.base, m.cs)
              /\ conns' = [conns EXCEPT ![k] =
                     [rest EXCEPT !.future = proposed']]
        /\ UNCHANGED <<log, leader, booted, docVars, clients, tabVars, history,
                       bounds>>

\* The future is answered: the entry has been applied or lost.
FutureAnswered(k) ==
    LET c == conns[k]
    IN  /\ c.future # 0 /\ c.pc = "reading"
        /\ ~ \E p \in proposals : p.no = c.future
        /\ \A j \in (applied[c.node] + 1)..Len(log) : log[j].no # c.future
        /\ conns' = [conns EXCEPT ![k].future = 0]
        /\ UNCHANGED <<raftVars, docVars, clients, tabVars, history, bounds>>

\* It times out, or leadership is lost; the entry may yet be committed.
FutureFails(k) ==
    /\ conns[k].future # 0 /\ conns[k].pc = "reading"
    /\ faults < MaxFaults /\ faults' = faults + 1
    /\ conns' = [conns EXCEPT ![k].future = 0]
    /\ UNCHANGED <<raftVars, docVars, clients, tabVars, history, scenario,
                   resends>>

\* removeClient: whatever is registered under the client's id.
RemoveClient(k) ==
    clients' = [clients EXCEPT ![conns[k].node][IdOf(conns[k].tab)] = 0]

\* readPump returns.  What the tab had sent before may have been read or not.
PumpExit(k) ==
    /\ ~ conns[k].open /\ conns[k].pc = "reading" /\ conns[k].future = 0
    /\ conns' = [conns EXCEPT ![k].pc = "gone", ![k].up = <<>>]
    /\ IF \E j \in DOMAIN conns[k].up : conns[k].up[j].type = "CONNECT"
       THEN UNCHANGED clients
       ELSE RemoveClient(k)
    /\ UNCHANGED <<raftVars, docVars, tabVars, history, bounds>>

-----------------------------------------------------------------------------
(* The document *)

\* onCommit: ACK to the origin, BROADCAST to everybody else.
Delivered(cs, n, r) ==
    [k \in DOMAIN cs |->
        CASE clients[n][r.client] = k ->
                 Queue(cs[k], [type |-> "ACK", rev |-> r.rev])
          [] /\ ~ r.dup
             /\ \E i \in ClientIds \ {r.client} : clients[n][i] = k ->
                 Queue(cs[k],
                       [type |-> "BROADCAST", rev |-> r.rev, cs |-> r.cs])
          [] OTHER -> cs[k]]

\* applyCommitted gives the next entry to the FSM, ...
ApplyEntry(n) ==
    /\ applied[n] < Len(log)
    /\ doc' = [doc EXCEPT ![n] = AfterEntry(@, log[applied[n] + 1])]
    /\ applied' = [applied EXCEPT ![n] = @ + 1]
    /\ UNCHANGED <<raftVars, clients, tabVars, history, bounds>>

\* ... and what it has to tell the clients.
News(n) == Results(doc[n], log[applied[n] + 1], doc'[n])

\* Apply starts a goroutine for onCommit.
ApplyNext(n) ==
    /\ ApplyEntry(n)
    /\ results' = [results EXCEPT ![n] = @ \o News(n)]
    /\ UNCHANGED conns

\* One of the goroutines that Apply has started.
OnCommit(n) ==
    /\ \E j \in DOMAIN results[n] :
           /\ conns' = Delivered(conns, n, results[n][j])
           /\ results' = [results EXCEPT ![n] = RemoveAt(@, j)]
    /\ UNCHANGED <<raftVars, doc, applied, clients, tabVars, history, bounds>>

-----------------------------------------------------------------------------
(* The replicated log, and main.go *)

Commit ==
    /\ \E p \in proposals : /\ log' = Append(log, p)
                            /\ proposals' = proposals \ {p}
    /\ UNCHANGED <<leader, proposed, booted, docVars, clients, conns, tabVars,
                   history, bounds>>

\* A proposal is lost with its leader.
LoseProposal ==
    /\ faults < MaxFaults /\ faults' = faults + 1
    /\ \E p \in proposals : proposals' = proposals \ {p}
    /\ UNCHANGED <<log, leader, proposed, booted, docVars, clients, conns,
                   tabVars, history, scenario,
                   resends>>

\* Another server wins an election.
Failover ==
    /\ faults < MaxFaults /\ faults' = faults + 1
    /\ leader' \in Node \ {leader}
    /\ UNCHANGED <<log, proposals, proposed, booted, docVars, clients, conns,
                   tabVars, history, scenario,
                   resends>>

\* A server starts again: its document is built anew from the log, its
\* connections are gone.
Restart(n) ==
    /\ faults < MaxFaults /\ faults' = faults + 1
    /\ doc' = [doc EXCEPT ![n] = NewDocument]
    /\ applied' = [applied EXCEPT ![n] = 0]
    /\ results' = [results EXCEPT ![n] = <<>>]
    /\ clients' = [clients EXCEPT ![n] = [i \in ClientIds |-> 0]]
    /\ conns' = [k \in DOMAIN conns |->
           IF conns[k].node = n
           THEN [conns[k] EXCEPT !.open = FALSE, !.pc = "gone", !.up = <<>>,
                                 !.down = <<>>, !.future = 0]
           ELSE conns[k]]
    /\ tab' = [t \in Tab |->
           IF current[t] # 0 /\ conns[current[t]].node = n
           THEN Closed(tab[t]) ELSE tab[t]]
    /\ current' = [t \in Tab |->
           IF current[t] # 0 /\ conns[current[t]].node = n
           THEN 0 ELSE current[t]]
    /\ booted' = booted \ {n}
    /\ UNCHANGED <<log, proposals, leader, proposed, home, history, scenario,
                   resends>>

\* main.go proposes the initial text once in the life of a process, when the
\* server is leader; the future is not looked at.
Bootstrap ==
    /\ InitText # <<>> /\ leader \notin booted
    /\ booted' = booted \cup {leader}
    /\ Propose(System, 1, 0, Snapshot(InitText))
    /\ UNCHANGED <<log, leader, docVars, clients, conns, tabVars, history,
                   bounds>>

-----------------------------------------------------------------------------
(***************************************************************************)
(* Schedules.  The actions above are the code's.  ConnectAtOnce and        *)
(* ApplyAtOnce are several of them with nothing in between, and each May   *)
(* operator holds an action back; a race of the scenario lifts it.         *)
(***************************************************************************)

\* HandleConnect and its three reads with nothing in between.
ConnectAtOnce(k) ==
    LET d == doc[conns[k].node]
    IN  Admit(k, Greeted(ReadPart(ReadPart(ReadPart(conns[k], d, "revisions"),
                                           d, "text"), d, "rev")))

\* ApplyNext and OnCommit with nothing in between.
ApplyAtOnce(n) ==
    /\ ApplyEntry(n)
    /\ conns' = IF News(n) = <<>> THEN conns
                ELSE Delivered(conns, n, News(n)[1])
    /\ UNCHANGED results

\* Something of submission sub of client i is still on its way: to a server,
\* to the log, to the documents, to onCommit, or back to the tab.
UnderWay(i, sub) ==
    LET Carries(m) == m.type = "SUBMIT" /\ m.client = i /\ m.sub = sub
    IN  \/ \E k \in DOMAIN conns :
              \/ \E j \in DOMAIN conns[k].up : Carries(conns[k].up[j])
              \/ /\ conns[k].open /\ IdOf(conns[k].tab) = i
                 /\ \E j \in DOMAIN conns[k].down :
                        conns[k].down[j].type \in {"ACK", "REDIRECT"}
        \/ \E p \in proposals : p.client = i /\ p.sub = sub
        \/ \E n \in Node :
              \/ \E j \in (applied[n] + 1)..Len(log) :
                     log[j].client = i /\ log[j].sub = sub
              \/ \E j \in DOMAIN results[n] : results[n][j].client = i

\* Nothing would be lost if the tab's connection ended now.
AtRest(t) == ~ tab[t].waiting /\ IsIdentity(Unsent(tab[t]))

MayConnect(t) ==
    "exit" \in Race
        \/ \A k \in DOMAIN conns : conns[k].tab = t => conns[k].pc = "gone"
MayResend(t) == "resend" \in Race \/ ~ UnderWay(IdOf(t), tab[t].sub)
MayGreet(k) ==
    "lag" \in Race \/ Head(conns[k].up).rev <= headRev(doc[conns[k].node])
MayBreak(t) == "reconnect" \in Race \/ AtRest(t)
MayRestart(n) ==
    \A t \in Tab : current[t] # 0 /\ conns[current[t]].node = n => MayBreak(t)
MayMove == "reconnect" \in Race \/ \A t \in Tab : current[t] = 0

Enters(k) ==
    /\ IF "snapshot" \in Race THEN HandleConnect(k) ELSE ConnectAtOnce(k)
    /\ MayGreet(k)
Applies(n) == IF "callback" \in Race THEN ApplyNext(n) ELSE ApplyAtOnce(n)

TabStep(t) ==
    \/ MayConnect(t) /\ Connect(t)
    \/ MayBreak(t) /\ Disconnect(t)
    \/ MayResend(t) /\ Resend(t)
    \/ Type(t) \/ SubmitTick(t) \/ Receive(t)

ServerStep(k) ==
    Enters(k) \/ ReadNext(k) \/ HandleSubmit(k) \/ FutureAnswered(k)
        \/ FutureFails(k) \/ PumpExit(k)

NodeStep(n) ==
    \/ Applies(n) \/ OnCommit(n)
    \/ MayRestart(n) /\ Restart(n)

Next ==
    \/ \E t \in Tab : TabStep(t)
    \/ \E k \in DOMAIN conns : ServerStep(k)
    \/ \E n \in Node : NodeStep(n)
    \/ Commit \/ LoseProposal \/ Bootstrap
    \/ MayMove /\ Failover

Spec == Init /\ [][Next]_vars

(***************************************************************************)
(* Timers fire, messages arrive, goroutines run, a proposal that is not    *)
(* lost is committed, and a tab whose connection has ended is connected    *)
(* again.  Nothing is assumed about users' typing, hanging up or faults.   *)
(* The first three are WF_vars of their actions with ENABLED worked out.   *)
(***************************************************************************)
MessagesArrive(t) == []<> ~ Incoming(t) \/ []<><<Receive(t)>>_vars
EditsAreSent(t) == []<> ~ HasEdits(t) \/ []<><<SubmitTick(t)>>_vars
EntriesAreApplied(n) ==
    []<> ~ (n \in Node /\ applied[n] < Len(log))
        \/ []<><<n \in Node /\ Applies(n)>>_vars

FairSpec ==
    /\ Spec
    /\ \A t \in Tab : /\ MessagesArrive(t) /\ EditsAreSent(t)
                      /\ WF_vars(MayConnect(t) /\ Connect(t))
                      /\ WF_vars(MayResend(t) /\ Resend(t))
    /\ \A k \in 1..Max({s.conns : s \in Scenarios}) : WF_vars(
           /\ k \in DOMAIN conns
           /\ \/ Enters(k) \/ ReadNext(k) \/ HandleSubmit(k)
              \/ FutureAnswered(k) \/ PumpExit(k))
    /\ \A n \in UNION {s.nodes : s \in Scenarios} :
           /\ EntriesAreApplied(n)
           /\ WF_vars(n \in Node /\ OnCommit(n))
    /\ WF_vars(Commit)

-----------------------------------------------------------------------------
(* Properties *)

\* The document that the committed log amounts to.
Truth == DocumentAfter(log, Len(log))

(***************************************************************************)
(* What a client holds as acknowledged is the server's text of the         *)
(* revision that it names as the base of its next submission ("keeps the   *)
(* rev numbers in sync", client.js:359): the server rebases from there.    *)
(***************************************************************************)
ClientInStep ==
    LET truth == Truth
    IN  \A t \in Tab : tab[t].joined =>
            /\ tab[t].rev <= headRev(truth)
            /\ baseText(tab[t]) = TextAt(truth, tab[t].rev)

(***************************************************************************)
(* No edit is lost: a character that nobody has deleted is in the document *)
(* or still on its author's screen, over concurrent edits, lost proposals, *)
(* resubmissions and reconnections.                                        *)
(***************************************************************************)
EditsSurvive ==
    LET text == Truth.text
    IN  \A c \in DOMAIN author \ erased :
            c \in Range(text) \cup Range(tab[author[c]].screen)

(***************************************************************************)
(* A committed submission takes effect: rebased over everything that came  *)
(* in between, its changeset still fits the text (ApplyChangeset of        *)
(* fsm.go:94 returns no error).  One that does not fit is never            *)
(* acknowledged, however often its client sends it again.                  *)
(***************************************************************************)
CommittedTakesEffect ==
    LET revs == Truth.revs
    IN  \A j \in DOMAIN log : \E i \in DOMAIN revs :
            revs[i].source = log[j].client /\ revs[i].sub = log[j].sub

(***************************************************************************)
(* When everything has come to rest every connected client is at the head  *)
(* revision and shows the document: no broadcast was missed or is left.    *)
(***************************************************************************)
Settled ==
    /\ proposals = {}
    /\ \A n \in Node : applied[n] = Len(log) /\ results[n] = <<>>
    /\ \A k \in DOMAIN conns : conns[k].open =>
           conns[k].up = <<>> /\ conns[k].down = <<>> /\ conns[k].pc = "reading"

Converged ==
    Settled => \A t \in Tab : (tab[t].editing /\ AtRest(t)) =>
        tab[t].rev = headRev(Truth) /\ tab[t].screen = Truth.text

(***************************************************************************)
(* A broadcast keeps the screen equal to A then X then Y, so that what is  *)
(* typed next means the same to the server as to the user.                 *)
(***************************************************************************)
BroadcastShown ==
    [][\A t \in Tab :
          (/\ tab'[t].rev # tab[t].rev /\ tab[t].editing
           /\ tab'[t].waiting = tab[t].waiting)
              => LET u == tab'[t]
                     afterX == JsApply(baseText(u), u.X)
                     afterY == JsApply(afterX.text, u.Y)
                 IN  afterX.ok /\ afterY.ok /\ u.screen = afterY.text]_vars

(***************************************************************************)
(* A submission takes effect at most once ("duplicate submissions are      *)
(* discarded via the idempotency guard", README.md:65), whatever is sent   *)
(* again, proposed late, replayed or applied out of step.                  *)
(***************************************************************************)
SubmissionOnce ==
    \A n \in Node : \A i, j \in DOMAIN doc[n].revs :
        (i # j /\ doc[n].revs[i].source = doc[n].revs[j].source)
            => doc[n].revs[i].sub # doc[n].revs[j].sub

(***************************************************************************)
(* "messages arrive in order and without duplication"                      *)
(* (easysync-algorithm-description.md:496): the ACKs and BROADCASTs that   *)
(* wait for an editing client are exactly the next revisions, and unless   *)
(* onCommit has still to run, the last of them is the server's head.  The  *)
(* client does not look at the numbers (client.js:425).                    *)
(***************************************************************************)
InOrder ==
    \A t \in Tab : (current[t] # 0 /\ tab[t].editing) =>
        LET c == conns[current[t]]
        IN  /\ \A j \in DOMAIN c.down :
                   c.down[j].type \in {"ACK", "BROADCAST"} =>
                       c.down[j].rev = tab[t].rev + j
            /\ results[c.node] = <<>> =>
                   headRev(doc[c.node]) = tab[t].rev + Len(c.down)

(***************************************************************************)
(* A connecting client is sent "the contents of HEADTEXT, and the          *)
(* corresponding revision number" (easysync-algorithm-description.md:310), *)
(* and the revisions that lead there.                                      *)
(***************************************************************************)
GreetingConsistent ==
    \A k \in DOMAIN conns : \A j \in DOMAIN conns[k].down :
        LET m == conns[k].down[j]
            first == m.rev - Len(m.catchUp) + 1
        IN  m.type = "CONNECT_ACK" =>
                /\ m.text = TextAt(Truth, m.rev)
                /\ Len(m.catchUp) <= m.rev
                /\ m.catchUp = SubSeq(Truth.revs, first, m.rev)

(***************************************************************************)
(* A client that has been acknowledged may forget its edit: every          *)
(* submission before the one it waits for is a revision of the document    *)
(* that the committed log amounts to, and survives any server.             *)
(***************************************************************************)
AckMeansCommitted ==
    LET revs == Truth.revs
    IN  \A t \in Tab :
            \A s \in 1..(tab[t].sub - IF tab[t].waiting THEN 1 ELSE 0) :
                \E j \in DOMAIN revs :
                    revs[j].source = IdOf(t) /\ revs[j].sub = s

(***************************************************************************)
(* A submission does not wait for ever: it is acknowledged, or the         *)
(* connection ends and is made anew, also when the first acknowledgement   *)
(* went to a connection that is gone and the server sees a duplicate.      *)
(* This is promised to a client that is in step with the server; the edit  *)
(* of another one may fit no text, and fsm.go:95 drops it without a word.  *)
(***************************************************************************)
InStepWithServer(t) ==
    LET truth == Truth
    IN  /\ tab[t].rev <= headRev(truth)
        /\ baseText(tab[t]) = TextAt(truth, tab[t].rev)

Acknowledged ==
    \A t \in Tab : tab[t].waiting ~>
        (~ tab[t].waiting \/ current[t] = 0 \/ ~ InStepWithServer(t))

(***************************************************************************)
(* That a client which waits is acknowledged or connects again whatever it *)
(* holds (client.js:519) is more than the code keeps.                      *)
(***************************************************************************)
AlwaysAcknowledged ==
    \A t \in Tab : tab[t].waiting ~> (~ tab[t].waiting \/ current[t] = 0)

=============================================================================
