---------------------------- MODULE EditorClient ----------------------------
(***************************************************************************)
(* The browser's half of the protocol, web/client.js: a tab keeps A (what  *)
(* the server has acknowledged), X (sent, not acknowledged), Y (typed, not *)
(* sent) and the screen, and changes them on every message and every tick  *)
(* of its timer.  Each handler is a function of the tab.                   *)
(*                                                                         *)
(* baseText is always applyChangeset('', A), so it is not kept.  Before    *)
(* the first CONNECT_ACK A, X and Y are null in the code: joined is FALSE. *)
(***************************************************************************)
EXTENDS OT

\* client.js has its own copy of each of these, the same op for op.
identity(n) == Identity(n)
compose(A, B) == Compose(A, B)
follow(A, B) == Follow(A, B)
diffToChangeset(old, new) == DiffToChangeset(old, new)

NewTab ==
    [joined |-> FALSE, A |-> identity(0), X |-> identity(0), Y |-> identity(0),
     rev |-> 0, sub |-> 0, waiting |-> FALSE, screen |-> <<>>,
     editing |-> FALSE]

\* applyChangeset of client.js: a wrong length is an exception, but nothing
\* else is checked; slice stops at the end of the text.
JsApplyOp(text, acc, o) ==
    LET Upto(n) == IF n < Len(text) THEN n ELSE Len(text)
    IN  [pos |-> acc.pos + Consumed(o),
         out |-> acc.out \o
             CASE o.op = "retain" ->
                      SubSeq(text, acc.pos + 1, Upto(acc.pos + o.n))
               [] o.op = "insert" -> o.chars
               [] o.op = "delete" -> <<>>]

JsApply(text, c) ==
    LET acc[i \in 0..Len(c.ops)] ==
            IF i = 0 THEN [pos |-> 0, out |-> <<>>]
            ELSE JsApplyOp(text, acc[i - 1], c.ops[i])
    IN  [ok |-> c.oldLen = Len(text), text |-> acc[Len(c.ops)].out]

IsIdentity(c) ==
    /\ c.oldLen = c.newLen
    /\ c.oldLen = 0 \/ c.ops = <<Retain(c.oldLen)>>

\* The text that A stands for, and the A that stands for a text.
baseText(tab) == JsApply(<<>>, tab.A).text
Snapshot(text) ==
    [oldLen |-> 0, newLen |-> Len(text),
     ops |-> IF text = <<>> THEN <<>> ELSE <<Insert(text)>>]

(***************************************************************************)
(* One missed revision: X and then Y are rebased, Y with the X that has    *)
(* just been replaced.  When the revision does not fit, nothing changes.   *)
(***************************************************************************)
CatchUp(tab, rev) ==
    LET text == JsApply(baseText(tab), rev.cs)
        X == follow(rev.cs, tab.X)
    IN  IF ~ text.ok THEN tab
        ELSE [tab EXCEPT !.A = Snapshot(text.text), !.X = X,
                         !.Y = follow(follow(X, rev.cs), tab.Y)]

\* Defect: the revisions that the client has missed are not applied.
ForgetCatchUp(tab, m) ==
    [tab EXCEPT !.A = IF tab.rev = 0 THEN Snapshot(m.text) ELSE @]

\* The document part of handleConnectAck.  At revision 0 the server's text is
\* taken, later the missed revisions are applied to the text at hand.
Resynchronise(tab, m) ==
    LET state[i \in 0..Len(m.catchUp)] ==
            IF i = 0 THEN tab ELSE CatchUp(state[i - 1], m.catchUp[i])
    IN  IF tab.rev = 0 THEN [tab EXCEPT !.A = Snapshot(m.text)]
        ELSE state[Len(m.catchUp)]

\* The screen becomes A then X then Y; if they do not fit together, or the tab
\* is new, X and Y are given up.
Redrawn(tab, rev) ==
    LET base == baseText(tab)
        afterX == JsApply(base, tab.X)
        afterY == JsApply(afterX.text, tab.Y)
        common == [tab EXCEPT !.joined = TRUE, !.rev = rev, !.editing = TRUE,
                              !.A = Snapshot(base)]
    IN  IF tab.joined /\ afterX.ok /\ afterY.ok
        THEN [common EXCEPT !.screen = afterY.text]
        ELSE [common EXCEPT !.screen = base, !.X = identity(Len(base)),
                            !.Y = identity(Len(base))]

\* handleConnectAck.  waitingForAck stays as it was, and what was typed since Y
\* was last computed is overwritten.
HandleConnectAck(tab, m) == Redrawn(Resynchronise(tab, m), m.rev)

\* Defect: the revision of the acknowledgement is not taken over.
AckKeepsRev(tab, m) ==
    LET A == compose(tab.A, tab.X)
    IN  IF ~ tab.joined THEN tab
        ELSE [tab EXCEPT !.A = A, !.X = identity(A.newLen), !.waiting = FALSE]

\* handleAck: whatever is in X counts as acknowledged.
HandleAck(tab, m) ==
    LET A == compose(tab.A, tab.X)
    IN  IF ~ tab.joined THEN tab
        ELSE [tab EXCEPT !.A = A, !.X = identity(A.newLen), !.rev = m.rev,
                         !.waiting = FALSE]

\* Defect: the edit of another user is shown as if X were not there.
BroadcastUnderX(tab, m) ==
    LET afterX == JsApply(baseText(tab), tab.X)
        Y == diffToChangeset(afterX.text, tab.screen)
        XB == follow(tab.X, m.cs)
    IN  IF ~ tab.joined \/ ~ afterX.ok THEN tab
        ELSE [tab EXCEPT !.A = compose(tab.A, m.cs), !.X = follow(m.cs, tab.X),
                         !.Y = follow(XB, Y), !.rev = m.rev,
                         !.screen = JsApply(tab.screen, follow(Y, m.cs)).text]

(***************************************************************************)
(* handleBroadcast: Y is brought up to date with the screen, the edit m.cs *)
(* of another user goes below X and Y, and what is left of it on top of    *)
(* them is done to the screen.  An exception leaves the tab as it was.     *)
(***************************************************************************)
HandleBroadcast(tab, m) ==
    LET afterX == JsApply(baseText(tab), tab.X)
        Y == diffToChangeset(afterX.text, tab.screen)
        XB == follow(tab.X, m.cs)
    IN  IF ~ tab.joined \/ ~ afterX.ok THEN tab
        ELSE [tab EXCEPT !.A = compose(tab.A, m.cs), !.X = follow(m.cs, tab.X),
                         !.Y = follow(XB, Y), !.rev = m.rev,
                         !.screen = JsApply(tab.screen, follow(Y, XB)).text]

\* What submitTick would send: the difference between A then X and the screen.
Unsent(tab) ==
    LET afterX == JsApply(baseText(tab), tab.X)
    IN  diffToChangeset(IF ~ IsIdentity(tab.X) /\ afterX.ok
                        THEN afterX.text ELSE baseText(tab), tab.screen)

\* submitTick when nothing is waiting: Y becomes X and has a number.
MoveToX(tab) ==
    [tab EXCEPT !.X = Unsent(tab), !.Y = identity(Len(tab.screen)),
                !.waiting = TRUE, !.sub = @ + 1]

\* sendSubmit, also for the second time: whatever X and revision are now.
Submission(tab, id) ==
    [type |-> "SUBMIT", client |-> id, sub |-> tab.sub, base |-> tab.rev,
     cs |-> tab.X]

\* onWsClose: the editor is disabled and the timer stopped.
Closed(tab) == [tab EXCEPT !.editing = FALSE]

=============================================================================
