--------------------------------- MODULE OT ---------------------------------
(***************************************************************************)
(* The operational transformation of internal/ot: changesets, what they do *)
(* to a text, Follow, Compose and the diff that turns two texts into a     *)
(* changeset.  web/client.js has a line-by-line copy of the same functions *)
(* for the browser.                                                        *)
(*                                                                         *)
(* A text is a sequence of characters and a character a number, so that    *)
(* the order of strings is the lexicographic one.  The code counts bytes;  *)
(* here every character has length 1.                                      *)
(***************************************************************************)
EXTENDS Naturals, Sequences, SequencesExt

Retain(n) == [op |-> "retain", n |-> n]
Delete(n) == [op |-> "delete", n |-> n]
Insert(s) == [op |-> "insert", chars |-> s]

IsInsert(ops) == ops # <<>> /\ Head(ops).op = "insert"

\* What an op takes from the source text and what it puts into the new one.
Consumed(o) == IF o.op = "insert" THEN 0 ELSE o.n
Produced(o) == CASE o.op = "retain" -> o.n
                 [] o.op = "insert" -> Len(o.chars)
                 [] o.op = "delete" -> 0

TotalOf(F(_), ops) ==
    LET sum[i \in 0..Len(ops)] ==
            IF i = 0 THEN 0 ELSE sum[i - 1] + F(ops[i])
    IN  sum[Len(ops)]

\* Identity: the changeset of no change.
Identity(n) ==
    [oldLen |-> n, newLen |-> n, ops |-> IF n = 0 THEN <<>> ELSE <<Retain(n)>>]

\* Validate: no empty op, and both lengths are the ones the ops amount to.
Validate(c) ==
    /\ \A i \in DOMAIN c.ops : Consumed(c.ops[i]) + Produced(c.ops[i]) > 0
    /\ TotalOf(Consumed, c.ops) = c.oldLen
    /\ TotalOf(Produced, c.ops) = c.newLen

-----------------------------------------------------------------------------
(* ApplyChangeset *)

\* The loop over the ops: pos is how far it is in the text, out what it has
\* written.  It fails for good with an op beyond the end.
ApplyOp(text, acc, o) ==
    IF ~ acc.ok \/ acc.pos + Consumed(o) > Len(text)
    THEN [acc EXCEPT !.ok = FALSE]
    ELSE [ok  |-> TRUE,
          pos |-> acc.pos + Consumed(o),
          out |-> acc.out \o
              CASE o.op = "retain" -> SubSeq(text, acc.pos + 1, acc.pos + o.n)
                [] o.op = "insert" -> o.chars
                [] o.op = "delete" -> <<>>]

\* The text, or a failure: a wrong length, an op beyond the end, a rest.
ApplyChangeset(text, c) ==
    LET acc[i \in 0..Len(c.ops)] ==
            IF i = 0
            THEN [ok |-> c.oldLen = Len(text), pos |-> 0, out |-> <<>>]
            ELSE ApplyOp(text, acc[i - 1], c.ops[i])
        end == acc[Len(c.ops)]
    IN  IF end.ok /\ end.pos = Len(text)
        THEN [ok |-> TRUE, text |-> end.out]
        ELSE [ok |-> FALSE, text |-> <<>>]

-----------------------------------------------------------------------------
(* Follow and Compose *)

\* addOp: an op of the same kind as the last one is merged into it.
addOp(ops, o) ==
    IF ops = <<>> \/ Last(ops).op # o.op
    THEN Append(ops, o)
    ELSE Front(ops) \o
             <<IF o.op = "insert" THEN Insert(Last(ops).chars \o o.chars)
               ELSE [o EXCEPT !.n = Last(ops).n + o.n]>>

\* consume: n characters of the first op, never more than it has.
consume(ops, n) ==
    LET o == Head(ops)
    IN  IF o.op = "insert"
        THEN IF n = Len(o.chars) THEN Tail(ops)
             ELSE <<Insert(SubSeq(o.chars, n + 1, Len(o.chars)))>> \o Tail(ops)
        ELSE IF n = o.n THEN Tail(ops)
             ELSE <<[o EXCEPT !.n = o.n - n]>> \o Tail(ops)

\* s <= t, the comparison of Go strings.
LexLeq(s, t) ==
    \/ IsPrefix(s, t)
    \/ \E i \in 1..Len(s) :
           /\ i <= Len(t) /\ s[i] < t[i]
           /\ \A j \in 1..(i - 1) : s[j] = t[j]

\* Defect: the insert that was committed first goes first, whatever the texts.
CommittedFirst(s, t) == TRUE

\* The tie-break of two inserts at one position: does A's text s go first?
InsertsFirst(s, t) == LexLeq(s, t)

\* Defect: what A keeps is kept, although B deletes it.
DeleteLost(a, b, n) == IF a.op = "retain" THEN <<Retain(n)>> ELSE <<>>

\* What Follow leaves of B's op on n characters of the common text: all of it,
\* unless A has deleted them.
Rebased(a, b, n) ==
    IF a.op = "retain" THEN <<[op |-> b.op, n |-> n]>> ELSE <<>>

\* addOp for an op that may be missing.
addOps(ops, new) == IF new = <<>> THEN ops ELSE addOp(ops, new[1])

\* One round of the loop of Follow: a and b are what is left of the ops of A
\* and B, out is the part of the result built so far.
FollowRound(s) ==
    LET a == s.a
        b == s.b
        aFirst == IsInsert(a) /\ (IsInsert(b) =>
                      InsertsFirst(Head(a).chars, Head(b).chars))
        bFirst == IsInsert(b) /\ ~ aFirst
        ended == ~ aFirst /\ ~ bFirst /\ (a = <<>> \/ b = <<>>)
        n == IF Head(a).n < Head(b).n THEN Head(a).n ELSE Head(b).n
    IN  CASE aFirst -> [a |-> Tail(a), b |-> b,
                        out |-> addOp(s.out, Retain(Len(Head(a).chars)))]
          [] bFirst -> [a |-> a, b |-> Tail(b), out |-> addOp(s.out, Head(b))]
          [] ended  -> s
          [] OTHER  -> [a |-> consume(a, n), b |-> consume(b, n),
                        out |-> addOps(s.out, Rebased(Head(a), Head(b), n))]

\* The loop.  Every round ends an op of A or of B, so there are no more rounds
\* than ops.
FollowOps(a, b) ==
    LET state[i \in 0..(Len(a) + Len(b))] ==
            IF i = 0 THEN [a |-> a, b |-> b, out |-> <<>>]
            ELSE FollowRound(state[i - 1])
    IN  state[Len(a) + Len(b)].out

\* Defect: the new length leaves out what A has inserted and deleted.
FollowLength(A, B) ==
    [oldLen |-> A.newLen, newLen |-> B.newLen,
     ops |-> FollowOps(A.ops, B.ops)]

\* Follow: B rebased on top of A.
Follow(A, B) ==
    LET ops == FollowOps(A.ops, B.ops)
    IN  [oldLen |-> A.newLen, newLen |-> TotalOf(Produced, ops), ops |-> ops]

\* Defect: B's delete of what A has just inserted is passed on.
OverlapKept(a, b, n) ==
    IF a.op = "insert" /\ b.op = "retain"
    THEN <<Insert(SubSeq(a.chars, 1, n))>>
    ELSE <<[op |-> b.op, n |-> n]>>

\* What Compose keeps of n characters that A leaves and B sees: B's delete of
\* an insert of A leaves nothing.
Overlap(a, b, n) ==
    CASE a.op = "retain" -> <<[op |-> b.op, n |-> n]>>
      [] a.op = "insert" /\ b.op = "retain" -> <<Insert(SubSeq(a.chars, 1, n))>>
      [] a.op = "insert" /\ b.op = "delete" -> <<>>

\* One round of the loop of Compose.
ComposeRound(s) ==
    LET a == s.a
        b == s.b
        bInserts == IsInsert(b)
        aDeletes == ~ bInserts /\ a # <<>> /\ Head(a).op = "delete"
        ended == ~ bInserts /\ ~ aDeletes /\ (a = <<>> \/ b = <<>>)
        left == Produced(Head(a))
        n == IF left < Head(b).n THEN left ELSE Head(b).n
    IN  CASE bInserts -> [a |-> a, b |-> Tail(b), out |-> addOp(s.out, Head(b))]
          [] aDeletes -> [a |-> Tail(a), b |-> b, out |-> addOp(s.out, Head(a))]
          [] ended    -> s
          [] OTHER    -> [a |-> consume(a, n), b |-> consume(b, n),
                          out |-> addOps(s.out, Overlap(Head(a), Head(b), n))]

\* The loop, which also ends an op in every round.
ComposeOps(a, b) ==
    LET state[i \in 0..(Len(a) + Len(b))] ==
            IF i = 0 THEN [a |-> a, b |-> b, out |-> <<>>]
            ELSE ComposeRound(state[i - 1])
    IN  state[Len(a) + Len(b)].out

\* Compose: A and then B as one changeset.
Compose(A, B) ==
    [oldLen |-> A.oldLen, newLen |-> B.newLen,
     ops |-> ComposeOps(A.ops, B.ops)]

-----------------------------------------------------------------------------
(* DiffToChangeset *)

\* The cells of the table: how much of either text has been seen.
Cells(old, new) == (0..Len(old)) \X (0..Len(new))

\* Defect: the table is never filled in.
EmptyTable(old, new) == [c \in Cells(old, new) |-> 0]

\* One cell: length of the longest common subsequence of the prefixes.
LcsCell(old, new, dp, i, j) ==
    CASE i = 0 \/ j = 0 -> 0
      [] i > 0 /\ j > 0 /\ old[i] = new[j] -> dp[<<i - 1, j - 1>>] + 1
      [] OTHER -> IF dp[<<i - 1, j>>] > dp[<<i, j - 1>>]
                  THEN dp[<<i - 1, j>>] ELSE dp[<<i, j - 1>>]

\* The table dp.
LcsTable(old, new) ==
    LET dp[c \in Cells(old, new)] == LcsCell(old, new, dp, c[1], c[2])
    IN  dp

\* One step of the way back through the table: the op at a cell comes after
\* those of the cell that the step leads to.
BackStep(old, new, dp, ops, i, j) ==
    CASE i = 0 /\ j = 0 -> <<>>
      [] i > 0 /\ j > 0 /\ old[i] = new[j] ->
             addOp(ops[<<i - 1, j - 1>>], Retain(1))
      [] j > 0 /\ (i = 0 \/ (old[i] # new[j]
                             /\ dp[<<i, j - 1>>] >= dp[<<i - 1, j>>])) ->
             addOp(ops[<<i, j - 1>>], Insert(<<new[j]>>))
      [] OTHER -> addOp(ops[<<i - 1, j>>], Delete(1))

\* The whole way; ops comes out in the order of the text.
Backtrack(old, new, dp) ==
    LET ops[c \in Cells(old, new)] == BackStep(old, new, dp, ops, c[1], c[2])
    IN  ops[<<Len(old), Len(new)>>]

DiffToChangeset(old, new) ==
    [oldLen |-> Len(old), newLen |-> Len(new),
     ops |-> Backtrack(old, new, LcsTable(old, new))]

=============================================================================
