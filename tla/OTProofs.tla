------------------------------ MODULE OTProofs ------------------------------
(***************************************************************************)
(* Proofs about two users who edit one text at the same time, for texts    *)
(* and edits of any length.  EditsInv is the inductive invariant; what the *)
(* functions of OT do to a text is in OTLemmas.                            *)
(***************************************************************************)
EXTENDS OTEdits, OTLemmas

-----------------------------------------------------------------------------
(* The changesets of users *)

\* The loop that builds a changeset.
Builds(f, n, ins, keep) ==
    /\ f[0] = Gap(<<>>, ins[0])
    /\ \A i \in 1..n : f[i] = Gap(addOp(f[i - 1], Char(keep[i])), ins[i])
    /\ Build(n, ins, keep) = f[n]

LEMMA BuildStates ==
    ASSUME NEW n \in Nat, NEW ins, NEW keep
    PROVE  \E f : Builds(f, n, ins, keep)
<1>. DEFINE first == Gap(<<>>, ins[0])
            Step(e, i) == Gap(addOp(e, Char(keep[i])), ins[i])
            Run(k, f) == /\ f[0] = first
                         /\ \A i \in 1..k : f[i] = Step(f[i - 1], i)
            S == {k \in 0..n : \E f : Run(k, f)}
            State(f) == [i \in 0..n |-> IF i = 0 THEN first ELSE Step(f[i - 1], i)]
<1>1. Build(n, ins, keep) = (CHOOSE f : f = State(f))[n]
    BY Zenon DEF Build
<1>2. \A f : State(f) = [i \in 0..n |-> IF i = 0 THEN first ELSE Step(f[i - 1], i)]
    BY Zenon
<1>. HIDE DEF first, Step
<1>3. 0 \in S
    <2>1. Run(0, [i \in 0..0 |-> first])
        OBVIOUS
    <2>. HIDE DEF Run
    <2>. QED
        BY <2>1
<1>4. ASSUME NEW k \in 0..(n - 1), k \in S
      PROVE  k + 1 \in S
    <2>1. PICK f : Run(k, f)
        BY <1>4
    <2>. DEFINE g == [i \in 0..(k + 1) |-> IF i = k + 1 THEN Step(f[k], i) ELSE f[i]]
    <2>2. ASSUME NEW i \in 1..(k + 1) PROVE g[i] = Step(g[i - 1], i)
        <3>1. i - 1 \in 0..(k + 1) /\ i - 1 # k + 1 /\ g[i - 1] = f[i - 1]
            OBVIOUS
        <3>2. CASE i = k + 1
            BY <3>1, <3>2
        <3>3. CASE i # k + 1
            <4>1. i \in 1..k /\ g[i] = f[i]
                BY <3>3
            <4>. QED
                BY <3>1, <4>1, <2>1
        <3>. QED
            BY <3>2, <3>3
    <2>3. g[0] = first
        BY <2>1
    <2>4. Run(k + 1, g)
        <3>. HIDE DEF g
        <3>. QED
            BY <2>2, <2>3
    <2>5. k + 1 \in 0..n
        OBVIOUS
    <2>. QED
        BY <2>4, <2>5
<1>5. n \in S
    <2>. HIDE DEF S
    <2>1. 0..n \subseteq S
        BY <1>3, <1>4, Induction
    <2>. QED
        BY <2>1
<1>6. PICK f : Run(n, f)
    BY <1>5
<1>. DEFINE h == [i \in 0..n |-> f[i]]
<1>7. h = State(h)
    <2>1. ASSUME NEW i \in 0..n
          PROVE  f[i] = IF i = 0 THEN first ELSE Step(h[i - 1], i)
        <3>1. CASE i = 0
            BY <3>1, <1>6
        <3>2. CASE i # 0
            <4>1. i \in 1..n /\ i - 1 \in 0..n
                BY <3>2
            <4>. QED
                BY <3>2, <4>1, <1>6
        <3>. QED
            BY <3>1, <3>2
    <2>. QED
        BY <2>1
<1>8. PICK z : z = State(z) /\ Build(n, ins, keep) = z[n]
    <2>. HIDE DEF h, State
    <2>1. (CHOOSE y : y = State(y)) = State(CHOOSE y : y = State(y))
        BY <1>7, Zenon
    <2>. QED
        BY <1>1, <2>1
<1>9. z[0] = first /\ \A i \in 1..n : z[i] = Step(z[i - 1], i)
    <2>1. \A i \in 0..n : z[i] = IF i = 0 THEN first ELSE Step(z[i - 1], i)
        BY <1>8, Zenon
    <2>2. 0 \in 0..n /\ \A i \in 1..n : i \in 0..n /\ i # 0
        OBVIOUS
    <2>. QED
        BY <2>1, <2>2
<1>. QED
    BY <1>8, <1>9 DEF first, Step, Builds

\* A gap writes what is inserted there.
LEMMA WriteGap ==
    ASSUME NEW x, NEW out, NEW w, NEW q \in Nat, Written(x, out, w, q),
           Normal(out), NEW s \in Text
    PROVE  \E v \in Text : Written(x, Gap(out, s), v, q) /\ Normal(Gap(out, s))
<1>1. CASE s = <<>>
    <2>1. Gap(out, s) = out /\ w \in Text
        BY <1>1 DEF Gap, Written
    <2>. QED
        BY <2>1
<1>2. CASE s # <<>>
    <2>1. Gap(out, s) = addOp(out, Insert(s))
        BY <1>2 DEF Gap
    <2>2. Written(x, addOp(out, Insert(s)), w \o s, q)
        BY <1>2, WriteInsert
    <2>3. w \o s \in Text /\ out \in Seq(OpSet)
        BY <2>2 DEF Written
    <2>4. Insert(s) \in OpSet
        BY <1>2 DEF Insert, OpSet
    <2>5. Normal(addOp(out, Insert(s)))
        BY <2>3, <2>4, NormalAddOp
    <2>. QED
        BY <2>1, <2>2, <2>3, <2>5
<1>. QED
    BY <1>1, <1>2

\* One character of the text, kept or deleted.
LEMMA WriteChar ==
    ASSUME NEW x \in Text, NEW out, NEW w, NEW q \in Nat, Written(x, out, w, q),
           Normal(out), q < Len(x), NEW keep \in BOOLEAN
    PROVE  \E v \in Text : /\ Written(x, addOp(out, Char(keep)), v, q + 1)
                           /\ Normal(addOp(out, Char(keep)))
<1>1. Char(keep) \in OpSet
    BY DEF Char, Retain, Delete, OpSet
<1>2. Normal(addOp(out, Char(keep)))
    BY <1>1, NormalAddOp DEF Written
<1>3. CASE keep
    <2>. DEFINE s == <<x[q + 1]>>
    <2>1. q + 1 \in 1..Len(x)
        BY LenProperties DEF Text
    <2>2. x[q + 1] \in Nat
        BY <2>1, ElementOfSeq DEF Text
    <2>3. s \in Text /\ s # <<>> /\ Len(s) = 1 /\ s[1] = x[q + 1]
        BY <2>2 DEF Text
    <2>4. Lies(s, x, q)
        <3>. HIDE DEF s
        <3>. QED
            BY <2>3 DEF Lies
    <2>. HIDE DEF s
    <2>5. Written(x, addOp(out, Retain(1)), w \o s, q + 1)
        BY <2>3, <2>4, WriteRetain
    <2>. QED
        BY <1>2, <1>3, <2>5 DEF Char, Written
<1>4. CASE ~ keep
    <2>1. Written(x, addOp(out, Delete(1)), w, q + 1)
        BY WriteDelete
    <2>. QED
        BY <1>2, <1>4, <2>1 DEF Char, Written
<1>. QED
    BY <1>3, <1>4

(***************************************************************************)
(* Every changeset a user makes leads to a text, and no two inserts in it  *)
(* are next to each other.                                                 *)
(***************************************************************************)
LEMMA ChangesetLeads ==
    ASSUME NEW t \in Text, NEW c \in Changesets(Len(t))
    PROVE  \E u \in Text : Leads(t, c, u) /\ Normal(c.ops)
<1>. DEFINE n == Len(t)
<1>1. n \in Nat
    BY LenProperties DEF Text
<1>. HIDE DEF n
<1>2. PICK ins \in [0..n -> Inserts], keep \in [1..n -> BOOLEAN] :
          c = [oldLen |-> n, newLen |-> TotalOf(Produced, Build(n, ins, keep)),
               ops |-> Build(n, ins, keep)]
    <2>1. c \in Changesets(n)
        BY DEF n
    <2>2. PICK ops \in {Build(n, ins, keep) : ins \in [0..n -> Inserts],
                                              keep \in [1..n -> BOOLEAN]} :
              c = [oldLen |-> n, newLen |-> TotalOf(Produced, ops), ops |-> ops]
        BY <2>1 DEF Changesets
    <2>3. PICK ins \in [0..n -> Inserts], keep \in [1..n -> BOOLEAN] :
              ops = Build(n, ins, keep)
        BY <2>2
    <2>. QED
        BY <2>2, <2>3
<1>3. \A i \in 0..n : ins[i] \in Text
    BY <1>2, EditsAssumption DEF Text
<1>12. PICK f : Builds(f, n, ins, keep)
    BY <1>1, BuildStates, Zenon
<1>4. /\ f[0] = Gap(<<>>, ins[0])
      /\ \A i \in 1..n :
             f[i] = Gap(addOp(f[i - 1], Char(keep[i])), ins[i])
      /\ Build(n, ins, keep) = f[n]
    BY <1>12 DEF Builds
<1>. DEFINE S == {i \in 0..n : \E w \in Text : Written(t, f[i], w, i) /\ Normal(f[i])}
<1>5. 0 \in S
    <2>1. <<>> \in Seq(OpSet) /\ <<>> \in Text /\ Len(<<>>) = 0
        BY DEF Text
    <2>2. Align(t, 0, <<>>, <<>>, 0, 0, 0)
        BY AlignEmpty
    <2>3. Written(t, <<>>, <<>>, 0)
        BY <2>1, <2>2 DEF Written
    <2>4. Normal(<<>>)
        BY DEF Normal
    <2>5. 0 \in 0..n /\ ins[0] \in Text
        BY <1>1, <1>3
    <2>6. \E v \in Text : /\ Written(t, Gap(<<>>, ins[0]), v, 0)
                          /\ Normal(Gap(<<>>, ins[0]))
        BY <2>3, <2>4, <2>5, WriteGap
    <2>. QED
        BY <1>4, <2>5, <2>6
<1>6. ASSUME NEW i \in 0..(n - 1), i \in S
      PROVE  i + 1 \in S
    <2>1. /\ i \in Nat /\ i < n /\ i + 1 \in Nat /\ i + 1 \in 1..n /\ i + 1 \in 0..n
          /\ (i + 1) - 1 = i
        BY <1>1
    <2>2. PICK w \in Text : Written(t, f[i], w, i) /\ Normal(f[i])
        BY <1>6
    <2>3. keep[i + 1] \in BOOLEAN /\ ins[i + 1] \in Text
        BY <1>2, <1>3, <2>1
    <2>. DEFINE e == addOp(f[i], Char(keep[i + 1]))
    <2>4. PICK v \in Text : Written(t, e, v, i + 1) /\ Normal(e)
        BY <2>1, <2>2, <2>3, WriteChar DEF n
    <2>5. f[i + 1] = Gap(e, ins[i + 1])
        BY <1>4, <2>1
    <2>. HIDE DEF e
    <2>6. \E z \in Text : /\ Written(t, Gap(e, ins[i + 1]), z, i + 1)
                          /\ Normal(Gap(e, ins[i + 1]))
        BY <2>1, <2>3, <2>4, WriteGap
    <2>. QED
        BY <2>1, <2>5, <2>6
<1>7. n \in S
    <2>1. n \in 0..n
        BY <1>1
    <2>. HIDE DEF S
    <2>. QED
        BY <1>1, <1>5, <1>6, <2>1, Induction
<1>8. PICK w \in Text : Written(t, f[n], w, n) /\ Normal(f[n])
    BY <1>7
<1>9. /\ c.oldLen = n /\ c.ops = f[n] /\ c.newLen = TotalOf(Produced, f[n])
    BY <1>2, <1>4
<1>10. f[n] \in Seq(OpSet) /\ Align(t, 0, f[n], w, 0, n, Len(w)) /\ Len(w) \in Nat
    BY <1>8, LenProperties DEF Written, Text
<1>11. TotalOf(Produced, f[n]) = Len(w)
    BY <1>1, <1>10, TotalProduced
<1>. QED
    BY <1>8, <1>9, <1>10, <1>11 DEF Leads, n

-----------------------------------------------------------------------------
(* Concurrent edits *)

(***************************************************************************)
(* The inductive invariant: A leads from the text to some x and B to some  *)
(* y, C leads on from x, and what the users make is merged.                *)
(***************************************************************************)
Edited(x, y, z) ==
    /\ Leads(text, A, x) /\ Leads(text, B, y) /\ Leads(x, C, z)
    /\ Normal(A.ops) /\ Normal(B.ops)

EditsInv == text \in Text /\ \E x, y, z \in Text : Edited(x, y, z)

LEMMA EditsInit == Init => EditsInv
<1>. SUFFICES ASSUME Init PROVE EditsInv
    OBVIOUS
<1>1. text \in Text
    BY EditsAssumption DEF Init, Text
<1>2. Leads(text, A, text) /\ Normal(A.ops) /\ B = A /\ C = A
    BY <1>1, IdentityLeads DEF Init
<1>. QED
    BY <1>1, <1>2 DEF EditsInv, Edited

LEMMA EditsStep == EditsInv /\ [Next]_vars => EditsInv'
<1>. SUFFICES ASSUME EditsInv, [Next]_vars PROVE EditsInv'
    OBVIOUS
<1>1. text \in Text
    BY DEF EditsInv
<1>2. PICK x, y, z \in Text : Edited(x, y, z)
    BY DEF EditsInv
<1>3. /\ Leads(text, A, x) /\ Leads(text, B, y) /\ Leads(x, C, z)
      /\ Normal(A.ops) /\ Normal(B.ops)
    BY <1>2 DEF Edited
<1>4. CASE EditA
    <2>1. text' = text /\ B' = B /\ A' \in Changesets(Len(text))
          /\ C' = Identity(A'.newLen)
        BY <1>4 DEF EditA
    <2>2. PICK u \in Text : Leads(text, A', u) /\ Normal(A'.ops)
        BY <1>1, <2>1, ChangesetLeads
    <2>3. A'.newLen = Len(u)
        BY <2>2 DEF Leads
    <2>4. Leads(u, C', u)
        BY <2>1, <2>3, IdentityLeads
    <2>. QED
        BY <1>1, <1>3, <2>1, <2>2, <2>4 DEF EditsInv, Edited
<1>5. CASE EditB
    <2>1. text' = text /\ A' = A /\ C' = C /\ B' \in Changesets(Len(text))
        BY <1>5 DEF EditB
    <2>2. PICK u \in Text : Leads(text, B', u) /\ Normal(B'.ops)
        BY <1>1, <2>1, ChangesetLeads
    <2>. QED
        BY <1>1, <1>3, <2>1, <2>2 DEF EditsInv, Edited
<1>6. CASE EditC
    <2>1. PICK d \in Drafts : C' = DiffToChangeset(after(text, A), d)
        BY <1>6 DEF EditC
    <2>2. text' = text /\ A' = A /\ B' = B
        BY <1>6 DEF EditC
    <2>3. after(text, A) = x
        BY <1>1, <1>3, ApplyAligned DEF after
    <2>4. d \in Text
        BY EditsAssumption DEF Text
    <2>5. Leads(x, C', d)
        BY <2>1, <2>3, <2>4, DiffLeads
    <2>. QED
        BY <1>1, <1>3, <2>2, <2>4, <2>5 DEF EditsInv, Edited
<1>7. CASE UNCHANGED vars
    BY <1>1, <1>2, <1>7 DEF EditsInv, Edited, vars
<1>. QED
    BY <1>4, <1>5, <1>6, <1>7 DEF Next

LEMMA EditsInvariant == Spec => []EditsInv
BY EditsInit, EditsStep, PTL DEF Spec

\* Where the two merged edits meet.
LEMMA Merged ==
    ASSUME text \in Text, NEW x \in Text, NEW y \in Text, NEW z \in Text,
           Edited(x, y, z)
    PROVE  \E w \in Text : Leads(x, Follow(A, B), w) /\ Leads(y, Follow(B, A), w)
<1>1. /\ Leads(text, A, x) /\ Leads(text, B, y) /\ Normal(A.ops) /\ Normal(B.ops)
    BY DEF Edited
<1>2. /\ Left(text, 0, A.ops, x, 0) /\ Left(text, 0, B.ops, y, 0)
      /\ A.newLen = Len(x) /\ B.newLen = Len(y)
    BY <1>1 DEF Leads, Left
<1>3. PICK w \in Text : /\ Written(x, FollowOps(A.ops, B.ops), w, Len(x))
                        /\ Written(y, FollowOps(B.ops, A.ops), w, Len(y))
    BY <1>1, <1>2, FollowMeets
<1>. QED
    BY <1>2, <1>3, FollowLeads

(***************************************************************************)
(* Follow merges any two concurrent edits of any text into one document,   *)
(* whichever of them is committed first.                                   *)
(***************************************************************************)
THEOREM Converges == Spec => []Convergence
<1>1. EditsInv => Convergence
    <2>. SUFFICES ASSUME EditsInv PROVE Convergence
        OBVIOUS
    <2>1. PICK x, y, z \in Text : text \in Text /\ Edited(x, y, z)
        BY DEF EditsInv
    <2>2. PICK w \in Text : Leads(x, Follow(A, B), w) /\ Leads(y, Follow(B, A), w)
        BY <2>1, Merged
    <2>3. after(text, A) = x /\ after(text, B) = y
        BY <2>1, ApplyAligned DEF Edited, after
    <2>4. /\ ApplyChangeset(x, Follow(A, B)) = [ok |-> TRUE, text |-> w]
          /\ ApplyChangeset(y, Follow(B, A)) = [ok |-> TRUE, text |-> w]
        BY <2>1, <2>2, ApplyAligned
    <2>. QED
        BY <2>3, <2>4 DEF Convergence
<1>. QED
    BY <1>1, EditsInvariant, PTL

(***************************************************************************)
(* What Follow, Compose and the diff return always passes Validate.        *)
(***************************************************************************)
THEOREM AllValid == Spec => []ResultsValid
<1>1. EditsInv => ResultsValid
    <2>. SUFFICES ASSUME EditsInv PROVE ResultsValid
        OBVIOUS
    <2>1. PICK x, y, z \in Text : text \in Text /\ Edited(x, y, z)
        BY DEF EditsInv
    <2>2. PICK w \in Text : Leads(x, Follow(A, B), w) /\ Leads(y, Follow(B, A), w)
        BY <2>1, Merged
    <2>3. Leads(text, A, x) /\ Leads(x, C, z)
        BY <2>1 DEF Edited
    <2>4. /\ Leads(text, Compose(A, Follow(A, B)), w)
          /\ Leads(text, Compose(A, C), z)
        BY <2>1, <2>2, <2>3, ComposedLeads
    <2>. QED
        BY <2>1, <2>2, <2>3, <2>4, LeadsValid DEF ResultsValid
<1>. QED
    BY <1>1, EditsInvariant, PTL

(***************************************************************************)
(* Compose(A, C) does to any text what A and then C do.                    *)
(***************************************************************************)
THEOREM ComposeIsSequence == Spec => []ComposeLaw
<1>1. EditsInv => ComposeLaw
    <2>. SUFFICES ASSUME EditsInv PROVE ComposeLaw
        OBVIOUS
    <2>1. PICK x, y, z \in Text : text \in Text /\ Edited(x, y, z)
        BY DEF EditsInv
    <2>2. Leads(text, A, x) /\ Leads(x, C, z)
        BY <2>1 DEF Edited
    <2>3. Leads(text, Compose(A, C), z)
        BY <2>1, <2>2, ComposedLeads
    <2>4. after(text, A) = x
        BY <2>1, <2>2, ApplyAligned DEF after
    <2>5. /\ ApplyChangeset(text, Compose(A, C)) = [ok |-> TRUE, text |-> z]
          /\ ApplyChangeset(x, C) = [ok |-> TRUE, text |-> z]
        BY <2>1, <2>2, <2>3, ApplyAligned
    <2>. QED
        BY <2>4, <2>5 DEF ComposeLaw
<1>. QED
    BY <1>1, EditsInvariant, PTL

-----------------------------------------------------------------------------
(* The diff is minimal *)

\* What the ops of a changeset keep, op by op.
KeptSums(z, ops, n) ==
    z[0] = 0 /\ \A i \in 1..n : z[i] = z[i - 1] + Kept(ops[i])

LEMMA KeptStates ==
    ASSUME NEW ops \in Seq(OpSet)
    PROVE  \E z : KeptSums(z, ops, Len(ops)) /\ TotalOf(Kept, ops) = z[Len(ops)]
<1>. DEFINE n == Len(ops)
            Step(e, i) == e + Kept(ops[i])
            Run(k, f) == f[0] = 0 /\ \A i \in 1..k : f[i] = Step(f[i - 1], i)
            S == {k \in 0..n : \E f : Run(k, f)}
            State(f) == [i \in 0..n |-> IF i = 0 THEN 0 ELSE f[i - 1] + Kept(ops[i])]
<1>0. n \in Nat
    BY LenProperties
<1>1. TotalOf(Kept, ops) = (CHOOSE f : f = State(f))[n]
    BY Zenon DEF TotalOf
<1>2. \A f : State(f) = [i \in 0..n |-> IF i = 0 THEN 0 ELSE Step(f[i - 1], i)]
    BY Zenon
<1>. HIDE DEF n, Step
<1>3. 0 \in S
    <2>1. Run(0, [i \in 0..0 |-> 0])
        OBVIOUS
    <2>2. 0 \in 0..n
        BY <1>0
    <2>. HIDE DEF Run
    <2>. QED
        BY <2>1, <2>2
<1>4. ASSUME NEW k \in 0..(n - 1), k \in S
      PROVE  k + 1 \in S
    <2>1. PICK f : Run(k, f)
        BY <1>4
    <2>. DEFINE g == [i \in 0..(k + 1) |-> IF i = k + 1 THEN Step(f[k], i) ELSE f[i]]
    <2>2. ASSUME NEW i \in 1..(k + 1) PROVE g[i] = Step(g[i - 1], i)
        <3>1. i - 1 \in 0..(k + 1) /\ i - 1 # k + 1 /\ g[i - 1] = f[i - 1]
            BY <1>0
        <3>2. CASE i = k + 1
            BY <3>1, <3>2
        <3>3. CASE i # k + 1
            <4>1. i \in 1..k /\ g[i] = f[i]
                BY <3>3
            <4>. QED
                BY <3>1, <4>1, <2>1
        <3>. QED
            BY <3>2, <3>3
    <2>3. g[0] = 0
        BY <2>1, <1>0
    <2>4. Run(k + 1, g)
        <3>. HIDE DEF g
        <3>. QED
            BY <2>2, <2>3
    <2>5. k + 1 \in 0..n
        BY <1>0
    <2>. QED
        BY <2>4, <2>5
<1>5. n \in S
    <2>. HIDE DEF S
    <2>1. 0..n \subseteq S
        BY <1>0, <1>3, <1>4, Induction
    <2>. QED
        BY <1>0, <2>1
<1>6. PICK f : Run(n, f)
    BY <1>5
<1>. DEFINE h == [i \in 0..n |-> f[i]]
<1>7. h = State(h)
    <2>1. ASSUME NEW i \in 0..n
          PROVE  f[i] = IF i = 0 THEN 0 ELSE Step(h[i - 1], i)
        <3>1. CASE i = 0
            BY <3>1, <1>6
        <3>2. CASE i # 0
            <4>1. i \in 1..n /\ i - 1 \in 0..n
                BY <3>2, <1>0
            <4>. QED
                BY <3>2, <4>1, <1>6
        <3>. QED
            BY <3>1, <3>2
    <2>2. h = [i \in 0..n |-> IF i = 0 THEN 0 ELSE Step(h[i - 1], i)]
        BY <2>1
    <2>. HIDE DEF h, State
    <2>. QED
        BY <1>2, <2>2, Zenon
<1>8. PICK z : z = State(z) /\ TotalOf(Kept, ops) = z[n]
    <2>. HIDE DEF h, State
    <2>1. (CHOOSE y : y = State(y)) = State(CHOOSE y : y = State(y))
        BY <1>7, Zenon
    <2>. QED
        BY <1>1, <2>1
<1>9. z[0] = 0 /\ \A i \in 1..n : z[i] = z[i - 1] + Kept(ops[i])
    <2>1. \A i \in 0..n : z[i] = IF i = 0 THEN 0 ELSE z[i - 1] + Kept(ops[i])
        BY <1>8, Zenon
    <2>2. 0 \in 0..n /\ \A i \in 1..n : i \in 0..n /\ i # 0
        BY <1>0
    <2>. QED
        BY <2>1, <2>2
<1>. QED
    BY <1>8, <1>9 DEF KeptSums, n

\* Sums over the same ops agree.
LEMMA KeptUnique ==
    ASSUME NEW n \in Nat, NEW ops, NEW y, NEW z,
           KeptSums(y, ops, n), KeptSums(z, ops, n)
    PROVE  y[n] = z[n]
<1>. DEFINE S == {i \in 0..n : y[i] = z[i]}
<1>1. 0 \in S
    BY DEF KeptSums
<1>2. ASSUME NEW i \in 0..(n - 1), i \in S PROVE i + 1 \in S
    <2>1. i + 1 \in 1..n /\ i + 1 \in 0..n /\ (i + 1) - 1 = i
        OBVIOUS
    <2>2. y[i + 1] = y[i] + Kept(ops[i + 1]) /\ z[i + 1] = z[i] + Kept(ops[i + 1])
        BY <2>1 DEF KeptSums
    <2>. QED
        BY <1>2, <2>1, <2>2
<1>3. n \in 0..n
    OBVIOUS
<1>. HIDE DEF S
<1>4. 0..n \subseteq S
    BY <1>1, <1>2, Induction
<1>. QED
    BY <1>3, <1>4 DEF S

LEMMA KeptAppend ==
    ASSUME NEW ops \in Seq(OpSet), NEW o \in OpSet
    PROVE  TotalOf(Kept, Append(ops, o)) = TotalOf(Kept, ops) + Kept(o)
<1>. DEFINE m == Len(ops)
            more == Append(ops, o)
<1>1. /\ m \in Nat /\ more \in Seq(OpSet) /\ Len(more) = m + 1
      /\ more[m + 1] = o /\ \A i \in 1..m : more[i] = ops[i]
    BY LenProperties, AppendProperties
<1>2. PICK y : KeptSums(y, ops, m) /\ TotalOf(Kept, ops) = y[m]
    BY KeptStates
<1>3. PICK z : KeptSums(z, more, m + 1) /\ TotalOf(Kept, more) = z[m + 1]
    <2>1. \E z : KeptSums(z, more, Len(more)) /\ TotalOf(Kept, more) = z[Len(more)]
        BY <1>1, KeptStates
    <2>. QED
        BY <1>1, <2>1
<1>. HIDE DEF m, more
<1>5. z[0] = 0 /\ \A i \in 1..(m + 1) : z[i] = z[i - 1] + Kept(more[i])
    BY <1>1, <1>3 DEF KeptSums
<1>6. KeptSums(z, ops, m)
    <2>1. \A i \in 1..m : i \in 1..(m + 1)
        BY <1>1
    <2>. QED
        BY <2>1, <1>1, <1>5 DEF KeptSums
<1>7. y[m] = z[m]
    BY <1>1, <1>2, <1>6, KeptUnique
<1>8. z[m + 1] = z[m] + Kept(o)
    <2>1. m + 1 \in 1..(m + 1) /\ (m + 1) - 1 = m
        BY <1>1
    <2>. QED
        BY <2>1, <1>1, <1>5
<1>. QED
    BY <1>2, <1>3, <1>7, <1>8 DEF m, more

LEMMA KeptNat ==
    ASSUME NEW ops \in Seq(OpSet)
    PROVE  TotalOf(Kept, ops) \in Nat
<1>. DEFINE n == Len(ops)
<1>1. n \in Nat /\ \A i \in 1..n : ops[i] \in OpSet
    BY LenProperties, ElementOfSeq
<1>2. PICK z : KeptSums(z, ops, n) /\ TotalOf(Kept, ops) = z[n]
    BY KeptStates
<1>. HIDE DEF n
<1>. DEFINE S == {i \in 0..n : z[i] \in Nat}
<1>3. 0 \in S
    BY <1>1, <1>2 DEF KeptSums
<1>4. ASSUME NEW i \in 0..(n - 1), i \in S PROVE i + 1 \in S
    <2>1. i + 1 \in 1..n /\ i + 1 \in 0..n /\ (i + 1) - 1 = i
        BY <1>1
    <2>2. z[i + 1] = z[i] + Kept(ops[i + 1])
        BY <2>1, <1>2 DEF KeptSums
    <2>3. Kept(ops[i + 1]) \in Nat
        BY <2>1, <1>1, OpFacts DEF Kept
    <2>. QED
        BY <1>4, <2>1, <2>2, <2>3
<1>5. n \in 0..n
    BY <1>1
<1>. HIDE DEF S
<1>6. 0..n \subseteq S
    BY <1>1, <1>3, <1>4, Induction
<1>. QED
    BY <1>2, <1>5, <1>6 DEF S

\* addOp keeps what the ops and the new one keep.
LEMMA KeptAddOp ==
    ASSUME NEW ops \in Seq(OpSet), NEW o \in OpSet
    PROVE  TotalOf(Kept, addOp(ops, o)) = TotalOf(Kept, ops) + Kept(o)
<1>1. CASE addOp(ops, o) = Append(ops, o)
    BY <1>1, KeptAppend
<1>2. CASE /\ ops # <<>> /\ Last(ops).op = o.op
           /\ Front(ops) \in Seq(OpSet) /\ Last(ops) \in OpSet
           /\ addOp(ops, o) = Append(Front(ops), MergedOp(Last(ops), o))
    <2>. DEFINE f == Front(ops)
                l == Last(ops)
                M == MergedOp(l, o)
    <2>1. ops = Append(f, l)
        BY <1>2, FrontLast
    <2>2. M \in OpSet
        BY <1>2, MergedOpType
    <2>3. TotalOf(Kept, ops) = TotalOf(Kept, f) + Kept(l)
        <3>1. TotalOf(Kept, Append(f, l)) = TotalOf(Kept, f) + Kept(l)
            BY <1>2, KeptAppend
        <3>. QED
            BY <2>1, <3>1, Zenon
    <2>4. TotalOf(Kept, addOp(ops, o)) = TotalOf(Kept, f) + Kept(M)
        <3>1. TotalOf(Kept, Append(f, M)) = TotalOf(Kept, f) + Kept(M)
            BY <1>2, <2>2, KeptAppend
        <3>. QED
            BY <1>2, <3>1, Zenon
    <2>5. Kept(M) = Kept(l) + Kept(o) /\ Kept(l) \in Nat /\ Kept(o) \in Nat
        <3>1. /\ M.op = o.op /\ l.op = o.op
              /\ o.op # "insert" => M.n = l.n + o.n
            BY <1>2, MergedOpType
        <3>. HIDE DEF M, l
        <3>. QED
            BY <1>2, <3>1, OpFacts DEF Kept, l
    <2>6. TotalOf(Kept, f) \in Nat
        BY <1>2, KeptNat
    <2>7. ASSUME NEW a \in Nat, NEW b \in Nat, NEW c \in Nat
          PROVE  a + (b + c) = (a + b) + c
        OBVIOUS
    <2>. HIDE DEF f, l, M
    <2>8. TotalOf(Kept, f) + (Kept(l) + Kept(o)) = (TotalOf(Kept, f) + Kept(l)) + Kept(o)
        BY <2>5, <2>6, <2>7, Zenon
    <2>. QED
        BY <2>3, <2>4, <2>5, <2>8, Zenon
<1>. QED
    BY <1>1, <1>2, AddOpCases

\* A cell of the table depends only on cells before its own.
LEMMA CellLocal ==
    ASSUME NEW old, NEW new, NEW f, NEW g, NEW i \in Nat, NEW j \in Nat,
           \A a \in 0..i, b \in 0..j :
               a + b < i + j => f[<<a, b>>] = g[<<a, b>>]
    PROVE  LcsCell(old, new, f, i, j) = LcsCell(old, new, g, i, j)
<1>1. i > 0 => f[<<i - 1, j>>] = g[<<i - 1, j>>]
    <2>1. i > 0 => i - 1 \in 0..i /\ j \in 0..j /\ (i - 1) + j < i + j
        OBVIOUS
    <2>. QED
        BY <2>1
<1>2. j > 0 => f[<<i, j - 1>>] = g[<<i, j - 1>>]
    <2>1. j > 0 => i \in 0..i /\ j - 1 \in 0..j /\ i + (j - 1) < i + j
        OBVIOUS
    <2>. QED
        BY <2>1
<1>3. i > 0 /\ j > 0 => f[<<i - 1, j - 1>>] = g[<<i - 1, j - 1>>]
    <2>1. i > 0 /\ j > 0 =>
              i - 1 \in 0..i /\ j - 1 \in 0..j /\ (i - 1) + (j - 1) < i + j
        OBVIOUS
    <2>. QED
        BY <2>1
<1>. DEFINE L(e) == LcsCell(old, new, e, i, j)
<1>4. CASE i = 0 \/ j = 0
    <2>1. \A e : L(e) = 0
        BY <1>4 DEF LcsCell
    <2>. QED
        BY <2>1
<1>5. CASE ~ (i = 0 \/ j = 0) /\ old[i] = new[j]
    <2>1. \A e : L(e) = e[<<i - 1, j - 1>>] + 1
        BY <1>5 DEF LcsCell
    <2>. QED
        BY <1>3, <1>5, <2>1
<1>6. CASE ~ (i = 0 \/ j = 0) /\ old[i] # new[j]
    <2>1. \A e : L(e) = IF e[<<i - 1, j>>] > e[<<i, j - 1>>]
                        THEN e[<<i - 1, j>>] ELSE e[<<i, j - 1>>]
        BY <1>6 DEF LcsCell
    <2>2. i > 0 /\ j > 0
        BY <1>6
    <2>. QED
        BY <1>1, <1>2, <2>1, <2>2
<1>. QED
    BY <1>4, <1>5, <1>6

\* f is right at the cells of the first k diagonals.
FilledTo(old, new, f, k) ==
    \A i \in 0..Len(old), j \in 0..Len(new) :
        i + j <= k => f[<<i, j>>] = LcsCell(old, new, f, i, j)

LEMMA TableStates ==
    ASSUME NEW old \in Text, NEW new \in Text
    PROVE  \A i \in 0..Len(old), j \in 0..Len(new) :
               LcsTable(old, new)[<<i, j>>] = LcsCell(old, new, LcsTable(old, new), i, j)
<1>. DEFINE m == Len(old)
            n == Len(new)
            D == Cells(old, new)
            Step(f, i, j) == LcsCell(old, new, f, i, j)
            S == {k \in 0..(m + n) : \E f : FilledTo(old, new, f, k)}
            State(f) == [c \in D |-> Step(f, c[1], c[2])]
<1>1. /\ m \in Nat /\ n \in Nat /\ m + n \in Nat
      /\ \A i \in 0..m, j \in 0..n : <<i, j>> \in D
      /\ \A c \in D : c[1] \in 0..m /\ c[2] \in 0..n /\ c = <<c[1], c[2]>>
    BY CellFacts
<1>2. LcsTable(old, new) = (CHOOSE f : f = State(f))
    BY Zenon DEF LcsTable
<1>3. \A f, k : FilledTo(old, new, f, k) <=>
          \A i \in 0..m, j \in 0..n : i + j <= k => f[<<i, j>>] = Step(f, i, j)
    BY DEF FilledTo
<1>4. ASSUME NEW f, NEW g, NEW i \in 0..m, NEW j \in 0..n,
             \A a \in 0..m, b \in 0..n :
                 a + b < i + j => f[<<a, b>>] = g[<<a, b>>]
      PROVE  Step(f, i, j) = Step(g, i, j)
    <2>1. i \in Nat /\ j \in Nat /\ 0..i \subseteq 0..m /\ 0..j \subseteq 0..n
        BY <1>1
    <2>. QED
        BY <1>4, <2>1, CellLocal
<1>. HIDE DEF m, n, D, Step
<1>5. 0 \in S
    <2>. DEFINE g == [c \in D |-> Step(<<>>, c[1], c[2])]
    <2>1. ASSUME NEW i \in 0..m, NEW j \in 0..n, i + j <= 0
          PROVE  g[<<i, j>>] = Step(g, i, j)
        <3>1. <<i, j>> \in D /\ <<i, j>>[1] = i /\ <<i, j>>[2] = j
            BY <1>1
        <3>2. g[<<i, j>>] = Step(<<>>, <<i, j>>[1], <<i, j>>[2])
            BY <3>1, Zenon
        <3>3. \A a \in 0..m, b \in 0..n : ~ (a + b < i + j)
            BY <1>1, <2>1
        <3>4. Step(<<>>, i, j) = Step(g, i, j)
            <4>. HIDE DEF g
            <4>. QED
                BY <1>4, <3>3
        <3>. QED
            BY <3>1, <3>2, <3>4
    <2>2. 0 \in 0..(m + n)
        BY <1>1
    <2>3. FilledTo(old, new, g, 0)
        <3>. HIDE DEF g
        <3>. QED
            BY <1>3, <2>1
    <2>. QED
        BY <2>2, <2>3
<1>6. ASSUME NEW k \in 0..((m + n) - 1), k \in S
      PROVE  k + 1 \in S
    <2>1. PICK f : FilledTo(old, new, f, k)
        BY <1>6
    <2>2. \A i \in 0..m, j \in 0..n : i + j <= k => f[<<i, j>>] = Step(f, i, j)
        BY <1>3, <2>1
    <2>. DEFINE g == [c \in D |-> Step(f, c[1], c[2])]
    <2>3. ASSUME NEW i \in 0..m, NEW j \in 0..n
          PROVE  g[<<i, j>>] = Step(f, i, j)
        <3>1. <<i, j>> \in D /\ <<i, j>>[1] = i /\ <<i, j>>[2] = j
            BY <1>1
        <3>2. g[<<i, j>>] = Step(f, <<i, j>>[1], <<i, j>>[2])
            BY <3>1, Zenon
        <3>. QED
            BY <3>1, <3>2
    <2>. HIDE DEF g
    <2>4. ASSUME NEW i \in 0..m, NEW j \in 0..n, i + j <= k + 1
          PROVE  g[<<i, j>>] = Step(g, i, j)
        <3>1. ASSUME NEW a \in 0..m, NEW b \in 0..n, a + b < i + j
              PROVE  f[<<a, b>>] = g[<<a, b>>]
            <4>1. a + b <= k
                BY <1>1, <2>4, <3>1
            <4>. QED
                BY <4>1, <2>2, <2>3
        <3>2. Step(f, i, j) = Step(g, i, j)
            BY <1>4, <3>1
        <3>. QED
            BY <2>3, <3>2
    <2>5. k + 1 \in 0..(m + n)
        BY <1>1
    <2>6. FilledTo(old, new, g, k + 1)
        BY <1>3, <2>4
    <2>. QED
        BY <2>5, <2>6
<1>7. m + n \in S
    <2>1. m + n \in 0..(m + n)
        BY <1>1
    <2>. HIDE DEF S
    <2>2. 0..(m + n) \subseteq S
        BY <1>1, <1>5, <1>6, Induction
    <2>. QED
        BY <2>1, <2>2
<1>8. PICK f : FilledTo(old, new, f, m + n)
    BY <1>7
<1>9. \A i \in 0..m, j \in 0..n : f[<<i, j>>] = Step(f, i, j)
    <2>1. \A i \in 0..m, j \in 0..n : i + j <= m + n
        BY <1>1
    <2>. QED
        BY <1>3, <1>8, <2>1
<1>. DEFINE h == [c \in D |-> f[c]]
<1>10. h = State(h)
    <2>1. ASSUME NEW c \in D PROVE f[c] = Step(h, c[1], c[2])
        <3>1. c[1] \in 0..m /\ c[2] \in 0..n /\ c = <<c[1], c[2]>>
            BY <1>1
        <3>2. f[c] = Step(f, c[1], c[2])
            <4>1. f[<<c[1], c[2]>>] = Step(f, c[1], c[2])
                BY <3>1, <1>9
            <4>. QED
                BY <3>1, <4>1, Zenon
        <3>3. \A a \in 0..m, b \in 0..n : f[<<a, b>>] = h[<<a, b>>]
            BY <1>1
        <3>. HIDE DEF h
        <3>4. Step(f, c[1], c[2]) = Step(h, c[1], c[2])
            BY <3>1, <3>3, <1>4
        <3>. QED
            BY <3>2, <3>4
    <2>. QED
        BY <2>1, Zenon
<1>11. LcsTable(old, new) = State(LcsTable(old, new))
    <2>. HIDE DEF h, State
    <2>1. (CHOOSE y : y = State(y)) = State(CHOOSE y : y = State(y))
        BY <1>10, Zenon
    <2>. QED
        BY <1>2, <2>1, Zenon
<1>12. ASSUME NEW i \in 0..m, NEW j \in 0..n
      PROVE  LcsTable(old, new)[<<i, j>>] = Step(LcsTable(old, new), i, j)
    <2>. DEFINE z == LcsTable(old, new)
    <2>1. <<i, j>> \in D /\ <<i, j>>[1] = i /\ <<i, j>>[2] = j
        BY <1>1
    <2>2. z[<<i, j>>] = Step(z, <<i, j>>[1], <<i, j>>[2])
        <3>1. z = State(z)
            BY <1>11
        <3>. HIDE DEF z
        <3>. QED
            BY <3>1, <2>1, Zenon
    <2>. QED
        BY <2>1, <2>2
<1>. QED
    BY <1>12 DEF m, n, Step

\* The cells of the table of two texts.
Cell(old, new, i, j) == LcsTable(old, new)[<<i, j>>]

LEMMA CellRule ==
    ASSUME NEW old \in Text, NEW new \in Text,
           NEW i \in 0..Len(old), NEW j \in 0..Len(new)
    PROVE  /\ i = 0 \/ j = 0 => Cell(old, new, i, j) = 0
           /\ i > 0 /\ j > 0 /\ old[i] = new[j] =>
                  Cell(old, new, i, j) = Cell(old, new, i - 1, j - 1) + 1
           /\ i > 0 /\ j > 0 /\ old[i] # new[j] =>
                  Cell(old, new, i, j) =
                      IF Cell(old, new, i - 1, j) > Cell(old, new, i, j - 1)
                      THEN Cell(old, new, i - 1, j) ELSE Cell(old, new, i, j - 1)
<1>. DEFINE dp == LcsTable(old, new)
<1>1. dp[<<i, j>>] = LcsCell(old, new, dp, i, j)
    BY TableStates
<1>2. i \in Nat /\ j \in Nat
    BY LenProperties DEF Text
<1>. HIDE DEF dp
<1>3. CASE i = 0 \/ j = 0
    <2>1. dp[<<i, j>>] = 0
        BY <1>1, <1>3 DEF LcsCell
    <2>. QED
        BY <1>2, <1>3, <2>1 DEF Cell, dp
<1>4. CASE ~ (i = 0 \/ j = 0) /\ old[i] = new[j]
    <2>1. dp[<<i, j>>] = dp[<<i - 1, j - 1>>] + 1
        BY <1>1, <1>2, <1>4 DEF LcsCell
    <2>. QED
        BY <1>4, <2>1 DEF Cell, dp
<1>5. CASE ~ (i = 0 \/ j = 0) /\ old[i] # new[j]
    <2>1. dp[<<i, j>>] = IF dp[<<i - 1, j>>] > dp[<<i, j - 1>>]
                         THEN dp[<<i - 1, j>>] ELSE dp[<<i, j - 1>>]
        BY <1>1, <1>2, <1>5 DEF LcsCell
    <2>. QED
        BY <1>5, <2>1 DEF Cell, dp
<1>. QED
    BY <1>3, <1>4, <1>5

\* One character more of either text adds one at most, and never takes away.
Grown(old, new, i, j) ==
    /\ Cell(old, new, i, j) \in Nat
    /\ i > 0 => /\ Cell(old, new, i - 1, j) <= Cell(old, new, i, j)
                /\ Cell(old, new, i, j) <= Cell(old, new, i - 1, j) + 1
    /\ j > 0 => /\ Cell(old, new, i, j - 1) <= Cell(old, new, i, j)
                /\ Cell(old, new, i, j) <= Cell(old, new, i, j - 1) + 1

LEMMA GrownStep ==
    ASSUME NEW old \in Text, NEW new \in Text,
           NEW i \in 0..Len(old), NEW j \in 0..Len(new),
           \A a \in 0..i, b \in 0..j : a + b < i + j => Grown(old, new, a, b)
    PROVE  Grown(old, new, i, j)
<1>. DEFINE Best(a, b) == Cell(old, new, a, b)
<1>1. i \in Nat /\ j \in Nat /\ Len(old) \in Nat /\ Len(new) \in Nat
    BY LenProperties DEF Text
<1>2. CASE i = 0 \/ j = 0
    <2>1. Best(i, j) = 0
        BY <1>2, CellRule
    <2>2. i > 0 => Best(i - 1, j) = 0
        <3>1. i > 0 => i - 1 \in 0..Len(old) /\ j = 0
            BY <1>1, <1>2
        <3>. QED
            BY <3>1, CellRule
    <2>3. j > 0 => Best(i, j - 1) = 0
        <3>1. j > 0 => j - 1 \in 0..Len(new) /\ i = 0
            BY <1>1, <1>2
        <3>. QED
            BY <3>1, CellRule
    <2>4. i > 0 => Best(i - 1, j) <= Best(i, j) /\ Best(i, j) <= Best(i - 1, j) + 1
        BY <2>1, <2>2
    <2>5. j > 0 => Best(i, j - 1) <= Best(i, j) /\ Best(i, j) <= Best(i, j - 1) + 1
        BY <2>1, <2>3
    <2>6. Best(i, j) \in Nat
        BY <2>1
    <2>. QED
        BY <2>4, <2>5, <2>6, Zenon DEF Grown
<1>3. CASE i > 0 /\ j > 0
    <2>1. /\ i - 1 \in 0..i /\ i \in 0..i /\ j - 1 \in 0..j /\ j \in 0..j
          /\ (i - 1) + j < i + j /\ i + (j - 1) < i + j
          /\ (i - 1) + (j - 1) < i + j
        BY <1>1, <1>3
    <2>2. /\ Grown(old, new, i - 1, j) /\ Grown(old, new, i, j - 1)
          /\ Grown(old, new, i - 1, j - 1)
        BY <2>1
    <2>. DEFINE x == Best(i - 1, j - 1)
                l == Best(i - 1, j)
                u == Best(i, j - 1)
                v == Best(i, j)
    <2>3. x \in Nat /\ l \in Nat /\ u \in Nat
        BY <2>2 DEF Grown
    <2>4. x <= l /\ l <= x + 1
        BY <1>3, <2>2 DEF Grown
    <2>5. x <= u /\ u <= x + 1
        BY <1>3, <2>2 DEF Grown
    <2>6. v = x + 1 \/ v = IF l > u THEN l ELSE u
        BY <1>3, CellRule
    <2>. HIDE DEF x, l, u, v
    <2>7. v \in Nat /\ l <= v /\ v <= l + 1 /\ u <= v /\ v <= u + 1
        BY <2>3, <2>4, <2>5, <2>6
    <2>. QED
        BY <2>7 DEF Grown, l, u, v
<1>. QED
    BY <1>1, <1>2, <1>3

LEMMA AllGrown ==
    ASSUME NEW old \in Text, NEW new \in Text,
           NEW i \in 0..Len(old), NEW j \in 0..Len(new)
    PROVE  Grown(old, new, i, j)
<1>. DEFINE m == Len(old)
            n == Len(new)
            S == {k \in 0..((m + n) + 1) : \A a \in 0..m, b \in 0..n :
                      a + b < k => Grown(old, new, a, b)}
<1>1. m \in Nat /\ n \in Nat /\ (m + n) + 1 \in Nat
    BY LenProperties DEF Text
<1>. HIDE DEF m, n
<1>2. 0 \in S
    BY <1>1
<1>3. ASSUME NEW k \in 0..(((m + n) + 1) - 1), k \in S PROVE k + 1 \in S
    <2>1. ASSUME NEW a \in 0..m, NEW b \in 0..n, a + b < k + 1
          PROVE  Grown(old, new, a, b)
        <3>1. ASSUME NEW c \in 0..a, NEW d \in 0..b, c + d < a + b
              PROVE  Grown(old, new, c, d)
            <4>1. c \in 0..m /\ d \in 0..n /\ c + d < k
                BY <1>1, <2>1, <3>1
            <4>. QED
                BY <4>1, <1>3
        <3>. QED
            BY <3>1, GrownStep DEF m, n
    <2>2. k + 1 \in 0..((m + n) + 1)
        BY <1>1
    <2>. QED
        BY <2>1, <2>2
<1>4. (m + n) + 1 \in S
    <2>1. (m + n) + 1 \in 0..((m + n) + 1)
        BY <1>1
    <2>. HIDE DEF S
    <2>2. 0..((m + n) + 1) \subseteq S
        BY <1>1, <1>2, <1>3, Induction
    <2>. QED
        BY <2>1, <2>2
<1>5. i \in 0..m /\ j \in 0..n
    BY DEF m, n
<1>6. i + j < (m + n) + 1
    BY <1>1, <1>5
<1>. QED
    BY <1>4, <1>5, <1>6

\* No op keeps more than the table grows by on the way.
LEMMA SegBound ==
    ASSUME NEW old \in Text, NEW new \in Text, NEW o \in OpSet,
           NEW p \in Nat, NEW q \in Nat,
           NEW p1 \in 0..Len(old), NEW q1 \in 0..Len(new),
           Seg(o, old, p, p1, new, q, q1)
    PROVE  /\ Cell(old, new, p, q) + Kept(o) <= Cell(old, new, p1, q1)
           /\ Cell(old, new, p, q) \in Nat
<1>. DEFINE Best(a, b) == Cell(old, new, a, b)
            m == Len(old)
            n == Len(new)
<1>1. m \in Nat /\ n \in Nat /\ p1 \in 0..m /\ q1 \in 0..n
    BY LenProperties DEF Text
<1>2. \A a \in 0..m, b \in 0..n : Grown(old, new, a, b)
    BY AllGrown
<1>3. p <= p1 /\ q <= q1 /\ p \in 0..m /\ q \in 0..n
    BY <1>1, OpFacts DEF Seg
<1>4. \A a \in 0..m, b \in 0..n : Best(a, b) \in Nat
    BY <1>2 DEF Grown
<1>5. Best(p, q) \in Nat
    BY <1>3, <1>4
<1>6. \A a \in 0..m, b \in 0..n :
          a > 0 /\ b > 0 /\ old[a] = new[b] => Best(a, b) = Best(a - 1, b - 1) + 1
    BY CellRule
<1>. HIDE DEF m, n, Best
<1>7. CASE o.op = "retain"
    <2>. DEFINE r == o.n
                S == {k \in 0..r : Best(p, q) + k <= Best(p + k, q + k)}
    <2>1. /\ r \in Nat /\ p1 = p + r /\ q1 = q + r
          /\ \A k \in 1..r : new[q + k] = old[p + k]
        BY <1>7, OpFacts DEF Seg
    <2>. HIDE DEF r
    <2>2. 0 \in S
        BY <1>5, <2>1
    <2>3. ASSUME NEW k \in 0..(r - 1), k \in S PROVE k + 1 \in S
        <3>1. /\ k + 1 \in 1..r /\ k + 1 \in 0..r
              /\ p + (k + 1) \in 0..m /\ q + (k + 1) \in 0..n
              /\ p + k \in 0..m /\ q + k \in 0..n
              /\ p + (k + 1) > 0 /\ q + (k + 1) > 0
              /\ (p + (k + 1)) - 1 = p + k /\ (q + (k + 1)) - 1 = q + k
            BY <1>1, <2>1
        <3>2. Best(p + (k + 1), q + (k + 1)) = Best(p + k, q + k) + 1
            BY <3>1, <1>6, <2>1
        <3>3. Best(p + k, q + k) \in Nat
            BY <3>1, <1>4
        <3>4. Best(p, q) + k <= Best(p + k, q + k)
            BY <2>3
        <3>5. ASSUME NEW a \in Nat, NEW b \in Nat, NEW c \in Nat, NEW l \in Nat,
                     c = b + 1, a + l <= b
              PROVE  a + (l + 1) <= c
            BY <3>5
        <3>6. k \in Nat /\ Best(p + (k + 1), q + (k + 1)) \in Nat
            BY <3>1, <1>4
        <3>7. Best(p, q) + (k + 1) <= Best(p + (k + 1), q + (k + 1))
            BY <3>2, <3>3, <3>4, <3>5, <3>6, <1>5, Zenon
        <3>. QED
            BY <3>1, <3>7
    <2>4. r \in 0..r
        BY <2>1
    <2>. HIDE DEF S
    <2>5. 0..r \subseteq S
        BY <2>1, <2>2, <2>3, Induction
    <2>6. Best(p, q) + r <= Best(p1, q1)
        BY <2>1, <2>4, <2>5 DEF S
    <2>. QED
        BY <1>5, <1>7, <2>6 DEF Kept, Best, r
<1>8. CASE o.op = "insert"
    <2>. DEFINE r == Len(o.chars)
                S == {k \in 0..r : Best(p, q) <= Best(p, q + k)}
    <2>1. r \in Nat /\ p1 = p /\ q1 = q + r
        BY <1>8, OpFacts DEF Seg
    <2>. HIDE DEF r
    <2>2. 0 \in S
        BY <1>5, <2>1
    <2>3. ASSUME NEW k \in 0..(r - 1), k \in S PROVE k + 1 \in S
        <3>1. /\ k + 1 \in 0..r /\ q + (k + 1) \in 0..n /\ q + k \in 0..n
              /\ q + (k + 1) > 0 /\ (q + (k + 1)) - 1 = q + k
            BY <1>1, <2>1
        <3>2. Grown(old, new, p, q + (k + 1))
            BY <3>1, <1>2, <1>3
        <3>3. Best(p, q + k) <= Best(p, q + (k + 1))
            BY <3>1, <3>2 DEF Grown, Best
        <3>4. Best(p, q + k) \in Nat /\ Best(p, q + (k + 1)) \in Nat
            BY <3>1, <1>3, <1>4
        <3>5. Best(p, q) <= Best(p, q + k)
            BY <2>3
        <3>. QED
            BY <3>1, <3>3, <3>4, <3>5, <1>5
    <2>4. r \in 0..r
        BY <2>1
    <2>. HIDE DEF S
    <2>5. 0..r \subseteq S
        BY <2>1, <2>2, <2>3, Induction
    <2>6. Best(p, q) <= Best(p1, q1)
        BY <2>1, <2>4, <2>5 DEF S
    <2>7. Kept(o) = 0
        BY <1>8 DEF Kept
    <2>. QED
        BY <1>5, <2>6, <2>7 DEF Best
<1>9. CASE o.op = "delete"
    <2>. DEFINE r == o.n
                S == {k \in 0..r : Best(p, q) <= Best(p + k, q)}
    <2>1. r \in Nat /\ p1 = p + r /\ q1 = q
        BY <1>9, OpFacts DEF Seg
    <2>. HIDE DEF r
    <2>2. 0 \in S
        BY <1>5, <2>1
    <2>3. ASSUME NEW k \in 0..(r - 1), k \in S PROVE k + 1 \in S
        <3>1. /\ k + 1 \in 0..r /\ p + (k + 1) \in 0..m /\ p + k \in 0..m
              /\ p + (k + 1) > 0 /\ (p + (k + 1)) - 1 = p + k
            BY <1>1, <2>1
        <3>2. Grown(old, new, p + (k + 1), q)
            BY <3>1, <1>2, <1>3
        <3>3. Best(p + k, q) <= Best(p + (k + 1), q)
            BY <3>1, <3>2 DEF Grown, Best
        <3>4. Best(p + k, q) \in Nat /\ Best(p + (k + 1), q) \in Nat
            BY <3>1, <1>3, <1>4
        <3>5. Best(p, q) <= Best(p + k, q)
            BY <2>3
        <3>. QED
            BY <3>1, <3>3, <3>4, <3>5, <1>5
    <2>4. r \in 0..r
        BY <2>1
    <2>. HIDE DEF S
    <2>5. 0..r \subseteq S
        BY <2>1, <2>2, <2>3, Induction
    <2>6. Best(p, q) <= Best(p1, q1)
        BY <2>1, <2>4, <2>5 DEF S
    <2>7. Kept(o) = 0
        BY <1>9 DEF Kept
    <2>. QED
        BY <1>5, <2>6, <2>7 DEF Best
<1>. QED
    BY <1>7, <1>8, <1>9 DEF Seg

(***************************************************************************)
(* No changeset between two texts keeps more than the table says.          *)
(***************************************************************************)
LEMMA KeptBound ==
    ASSUME NEW old \in Text, NEW new \in Text, NEW ops \in Seq(OpSet),
           Align(old, 0, ops, new, 0, Len(old), Len(new))
    PROVE  TotalOf(Kept, ops) <= Cell(old, new, Len(old), Len(new))
<1>. DEFINE m == Len(old)
            n == Len(new)
            l == Len(ops)
            Best(a, b) == Cell(old, new, a, b)
<1>1. /\ m \in Nat /\ n \in Nat /\ l \in Nat
      /\ \A i \in 1..l : ops[i] \in OpSet
    BY LenProperties, ElementOfSeq DEF Text
<1>2. PICK P, Q : Marks(P, Q, old, 0, ops, new, 0, m, n)
    BY DEF Align
<1>3. /\ P \in [0..l -> 0..m] /\ Q \in [0..l -> 0..n]
      /\ P[0] = 0 /\ P[l] = m /\ Q[0] = 0 /\ Q[l] = n
      /\ \A i \in 1..l : Seg(ops[i], old, P[i - 1], P[i], new, Q[i - 1], Q[i])
    BY <1>2 DEF Marks
<1>4. PICK z : KeptSums(z, ops, l) /\ TotalOf(Kept, ops) = z[l]
    BY KeptStates
<1>. DEFINE S == {i \in 0..l : z[i] \in Nat /\ z[i] <= Best(P[i], Q[i])}
<1>5. 0 \in S
    <2>1. 0 \in 0..m /\ 0 \in 0..n /\ 0 \in 0..l
        BY <1>1
    <2>2. Best(0, 0) = 0
        BY <2>1, CellRule
    <2>3. z[0] = 0
        BY <1>4 DEF KeptSums
    <2>. QED
        BY <1>3, <2>1, <2>2, <2>3
<1>6. ASSUME NEW i \in 0..(l - 1), i \in S PROVE i + 1 \in S
    <2>. HIDE DEF m, n, l, Best
    <2>1. i + 1 \in 1..l /\ i + 1 \in 0..l /\ i \in 0..l /\ (i + 1) - 1 = i
        BY <1>1
    <2>2. /\ P[i] \in 0..m /\ Q[i] \in 0..n
          /\ P[i + 1] \in 0..m /\ Q[i + 1] \in 0..n
        BY <2>1, <1>3
    <2>3. Seg(ops[i + 1], old, P[i], P[i + 1], new, Q[i], Q[i + 1])
        <3>1. Seg(ops[i + 1], old, P[(i + 1) - 1], P[i + 1],
                  new, Q[(i + 1) - 1], Q[i + 1])
            BY <2>1, <1>3
        <3>. QED
            BY <2>1, <3>1
    <2>4. P[i] \in Nat /\ Q[i] \in Nat /\ ops[i + 1] \in OpSet
        BY <1>1, <2>1, <2>2
    <2>5. /\ Best(P[i], Q[i]) + Kept(ops[i + 1]) <= Best(P[i + 1], Q[i + 1])
          /\ Best(P[i], Q[i]) \in Nat
        BY <2>2, <2>3, <2>4, SegBound DEF m, n, Best
    <2>6. Best(P[i + 1], Q[i + 1]) \in Nat
        BY <2>2, AllGrown DEF Grown, Best, m, n
    <2>7. Kept(ops[i + 1]) \in Nat
        BY <2>4, OpFacts DEF Kept
    <2>8. z[i + 1] = z[i] + Kept(ops[i + 1])
        BY <2>1, <1>4 DEF KeptSums
    <2>9. z[i] \in Nat /\ z[i] <= Best(P[i], Q[i])
        BY <1>6
    <2>10. ASSUME NEW a \in Nat, NEW b \in Nat, NEW c \in Nat, NEW d \in Nat,
                  a <= b, b + c <= d
           PROVE  a + c \in Nat /\ a + c <= d
        BY <2>10
    <2>11. z[i] + Kept(ops[i + 1]) \in Nat
           /\ z[i] + Kept(ops[i + 1]) <= Best(P[i + 1], Q[i + 1])
        BY <2>5, <2>6, <2>7, <2>9, <2>10
    <2>. QED
        BY <2>1, <2>8, <2>11
<1>7. l \in S
    <2>1. l \in 0..l
        BY <1>1
    <2>. HIDE DEF S, l
    <2>2. 0..l \subseteq S
        BY <1>1, <1>5, <1>6, Induction
    <2>. QED
        BY <2>1, <2>2
<1>8. z[l] <= Best(P[l], Q[l])
    BY <1>7
<1>. QED
    BY <1>3, <1>4, <1>8

LEMMA KeptNone == TotalOf(Kept, <<>>) = 0
<1>1. <<>> \in Seq(OpSet) /\ Len(<<>>) = 0
    OBVIOUS
<1>2. PICK z : KeptSums(z, <<>>, Len(<<>>)) /\ TotalOf(Kept, <<>>) = z[Len(<<>>)]
    BY <1>1, KeptStates
<1>. QED
    BY <1>1, <1>2 DEF KeptSums

\* The way back keeps what its cell says.
LEMMA BackStepKeeps ==
    ASSUME NEW old \in Text, NEW new \in Text, NEW f,
           NEW i \in 0..Len(old), NEW j \in 0..Len(new),
           \A a \in 0..i, b \in 0..j :
               a + b < i + j => /\ f[<<a, b>>] \in Seq(OpSet)
                                /\ TotalOf(Kept, f[<<a, b>>]) = Cell(old, new, a, b)
    PROVE  LET back == BackStep(old, new, LcsTable(old, new), f, i, j)
           IN  back \in Seq(OpSet) /\ TotalOf(Kept, back) = Cell(old, new, i, j)
<1>. DEFINE dp == LcsTable(old, new)
            back == BackStep(old, new, dp, f, i, j)
            Best(a, b) == Cell(old, new, a, b)
            Right(ops, a, b) == ops \in Seq(OpSet) /\ TotalOf(Kept, ops) = Best(a, b)
<1>0. i \in Nat /\ j \in Nat /\ Len(old) \in Nat /\ Len(new) \in Nat
    BY LenProperties DEF Text
<1>1. i > 0 => Right(f[<<i - 1, j>>], i - 1, j) /\ Best(i - 1, j) \in Nat
    <2>1. i > 0 => /\ i - 1 \in 0..i /\ j \in 0..j /\ (i - 1) + j < i + j
                   /\ i - 1 \in 0..Len(old)
        BY <1>0
    <2>. QED
        BY <2>1, AllGrown DEF Grown
<1>2. j > 0 => Right(f[<<i, j - 1>>], i, j - 1) /\ Best(i, j - 1) \in Nat
    <2>1. j > 0 => /\ i \in 0..i /\ j - 1 \in 0..j /\ i + (j - 1) < i + j
                   /\ j - 1 \in 0..Len(new)
        BY <1>0
    <2>. QED
        BY <2>1, AllGrown DEF Grown
<1>3. i > 0 /\ j > 0 =>
          Right(f[<<i - 1, j - 1>>], i - 1, j - 1) /\ Best(i - 1, j - 1) \in Nat
    <2>1. i > 0 /\ j > 0 =>
              /\ i - 1 \in 0..i /\ j - 1 \in 0..j /\ (i - 1) + (j - 1) < i + j
              /\ i - 1 \in 0..Len(old) /\ j - 1 \in 0..Len(new)
        BY <1>0
    <2>. QED
        BY <2>1, AllGrown DEF Grown
<1>4. ASSUME NEW ops, NEW a, NEW b, Right(ops, a, b), NEW o \in OpSet,
             Best(a, b) + Kept(o) = Best(i, j)
      PROVE  Right(addOp(ops, o), i, j)
    BY <1>4, AddOpType, KeptAddOp, Zenon
<1>5. /\ Retain(1) \in OpSet /\ Kept(Retain(1)) = 1
      /\ Delete(1) \in OpSet /\ Kept(Delete(1)) = 0
    <2>1. /\ Retain(1) = [op |-> "retain", n |-> 1]
          /\ Delete(1) = [op |-> "delete", n |-> 1]
        BY DEF Retain, Delete
    <2>2. Retain(1) \in OpSet /\ Delete(1) \in OpSet
        BY <2>1 DEF OpSet
    <2>3. /\ Retain(1).op = "retain" /\ Retain(1).n = 1
          /\ Delete(1).op = "delete" /\ "delete" # "retain"
        BY <2>1
    <2>4. Kept(Retain(1)) = 1 /\ Kept(Delete(1)) = 0
        BY <2>3, Zenon DEF Kept
    <2>. QED
        BY <2>2, <2>4
<1>. DEFINE same == i > 0 /\ j > 0 /\ old[i] = new[j]
            ins == j > 0 /\ (i = 0 \/ (old[i] # new[j]
                             /\ dp[<<i, j - 1>>] >= dp[<<i - 1, j>>]))
<1>6. CASE i = 0 /\ j = 0
    <2>1. back = <<>>
        BY <1>6 DEF BackStep
    <2>2. Best(i, j) = 0
        BY <1>6, CellRule
    <2>3. <<>> \in Seq(OpSet)
        OBVIOUS
    <2>. QED
        BY <2>1, <2>2, <2>3, KeptNone, Zenon
<1>7. CASE ~ (i = 0 /\ j = 0) /\ same
    <2>1. back = addOp(f[<<i - 1, j - 1>>], Retain(1))
        BY <1>7 DEF BackStep
    <2>2. Best(i - 1, j - 1) + Kept(Retain(1)) = Best(i, j)
        BY <1>5, <1>7, CellRule
    <2>. HIDE DEF Best
    <2>3. Right(addOp(f[<<i - 1, j - 1>>], Retain(1)), i, j)
        BY <1>3, <1>4, <1>5, <1>7, <2>2, Zenon
    <2>. QED
        BY <2>1, <2>3, Zenon DEF Best
<1>8. CASE ~ (i = 0 /\ j = 0) /\ ~ same /\ ins
    <2>. DEFINE s == <<new[j]>>
                o == Insert(s)
    <2>1. back = addOp(f[<<i, j - 1>>], o)
        BY <1>8 DEF BackStep
    <2>2. o \in OpSet /\ Kept(o) = 0
        <3>1. j \in 1..Len(new)
            BY <1>0, <1>8
        <3>2. new[j] \in Nat
            BY <3>1, ElementOfSeq DEF Text
        <3>3. s \in Text \ {<<>>}
            BY <3>2 DEF Text
        <3>. HIDE DEF s
        <3>. QED
            BY <3>3 DEF Insert, OpSet, Kept
    <2>3. Best(i, j - 1) + 0 = Best(i, j)
        <3>1. CASE i = 0
            <4>1. j - 1 \in 0..Len(new)
                BY <1>0, <1>8
            <4>2. Best(i, j) = 0 /\ Best(i, j - 1) = 0
                BY <3>1, <4>1, CellRule
            <4>. QED
                BY <4>2
        <3>2. CASE i > 0
            <4>1. Best(i, j) = IF Best(i - 1, j) > Best(i, j - 1) THEN Best(i - 1, j) ELSE Best(i, j - 1)
                BY <1>8, <3>2, CellRule
            <4>2. Best(i, j - 1) >= Best(i - 1, j)
                BY <1>8, <3>2 DEF Cell
            <4>3. Best(i, j - 1) \in Nat /\ Best(i - 1, j) \in Nat
                BY <1>1, <1>2, <1>8, <3>2
            <4>. HIDE DEF Best
            <4>. QED
                BY <4>1, <4>2, <4>3
        <3>. QED
            BY <1>0, <3>1, <3>2
    <2>. HIDE DEF o, Best
    <2>4. Best(i, j - 1) + Kept(o) = Best(i, j)
        BY <2>2, <2>3
    <2>5. Right(addOp(f[<<i, j - 1>>], o), i, j)
        BY <1>2, <1>4, <1>8, <2>2, <2>4, Zenon
    <2>. QED
        BY <2>1, <2>5, Zenon DEF Best
<1>9. CASE ~ (i = 0 /\ j = 0) /\ ~ same /\ ~ ins
    <2>1. back = addOp(f[<<i - 1, j>>], Delete(1))
        BY <1>9 DEF BackStep
    <2>2. i > 0
        BY <1>0, <1>9
    <2>3. Best(i - 1, j) + 0 = Best(i, j)
        <3>1. CASE j = 0
            <4>1. i - 1 \in 0..Len(old)
                BY <1>0, <2>2
            <4>2. Best(i, j) = 0 /\ Best(i - 1, j) = 0
                BY <3>1, <4>1, CellRule
            <4>. QED
                BY <4>2
        <3>2. CASE j > 0
            <4>1. Best(i, j) = IF Best(i - 1, j) > Best(i, j - 1) THEN Best(i - 1, j) ELSE Best(i, j - 1)
                BY <1>9, <2>2, <3>2, CellRule
            <4>2. ~ (Best(i, j - 1) >= Best(i - 1, j))
                BY <1>9, <2>2, <3>2 DEF Cell
            <4>3. Best(i, j - 1) \in Nat /\ Best(i - 1, j) \in Nat
                BY <1>1, <1>2, <2>2, <3>2
            <4>. HIDE DEF Best
            <4>. QED
                BY <4>1, <4>2, <4>3
        <3>. QED
            BY <1>0, <3>1, <3>2
    <2>. HIDE DEF Best
    <2>4. Best(i - 1, j) + Kept(Delete(1)) = Best(i, j)
        BY <1>5, <2>3
    <2>5. Right(addOp(f[<<i - 1, j>>], Delete(1)), i, j)
        BY <1>1, <1>4, <1>5, <2>2, <2>4, Zenon
    <2>. QED
        BY <2>1, <2>5, Zenon DEF Best
<1>. QED
    BY <1>6, <1>7, <1>8, <1>9

\* The diff keeps what the table says.
LEMMA DiffKeeps ==
    ASSUME NEW old \in Text, NEW new \in Text
    PROVE  TotalOf(Kept, DiffToChangeset(old, new).ops)
               = Cell(old, new, Len(old), Len(new))
<1>. DEFINE m == Len(old)
            n == Len(new)
            dp == LcsTable(old, new)
<1>1. m \in Nat /\ n \in Nat /\ (m + n) + 1 \in Nat
    BY LenProperties DEF Text
<1>2. PICK f : /\ BackTo(old, new, dp, f, m + n)
               /\ Backtrack(old, new, dp) = f[<<m, n>>]
    BY BackStates
<1>3. ASSUME NEW i \in 0..m, NEW j \in 0..n
      PROVE  f[<<i, j>>] = BackStep(old, new, dp, f, i, j)
    <2>1. i + j <= m + n
        BY <1>1
    <2>. QED
        BY <1>2, <2>1 DEF BackTo
<1>. DEFINE Right(i, j) == /\ f[<<i, j>>] \in Seq(OpSet)
                           /\ TotalOf(Kept, f[<<i, j>>]) = Cell(old, new, i, j)
            S == {k \in 0..((m + n) + 1) : \A i \in 0..m, j \in 0..n :
                      i + j < k => Right(i, j)}
<1>4. ASSUME NEW i \in 0..m, NEW j \in 0..n,
             \A a \in 0..i, b \in 0..j : a + b < i + j => Right(a, b)
      PROVE  Right(i, j)
    <2>. DEFINE back == BackStep(old, new, dp, f, i, j)
    <2>1. back \in Seq(OpSet) /\ TotalOf(Kept, back) = Cell(old, new, i, j)
        BY <1>4, BackStepKeeps
    <2>2. f[<<i, j>>] = back
        BY <1>3
    <2>. QED
        BY <2>1, <2>2, Zenon
<1>. HIDE DEF m, n, Right
<1>5. 0 \in S
    BY <1>1
<1>6. ASSUME NEW k \in 0..(((m + n) + 1) - 1), k \in S PROVE k + 1 \in S
    <2>1. ASSUME NEW i \in 0..m, NEW j \in 0..n, i + j < k + 1
          PROVE  Right(i, j)
        <3>1. ASSUME NEW a \in 0..i, NEW b \in 0..j, a + b < i + j
              PROVE  Right(a, b)
            <4>1. a \in 0..m /\ b \in 0..n /\ a + b < k
                BY <1>1, <2>1, <3>1
            <4>. QED
                BY <4>1, <1>6
        <3>. QED
            BY <3>1, <1>4
    <2>2. k + 1 \in 0..((m + n) + 1)
        BY <1>1
    <2>. QED
        BY <2>1, <2>2
<1>7. (m + n) + 1 \in S
    <2>1. (m + n) + 1 \in 0..((m + n) + 1)
        BY <1>1
    <2>. HIDE DEF S
    <2>2. 0..((m + n) + 1) \subseteq S
        BY <1>1, <1>5, <1>6, Induction
    <2>. QED
        BY <2>1, <2>2
<1>8. Right(m, n)
    <2>1. m \in 0..m /\ n \in 0..n /\ m + n < (m + n) + 1
        BY <1>1
    <2>. QED
        BY <2>1, <1>7
<1>9. DiffToChangeset(old, new).ops = f[<<m, n>>]
    BY <1>2 DEF DiffToChangeset, m, n
<1>. QED
    BY <1>8, <1>9, Zenon DEF Right, m, n

(***************************************************************************)
(* Between any two texts the diff leads from the one to the other and      *)
(* keeps as much as any changeset a user could make.                       *)
(***************************************************************************)
THEOREM DiffIsMinimal == Spec => []DiffMinimal
<1>1. EditsInv => DiffMinimal
    <2>. SUFFICES ASSUME EditsInv PROVE DiffMinimal
        OBVIOUS
    <2>1. PICK x, y, z \in Text : text \in Text /\ Edited(x, y, z)
        BY DEF EditsInv
    <2>. DEFINE d == DiffToChangeset(text, x)
    <2>2. Leads(text, A, x)
        BY <2>1 DEF Edited
    <2>3. after(text, A) = x
        BY <2>1, <2>2, ApplyAligned DEF after
    <2>4. ApplyChangeset(text, d) = [ok |-> TRUE, text |-> x]
        BY <2>1, DiffLeads, ApplyAligned
    <2>5. TotalOf(Kept, d.ops) = Cell(text, x, Len(text), Len(x))
        BY <2>1, DiffKeeps
    <2>6. TotalOf(Kept, A.ops) <= Cell(text, x, Len(text), Len(x))
        BY <2>1, <2>2, KeptBound DEF Leads
    <2>7. TotalOf(Kept, d.ops) >= TotalOf(Kept, A.ops)
        <3>1. TotalOf(Kept, A.ops) \in Nat /\ TotalOf(Kept, d.ops) \in Nat
            BY <2>1, <2>2, DiffLeads, KeptNat DEF Leads
        <3>2. ASSUME NEW a \in Nat, NEW b \in Nat, NEW c, a = c, b <= c
              PROVE  a >= b
            BY <3>2
        <3>. QED
            BY <2>5, <2>6, <3>1, <3>2
    <2>. HIDE DEF d
    <2>8. /\ ApplyChangeset(text, DiffToChangeset(text, after(text, A)))
                 = [ok |-> TRUE, text |-> after(text, A)]
          /\ TotalOf(Kept, DiffToChangeset(text, after(text, A)).ops)
                 >= TotalOf(Kept, A.ops)
        BY <2>3, <2>4, <2>7, Zenon DEF d
    <2>. QED
        BY <2>8, Zenon DEF DiffMinimal
<1>. QED
    BY <1>1, EditsInvariant, PTL

=============================================================================
