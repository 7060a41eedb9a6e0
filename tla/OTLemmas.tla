------------------------------ MODULE OTLemmas ------------------------------
(***************************************************************************)
(* Lemmas about operational transformation, for texts and changesets of    *)
(* any length.  What a changeset does is stated by an alignment: marks in  *)
(* the old and in the new text between which each op has done its work.    *)
(* The loops of ApplyChangeset, Follow, Compose and the diff each extend   *)
(* an alignment by one op, with addOp or without, and what they compute is *)
(* read off the marks at the end.                                          *)
(***************************************************************************)
EXTENDS OT, TLAPS, SequenceTheorems, WellFoundedInduction

Text == Seq(Nat)

\* The ops that Validate accepts.
OpSet == [op : {"retain", "delete"}, n : Nat \ {0}]
             \cup [op : {"insert"}, chars : Text \ {<<>>}]

-----------------------------------------------------------------------------
(* Alignments *)

\* Op o leads from mark p of t to mark p1 and from mark q of u to mark q1.
Seg(o, t, p, p1, u, q, q1) ==
    \/ /\ o.op = "retain" /\ p1 = p + o.n /\ q1 = q + o.n
       /\ \A j \in 1..o.n : u[q + j] = t[p + j]
    \/ /\ o.op = "insert" /\ p1 = p /\ q1 = q + Len(o.chars)
       /\ \A j \in 1..Len(o.chars) : u[q + j] = o.chars[j]
    \/ /\ o.op = "delete" /\ p1 = p + o.n /\ q1 = q

Marks(P, Q, t, p, ops, u, q, p1, q1) ==
    /\ P \in [0..Len(ops) -> p..p1] /\ Q \in [0..Len(ops) -> q..q1]
    /\ P[0] = p /\ P[Len(ops)] = p1 /\ Q[0] = q /\ Q[Len(ops)] = q1
    /\ \A i \in 1..Len(ops) :
           Seg(ops[i], t, P[i - 1], P[i], u, Q[i - 1], Q[i])

Align(t, p, ops, u, q, p1, q1) ==
    \E P, Q : Marks(P, Q, t, p, ops, u, q, p1, q1)

\* Induction: a non-empty set of numbers has a least element.
LEMMA LeastOf ==
    ASSUME NEW S, S \subseteq Nat, S # {}
    PROVE  \E x \in S : \A y \in S : x <= y
<1>1. PICK x \in S : \A y \in S : ~ (<<y, x>> \in OpToRel(<, Nat))
    BY NatLessThanWellFounded, WFMin, Zenon
<1>2. \A y \in S : ~ (y < x)
    BY <1>1, Zenon DEF OpToRel
<1>. QED
    BY <1>2

\* The form in which it is used: what holds of 0 and is passed on, up to n.
LEMMA Induction ==
    ASSUME NEW n \in Nat, NEW S, 0 \in S,
           \A i \in 0..(n - 1) : i \in S => i + 1 \in S
    PROVE  0..n \subseteq S
<1>. DEFINE Bad == (0..n) \ S
<1>1. SUFFICES ASSUME Bad # {} PROVE FALSE
    OBVIOUS
<1>2. PICK x \in Bad : \A y \in Bad : x <= y
    <2>1. Bad \subseteq Nat
        OBVIOUS
    <2>. HIDE DEF Bad
    <2>. QED
        BY <1>1, <2>1, LeastOf
<1>3. x # 0 /\ x - 1 \in 0..(n - 1)
    OBVIOUS
<1>4. x - 1 \in S
    BY <1>2, <1>3
<1>5. (x - 1) + 1 \in S
    BY <1>3, <1>4
<1>. QED
    BY <1>5

LEMMA OpFacts ==
    ASSUME NEW o \in OpSet
    PROVE  \/ /\ o.op \in {"retain", "delete"} /\ o.op # "insert"
              /\ o.n \in Nat /\ o.n > 0
           \/ /\ o.op = "insert" /\ o.op # "retain" /\ o.op # "delete"
              /\ o.chars \in Text
              /\ Len(o.chars) \in Nat /\ Len(o.chars) > 0
<1>1. CASE o \in [op : {"retain", "delete"}, n : Nat \ {0}]
    BY <1>1
<1>2. CASE o \in [op : {"insert"}, chars : Text \ {<<>>}]
    <2>1. o.op = "insert" /\ o.chars \in Seq(Nat) /\ o.chars # <<>>
        BY <1>2 DEF Text
    <2>2. Len(o.chars) \in Nat /\ Len(o.chars) > 0
        BY <2>1, EmptySeq, LenProperties
    <2>. QED
        BY <2>1, <2>2 DEF Text
<1>. QED
    BY <1>1, <1>2 DEF OpSet

\* An op never goes back.
LEMMA SegForward ==
    ASSUME NEW o \in OpSet, NEW t, NEW u, NEW p \in Nat, NEW q \in Nat,
           NEW p1, NEW q1, Seg(o, t, p, p1, u, q, q1)
    PROVE  /\ p1 \in Nat /\ q1 \in Nat /\ p <= p1 /\ q <= q1
           /\ p1 = p + Consumed(o) /\ q1 = q + Produced(o)
           /\ o.op = "insert" => p1 = p /\ q1 = q + Len(o.chars)
           /\ o.op = "retain" => p1 = p + o.n /\ q1 = q + o.n
           /\ o.op = "delete" => p1 = p + o.n /\ q1 = q
BY OpFacts DEF Seg, Consumed, Produced

\* An alignment depends on the texts only between its marks.
LEMMA SegAgree ==
    ASSUME NEW o \in OpSet, NEW t, NEW u, NEW p \in Nat, NEW q \in Nat,
           NEW p1, NEW q1, Seg(o, t, p, p1, u, q, q1),
           NEW t2, NEW u2, \A j \in (p + 1)..p1 : t2[j] = t[j],
           \A j \in (q + 1)..q1 : u2[j] = u[j]
    PROVE  Seg(o, t2, p, p1, u2, q, q1)
<1>1. CASE o.op = "retain"
    <2>1. o.n \in Nat /\ p1 = p + o.n /\ q1 = q + o.n
          /\ \A j \in 1..o.n : u[q + j] = t[p + j]
        BY <1>1, OpFacts DEF Seg
    <2>2. \A j \in 1..o.n : p + j \in (p + 1)..p1 /\ q + j \in (q + 1)..q1
        BY <2>1
    <2>. QED
        BY <1>1, <2>1, <2>2 DEF Seg
<1>2. CASE o.op = "insert"
    <2>1. Len(o.chars) \in Nat /\ p1 = p /\ q1 = q + Len(o.chars)
          /\ \A j \in 1..Len(o.chars) : u[q + j] = o.chars[j]
        BY <1>2, OpFacts DEF Seg
    <2>2. \A j \in 1..Len(o.chars) : q + j \in (q + 1)..q1
        BY <2>1
    <2>. QED
        BY <1>2, <2>1, <2>2 DEF Seg
<1>3. CASE o.op = "delete"
    BY <1>3, OpFacts DEF Seg
<1>. QED
    BY <1>1, <1>2, <1>3, OpFacts

LEMMA AlignEmpty ==
    ASSUME NEW t, NEW u, NEW p \in Nat, NEW q \in Nat
    PROVE  Align(t, p, <<>>, u, q, p, q)
<1>1. Marks([i \in 0..0 |-> p], [i \in 0..0 |-> q], t, p, <<>>, u, q, p, q)
    BY DEF Marks
<1>. QED
    BY <1>1 DEF Align

\* Marks of an empty list: nothing has been done.
LEMMA AlignEmptyOnly ==
    ASSUME NEW t, NEW u, NEW p \in Nat, NEW q \in Nat, NEW p1, NEW q1,
           Align(t, p, <<>>, u, q, p1, q1)
    PROVE  p1 = p /\ q1 = q
BY DEF Align, Marks

LEMMA AlignBounds ==
    ASSUME NEW ops \in Seq(OpSet), NEW t, NEW u, NEW p \in Nat, NEW q \in Nat,
           NEW p1 \in Nat, NEW q1 \in Nat, Align(t, p, ops, u, q, p1, q1)
    PROVE  p <= p1 /\ q <= q1
<1>1. PICK P, Q : Marks(P, Q, t, p, ops, u, q, p1, q1)
    BY DEF Align
<1>2. 0 \in 0..Len(ops)
    BY LenProperties
<1>3. P[0] = p /\ P[0] \in p..p1 /\ Q[0] = q /\ Q[0] \in q..q1
    BY <1>1, <1>2 DEF Marks
<1>. QED
    BY <1>3

LEMMA Within ==
    ASSUME NEW a \in Nat, NEW b \in Nat, NEW c \in a..b, NEW d \in a..b
    PROVE  c \in Nat /\ (c + 1)..d \subseteq (a + 1)..b
OBVIOUS

LEMMA AlignAgree ==
    ASSUME NEW ops \in Seq(OpSet), NEW t, NEW u, NEW p \in Nat, NEW q \in Nat,
           NEW p1 \in Nat, NEW q1 \in Nat, Align(t, p, ops, u, q, p1, q1),
           NEW t2, NEW u2, \A j \in (p + 1)..p1 : t2[j] = t[j],
           \A j \in (q + 1)..q1 : u2[j] = u[j]
    PROVE  Align(t2, p, ops, u2, q, p1, q1)
<1>1. PICK P, Q : Marks(P, Q, t, p, ops, u, q, p1, q1)
    BY DEF Align
<1>2. ASSUME NEW i \in 1..Len(ops)
      PROVE  Seg(ops[i], t2, P[i - 1], P[i], u2, Q[i - 1], Q[i])
    <2>1. ops[i] \in OpSet /\ i - 1 \in 0..Len(ops) /\ i \in 0..Len(ops)
        BY LenProperties, ElementOfSeq
    <2>2. /\ P[i - 1] \in p..p1 /\ P[i] \in p..p1
          /\ Q[i - 1] \in q..q1 /\ Q[i] \in q..q1
          /\ Seg(ops[i], t, P[i - 1], P[i], u, Q[i - 1], Q[i])
        BY <1>1, <2>1 DEF Marks
    <2>. DEFINE a == P[i - 1]
                b == P[i]
                c == Q[i - 1]
                d == Q[i]
    <2>. HIDE DEF a, b, c, d
    <2>6. a \in p..p1 /\ b \in p..p1 /\ c \in q..q1 /\ d \in q..q1
        BY <2>2, Zenon DEF a, b, c, d
    <2>7. a \in Nat /\ (a + 1)..b \subseteq (p + 1)..p1
        BY <2>6, Within, Zenon
    <2>8. c \in Nat /\ (c + 1)..d \subseteq (q + 1)..q1
        BY <2>6, Within, Zenon
    <2>3. P[i - 1] \in Nat /\ (P[i - 1] + 1)..P[i] \subseteq (p + 1)..p1
        BY <2>7, Zenon DEF a, b
    <2>4. Q[i - 1] \in Nat /\ (Q[i - 1] + 1)..Q[i] \subseteq (q + 1)..q1
        BY <2>8, Zenon DEF c, d
    <2>5. /\ \A j \in (P[i - 1] + 1)..P[i] : t2[j] = t[j]
          /\ \A j \in (Q[i - 1] + 1)..Q[i] : u2[j] = u[j]
        BY <2>3, <2>4, Zenon
    <2>. QED
        BY <2>1, <2>2, <2>3, <2>4, <2>5, SegAgree, Zenon
<1>3. Marks(P, Q, t2, p, ops, u2, q, p1, q1)
    BY <1>1, <1>2 DEF Marks
<1>. QED
    BY <1>3 DEF Align

\* One op more.
LEMMA AlignAppend ==
    ASSUME NEW ops \in Seq(OpSet), NEW o \in OpSet, NEW t, NEW u,
           NEW p \in Nat, NEW q \in Nat, NEW p1 \in Nat, NEW q1 \in Nat,
           Align(t, p, ops, u, q, p1, q1),
           NEW p2, NEW q2, Seg(o, t, p1, p2, u, q1, q2)
    PROVE  Align(t, p, Append(ops, o), u, q, p2, q2)
<1>1. PICK P, Q : Marks(P, Q, t, p, ops, u, q, p1, q1)
    BY DEF Align
<1>. DEFINE m == Len(ops)
            new == Append(ops, o)
            P2 == [i \in 0..(m + 1) |-> IF i = m + 1 THEN p2 ELSE P[i]]
            Q2 == [i \in 0..(m + 1) |-> IF i = m + 1 THEN q2 ELSE Q[i]]
<1>2. /\ m \in Nat /\ Len(new) = m + 1
      /\ \A i \in 1..m : new[i] = ops[i]
      /\ new[m + 1] = o
    BY LenProperties, AppendProperties
<1>3. p2 \in Nat /\ q2 \in Nat /\ p1 <= p2 /\ q1 <= q2
    BY SegForward
<1>4. p <= p1 /\ q <= q1
    BY AlignBounds
<1>5. /\ P \in [0..m -> p..p1] /\ Q \in [0..m -> q..q1]
      /\ P[0] = p /\ P[m] = p1 /\ Q[0] = q /\ Q[m] = q1
      /\ \A i \in 1..m : Seg(ops[i], t, P[i - 1], P[i], u, Q[i - 1], Q[i])
    BY <1>1 DEF Marks
<1>. HIDE DEF m, new
<1>6. P2 \in [0..(m + 1) -> p..p2] /\ Q2 \in [0..(m + 1) -> q..q2]
    <2>1. \A i \in 0..(m + 1) : i # m + 1 => i \in 0..m
        BY <1>2
    <2>2. p..p1 \subseteq p..p2 /\ p2 \in p..p2 /\ q..q1 \subseteq q..q2
          /\ q2 \in q..q2
        BY <1>3, <1>4
    <2>. QED
        BY <1>5, <2>1, <2>2
<1>7. P2[0] = p /\ P2[m + 1] = p2 /\ Q2[0] = q /\ Q2[m + 1] = q2
    BY <1>2, <1>5
<1>8. ASSUME NEW i \in 1..(m + 1)
      PROVE  Seg(new[i], t, P2[i - 1], P2[i], u, Q2[i - 1], Q2[i])
    <2>1. CASE i = m + 1
        <3>1. P2[i - 1] = p1 /\ Q2[i - 1] = q1 /\ P2[i] = p2 /\ Q2[i] = q2
            BY <2>1, <1>2, <1>5
        <3>. QED
            BY <3>1, <2>1, <1>2
    <2>2. CASE i # m + 1
        <3>1. i \in 1..m /\ i - 1 # m + 1 /\ i \in 0..(m + 1)
              /\ i - 1 \in 0..(m + 1)
            BY <2>2, <1>2
        <3>. QED
            BY <3>1, <2>2, <1>2, <1>5
    <2>. QED
        BY <2>1, <2>2
<1>9. Marks(P2, Q2, t, p, new, u, q, p2, q2)
    <2>. HIDE DEF P2, Q2
    <2>. QED
        BY <1>2, <1>6, <1>7, <1>8 DEF Marks
<1>. QED
    BY <1>9 DEF Align, new

LEMMA LeqTransitive ==
    ASSUME NEW a \in Nat, NEW b \in Nat, NEW c \in Nat, a <= b, b <= c
    PROVE  a <= c
OBVIOUS

\* Later marks lie further on.
LEMMA MarksMonotone ==
    ASSUME NEW ops \in Seq(OpSet), NEW t, NEW u, NEW p \in Nat, NEW q \in Nat,
           NEW p1 \in Nat, NEW q1 \in Nat, NEW P, NEW Q,
           Marks(P, Q, t, p, ops, u, q, p1, q1),
           NEW h \in 0..Len(ops), NEW i \in 0..Len(ops), h <= i
    PROVE  P[h] <= P[i] /\ Q[h] <= Q[i]
<1>. DEFINE m == Len(ops)
            S == {k \in 0..m : h <= k => P[h] <= P[k] /\ Q[h] <= Q[k]}
<1>1. m \in Nat /\ \A k \in 1..m : ops[k] \in OpSet
    BY LenProperties, ElementOfSeq
<1>2. \A k \in 0..m : P[k] \in Nat /\ Q[k] \in Nat
    <2>1. P \in [0..m -> p..p1] /\ Q \in [0..m -> q..q1]
        BY DEF Marks
    <2>2. p..p1 \subseteq Nat /\ q..q1 \subseteq Nat
        OBVIOUS
    <2>. HIDE DEF m
    <2>. QED
        BY <2>1, <2>2
<1>3. \A k \in 1..m : Seg(ops[k], t, P[k - 1], P[k], u, Q[k - 1], Q[k])
    BY DEF Marks
<1>. HIDE DEF m
<1>4. 0 \in S
    <2>1. 0 \in 0..m /\ (h <= 0 => h = 0)
        BY <1>1 DEF m
    <2>. QED
        BY <2>1, <1>2
<1>5. ASSUME NEW k \in 0..(m - 1), k \in S
      PROVE  k + 1 \in S
    <2>1. k + 1 \in 1..m /\ (k + 1) - 1 = k /\ k \in 0..m /\ k + 1 \in 0..m
          /\ h \in 0..m
        BY <1>1 DEF m
    <2>2. P[k] <= P[k + 1] /\ Q[k] <= Q[k + 1]
        <3>1. Seg(ops[k + 1], t, P[k], P[k + 1], u, Q[k], Q[k + 1])
            BY <2>1, <1>3
        <3>2. ops[k + 1] \in OpSet /\ P[k] \in Nat /\ Q[k] \in Nat
            BY <2>1, <1>1, <1>2
        <3>. QED
            BY <3>1, <3>2, SegForward
    <2>3. h <= k => P[h] <= P[k] /\ Q[h] <= Q[k]
        BY <1>5
    <2>4. /\ P[h] \in Nat /\ P[k] \in Nat /\ P[k + 1] \in Nat
          /\ Q[h] \in Nat /\ Q[k] \in Nat /\ Q[k + 1] \in Nat
        BY <2>1, <1>2
    <2>5. h <= k + 1 => h <= k \/ h = k + 1
        BY <2>1
    <2>6. h <= k + 1 => P[h] <= P[k + 1] /\ Q[h] <= Q[k + 1]
        <3>1. CASE h = k + 1
            BY <3>1, <2>4
        <3>2. CASE h <= k
            BY <3>2, <2>2, <2>3, <2>4, LeqTransitive, Zenon
        <3>. QED
            BY <2>5, <3>1, <3>2
    <2>. QED
        BY <2>1, <2>6
<1>. HIDE DEF S
<1>6. 0..m \subseteq S
    BY <1>4, <1>5, <1>1, Induction
<1>. QED
    BY <1>6 DEF S, m

\* The first op, and the rest.
LEMMA AlignHead ==
    ASSUME NEW ops \in Seq(OpSet), ops # <<>>, NEW t, NEW u,
           NEW p \in Nat, NEW q \in Nat, NEW p1 \in Nat, NEW q1 \in Nat,
           Align(t, p, ops, u, q, p1, q1)
    PROVE  \E p2, q2 \in Nat : /\ Seg(Head(ops), t, p, p2, u, q, q2)
                               /\ Align(t, p2, Tail(ops), u, q2, p1, q1)
                               /\ p <= p2 /\ p2 <= p1 /\ q <= q2 /\ q2 <= q1
<1>1. PICK P, Q : Marks(P, Q, t, p, ops, u, q, p1, q1)
    BY DEF Align
<1>. DEFINE m == Len(ops)
            rest == Tail(ops)
            P2 == [i \in 0..(m - 1) |-> P[i + 1]]
            Q2 == [i \in 0..(m - 1) |-> Q[i + 1]]
<1>2. /\ m \in Nat /\ m > 0 /\ rest \in Seq(OpSet) /\ Len(rest) = m - 1
      /\ \A i \in 1..(m - 1) : rest[i] = ops[i + 1]
      /\ Head(ops) = ops[1] /\ \A i \in 1..m : ops[i] \in OpSet
    BY LenProperties, EmptySeq, HeadTailProperties, ElementOfSeq
<1>3. /\ P \in [0..m -> p..p1] /\ Q \in [0..m -> q..q1]
      /\ P[0] = p /\ P[m] = p1 /\ Q[0] = q /\ Q[m] = q1
      /\ \A i \in 1..m : Seg(ops[i], t, P[i - 1], P[i], u, Q[i - 1], Q[i])
    BY <1>1 DEF Marks
<1>. HIDE DEF m, rest
<1>4. \A i \in 0..m : P[i] \in Nat /\ Q[i] \in Nat /\ p <= P[i] /\ P[i] <= p1
                      /\ q <= Q[i] /\ Q[i] <= q1
    BY <1>3
<1>5. ASSUME NEW i \in 0..m, i # 0
      PROVE  P[1] <= P[i] /\ Q[1] <= Q[i]
    <2>1. 1 \in 0..m /\ 1 <= i
        BY <1>2, <1>5
    <2>. QED
        BY <1>1, <2>1, MarksMonotone DEF m
<1>6. Seg(ops[1], t, p, P[1], u, q, Q[1]) /\ P[1] \in Nat /\ Q[1] \in Nat
      /\ p <= P[1] /\ P[1] <= p1 /\ q <= Q[1] /\ Q[1] <= q1
    <2>1. 1 \in 1..m /\ 1 \in 0..m /\ 1 - 1 = 0
        BY <1>2
    <2>. QED
        BY <2>1, <1>3, <1>4
<1>7. Marks(P2, Q2, t, P[1], rest, u, Q[1], p1, q1)
    <2>1. P2 \in [0..(m - 1) -> P[1]..p1] /\ Q2 \in [0..(m - 1) -> Q[1]..q1]
        <3>1. ASSUME NEW i \in 0..(m - 1)
              PROVE  P[i + 1] \in P[1]..p1 /\ Q[i + 1] \in Q[1]..q1
            <4>1. i + 1 \in 0..m /\ i + 1 # 0 /\ 1 \in 0..m
                BY <1>2
            <4>. QED
                BY <4>1, <1>4, <1>5
        <3>. QED
            BY <3>1
    <2>2. P2[0] = P[1] /\ P2[m - 1] = p1 /\ Q2[0] = Q[1] /\ Q2[m - 1] = q1
        BY <1>2, <1>3
    <2>3. ASSUME NEW i \in 1..(m - 1)
          PROVE  Seg(rest[i], t, P2[i - 1], P2[i], u, Q2[i - 1], Q2[i])
        <3>1. i + 1 \in 1..m /\ i - 1 \in 0..(m - 1) /\ i \in 0..(m - 1)
              /\ (i - 1) + 1 = i /\ (i + 1) - 1 = i
            BY <1>2
        <3>2. P2[i - 1] = P[i] /\ Q2[i - 1] = Q[i]
              /\ P2[i] = P[i + 1] /\ Q2[i] = Q[i + 1] /\ rest[i] = ops[i + 1]
            BY <3>1, <1>2
        <3>3. Seg(ops[i + 1], t, P[i], P[i + 1], u, Q[i], Q[i + 1])
            BY <3>1, <1>3
        <3>. QED
            BY <3>2, <3>3
    <2>. HIDE DEF P2, Q2
    <2>. QED
        BY <2>1, <2>2, <2>3, <1>2 DEF Marks
<1>8. Align(t, P[1], rest, u, Q[1], p1, q1)
    BY <1>7 DEF Align
<1>. QED
    BY <1>2, <1>6, <1>8 DEF rest

LEMMA FrontFacts ==
    ASSUME NEW ops \in Seq(OpSet), ops # <<>>
    PROVE  /\ Front(ops) \in Seq(OpSet) /\ Len(Front(ops)) = Len(ops) - 1
           /\ \A i \in 1..(Len(ops) - 1) : Front(ops)[i] = ops[i]
           /\ Last(ops) = ops[Len(ops)] /\ Last(ops) \in OpSet
           /\ Len(ops) \in Nat /\ Len(ops) > 0
<1>. DEFINE m == Len(ops)
            front == Front(ops)
<1>1. /\ m \in Nat /\ m > 0 /\ \A i \in 1..m : ops[i] \in OpSet
      /\ Last(ops) = ops[m]
    BY LenProperties, EmptySeq, ElementOfSeq DEF Last
<1>2. \A i \in 1..(m - 1) : ops[i] \in OpSet
    BY <1>1
<1>3. front = SubSeq(ops, 1, m - 1) /\ m - 1 \in Int /\ 1 \in Int
    BY <1>1 DEF Front
<1>. HIDE DEF front, m
<1>4. /\ front \in Seq(OpSet)
      /\ Len(front) = IF 1 <= m - 1 THEN m - 1 - 1 + 1 ELSE 0
      /\ \A i \in 1..(m - 1 - 1 + 1) : front[i] = ops[1 + i - 1]
    BY <1>2, <1>3, SubSeqProperties
<1>5. /\ m - 1 - 1 + 1 = m - 1 /\ (~ 1 <= m - 1 => m - 1 = 0)
      /\ \A i \in 1..(m - 1) : 1 + i - 1 = i
    BY <1>1
<1>6. Last(ops) \in OpSet
    BY <1>1
<1>. QED
    BY <1>1, <1>4, <1>5, <1>6 DEF front, m

LEMMA FrontLast ==
    ASSUME NEW ops \in Seq(OpSet), ops # <<>>
    PROVE  ops = Append(Front(ops), Last(ops))
<1>. DEFINE m == Len(ops)
            front == Front(ops)
            s == Append(front, Last(ops))
<1>1. /\ m \in Nat /\ front \in Seq(OpSet) /\ Len(front) = m - 1
      /\ \A i \in 1..(m - 1) : front[i] = ops[i]
      /\ Last(ops) = ops[m] /\ Last(ops) \in OpSet
    BY FrontFacts
<1>. HIDE DEF front
<1>2. s \in Seq(OpSet) /\ Len(s) = m /\ \A i \in 1..m : s[i] = ops[i]
    BY <1>1, AppendProperties
<1>. HIDE DEF s
<1>3. Len(s) = Len(ops) /\ \A i \in 1..Len(s) : s[i] = ops[i]
    BY <1>2 DEF m
<1>4. s = ops
    BY <1>2, <1>3, SeqEqual
<1>. QED
    BY <1>4 DEF s, front

\* The last op, and what comes before it.
LEMMA AlignLast ==
    ASSUME NEW ops \in Seq(OpSet), ops # <<>>, NEW t, NEW u,
           NEW p \in Nat, NEW q \in Nat, NEW p1 \in Nat, NEW q1 \in Nat,
           Align(t, p, ops, u, q, p1, q1)
    PROVE  /\ Front(ops) \in Seq(OpSet) /\ Last(ops) \in OpSet
           /\ ops = Append(Front(ops), Last(ops))
           /\ \E p0, q0 \in Nat : /\ Align(t, p, Front(ops), u, q, p0, q0)
                                  /\ Seg(Last(ops), t, p0, p1, u, q0, q1)
<1>1. PICK P, Q : Marks(P, Q, t, p, ops, u, q, p1, q1)
    BY DEF Align
<1>. DEFINE m == Len(ops)
            front == Front(ops)
            P2 == [i \in 0..(m - 1) |-> P[i]]
            Q2 == [i \in 0..(m - 1) |-> Q[i]]
<1>2. /\ m \in Nat /\ m > 0 /\ \A i \in 1..m : ops[i] \in OpSet
      /\ Last(ops) = ops[m]
    BY LenProperties, EmptySeq, ElementOfSeq DEF Last
<1>3. /\ front \in Seq(OpSet) /\ Len(front) = m - 1
      /\ \A i \in 1..(m - 1) : front[i] = ops[i]
    BY FrontFacts
<1>4. /\ P \in [0..m -> p..p1] /\ Q \in [0..m -> q..q1]
      /\ P[0] = p /\ P[m] = p1 /\ Q[0] = q /\ Q[m] = q1
      /\ \A i \in 1..m : Seg(ops[i], t, P[i - 1], P[i], u, Q[i - 1], Q[i])
    BY <1>1 DEF Marks
<1>5. ASSUME NEW i \in 0..(m - 1)
      PROVE  /\ i \in 0..m /\ P[i] \in p..P[m - 1] /\ Q[i] \in q..Q[m - 1]
             /\ P[m - 1] \in Nat /\ Q[m - 1] \in Nat
    <2>1. i \in 0..m /\ m - 1 \in 0..m /\ i <= m - 1
        BY <1>2
    <2>2. P[i] <= P[m - 1] /\ Q[i] <= Q[m - 1]
        BY <1>1, <2>1, MarksMonotone
    <2>3. P[i] \in p..p1 /\ Q[i] \in q..q1 /\ P[m - 1] \in p..p1 /\ Q[m - 1] \in q..q1
        BY <1>4, <2>1

    <2>. DEFINE a == P[i]
                b == P[m - 1]
                c == Q[i]
                d == Q[m - 1]
    <2>. HIDE DEF a, b, c, d
    <2>7. /\ a <= b /\ a \in p..p1 /\ b \in p..p1
          /\ c <= d /\ c \in q..q1 /\ d \in q..q1
        BY <2>2, <2>3, Zenon DEF a, b, c, d
    <2>8. a \in p..b /\ b \in Nat /\ c \in q..d /\ d \in Nat
        BY <2>7
    <2>5. P[i] \in p..P[m - 1] /\ P[m - 1] \in Nat
        BY <2>8, Zenon DEF a, b
    <2>6. Q[i] \in q..Q[m - 1] /\ Q[m - 1] \in Nat
        BY <2>8, Zenon DEF c, d
    <2>. QED
        BY <2>1, <2>5, <2>6, Zenon
<1>. HIDE DEF m, front
<1>6. Marks(P2, Q2, t, p, front, u, q, P[m - 1], Q[m - 1])
    <2>1. /\ P2 \in [0..(m - 1) -> p..P[m - 1]]
          /\ Q2 \in [0..(m - 1) -> q..Q[m - 1]]
        BY <1>5
    <2>2. P2[0] = p /\ P2[m - 1] = P[m - 1] /\ Q2[0] = q /\ Q2[m - 1] = Q[m - 1]
        BY <1>2, <1>4
    <2>3. ASSUME NEW i \in 1..(m - 1)
          PROVE  Seg(front[i], t, P2[i - 1], P2[i], u, Q2[i - 1], Q2[i])
        <3>1. i - 1 \in 0..(m - 1) /\ i \in 0..(m - 1) /\ i \in 1..m
            BY <1>2
        <3>2. P2[i - 1] = P[i - 1] /\ Q2[i - 1] = Q[i - 1]
              /\ P2[i] = P[i] /\ Q2[i] = Q[i] /\ front[i] = ops[i]
            BY <3>1, <1>3
        <3>3. Seg(ops[i], t, P[i - 1], P[i], u, Q[i - 1], Q[i])
            BY <3>1, <1>4
        <3>. QED
            BY <3>2, <3>3
    <2>. HIDE DEF P2, Q2
    <2>. QED
        BY <2>1, <2>2, <2>3, <1>3 DEF Marks
<1>7. Align(t, p, front, u, q, P[m - 1], Q[m - 1])
    BY <1>6 DEF Align
<1>8. Seg(Last(ops), t, P[m - 1], p1, u, Q[m - 1], q1)
      /\ P[m - 1] \in Nat /\ Q[m - 1] \in Nat
    <2>1. m \in 1..m /\ m - 1 \in 0..(m - 1)
        BY <1>2
    <2>. QED
        BY <2>1, <1>2, <1>4, <1>5
<1>9. ops = Append(front, Last(ops))
    BY FrontLast DEF front
<1>. QED
    BY <1>2, <1>3, <1>7, <1>8, <1>9 DEF front

\* An op in front.
LEMMA AlignCons ==
    ASSUME NEW rest \in Seq(OpSet), NEW o \in OpSet, NEW t, NEW u,
           NEW p \in Nat, NEW q \in Nat, NEW p1 \in Nat, NEW q1 \in Nat,
           NEW p2 \in Nat, NEW q2 \in Nat,
           Seg(o, t, p, p2, u, q, q2), Align(t, p2, rest, u, q2, p1, q1)
    PROVE  Align(t, p, <<o>> \o rest, u, q, p1, q1)
<1>1. PICK P, Q : Marks(P, Q, t, p2, rest, u, q2, p1, q1)
    BY DEF Align
<1>. DEFINE m == Len(rest)
            new == <<o>> \o rest
            P2 == [i \in 0..(m + 1) |-> IF i = 0 THEN p ELSE P[i - 1]]
            Q2 == [i \in 0..(m + 1) |-> IF i = 0 THEN q ELSE Q[i - 1]]
<1>2. /\ m \in Nat /\ Len(new) = m + 1 /\ new[1] = o
      /\ \A i \in 1..(m + 1) : i # 1 => new[i] = rest[i - 1]
    <2>1. <<o>> \in Seq(OpSet) /\ Len(<<o>>) = 1 /\ <<o>>[1] = o /\ m \in Nat
        BY LenProperties
    <2>. QED
        BY <2>1, ConcatProperties
<1>3. p <= p2 /\ q <= q2
    BY SegForward
<1>4. p2 <= p1 /\ q2 <= q1
    BY AlignBounds
<1>5. /\ P \in [0..m -> p2..p1] /\ Q \in [0..m -> q2..q1]
      /\ P[0] = p2 /\ P[m] = p1 /\ Q[0] = q2 /\ Q[m] = q1
      /\ \A i \in 1..m : Seg(rest[i], t, P[i - 1], P[i], u, Q[i - 1], Q[i])
    BY <1>1 DEF Marks
<1>. HIDE DEF m, new
<1>6. P2 \in [0..(m + 1) -> p..p1] /\ Q2 \in [0..(m + 1) -> q..q1]
    <2>1. \A i \in 0..(m + 1) : i # 0 => i - 1 \in 0..m
        BY <1>2
    <2>2. p2..p1 \subseteq p..p1 /\ p \in p..p1 /\ q2..q1 \subseteq q..q1
          /\ q \in q..q1
        BY <1>3, <1>4
    <2>. QED
        BY <1>5, <2>1, <2>2
<1>7. P2[0] = p /\ P2[m + 1] = p1 /\ Q2[0] = q /\ Q2[m + 1] = q1
    BY <1>2, <1>5
<1>8. ASSUME NEW i \in 1..(m + 1)
      PROVE  Seg(new[i], t, P2[i - 1], P2[i], u, Q2[i - 1], Q2[i])
    <2>1. CASE i = 1
        <3>1. P2[i - 1] = p /\ Q2[i - 1] = q /\ P2[i] = p2 /\ Q2[i] = q2
            BY <2>1, <1>2, <1>5
        <3>. QED
            BY <3>1, <2>1, <1>2
    <2>2. CASE i # 1
        <3>1. i - 1 \in 1..m /\ i - 1 # 0 /\ i \in 0..(m + 1)
              /\ i - 1 \in 0..(m + 1)
            BY <2>2, <1>2
        <3>2. /\ P2[i - 1] = P[(i - 1) - 1] /\ Q2[i - 1] = Q[(i - 1) - 1]
              /\ P2[i] = P[i - 1] /\ Q2[i] = Q[i - 1]
            BY <3>1
        <3>3. new[i] = rest[i - 1]
            BY <2>2, <1>2
        <3>. QED
            BY <3>1, <3>2, <3>3, <1>5
    <2>. QED
        BY <2>1, <2>2
<1>9. Marks(P2, Q2, t, p, new, u, q, p1, q1)
    <2>. HIDE DEF P2, Q2
    <2>. QED
        BY <1>2, <1>6, <1>7, <1>8 DEF Marks
<1>. QED
    BY <1>9 DEF Align, new

\* What addOp makes of the last op and one of the same kind.
MergedOp(a, o) ==
    IF o.op = "insert" THEN Insert(a.chars \o o.chars)
    ELSE [o EXCEPT !.n = a.n + o.n]

LEMMA MergedOpType ==
    ASSUME NEW a \in OpSet, NEW o \in OpSet, a.op = o.op
    PROVE  /\ MergedOp(a, o) \in OpSet /\ MergedOp(a, o).op = o.op
           /\ o.op = "insert" => MergedOp(a, o).chars = a.chars \o o.chars
           /\ o.op # "insert" => MergedOp(a, o).n = a.n + o.n
<1>1. CASE o.op = "insert"
    <2>1. /\ a.chars \in Seq(Nat) /\ Len(a.chars) > 0
          /\ o.chars \in Seq(Nat) /\ Len(o.chars) > 0
        BY <1>1, OpFacts DEF Text
    <2>. DEFINE s == a.chars \o o.chars
    <2>2. s \in Seq(Nat) /\ Len(s) = Len(a.chars) + Len(o.chars)
        BY <2>1, ConcatProperties
    <2>3. s # <<>>
        BY <2>1, <2>2, LenProperties, EmptySeq
    <2>4. MergedOp(a, o) = [op |-> "insert", chars |-> s]
        BY <1>1 DEF MergedOp, Insert
    <2>. HIDE DEF s
    <2>5. MergedOp(a, o) \in [op : {"insert"}, chars : Text \ {<<>>}]
        BY <2>2, <2>3, <2>4 DEF Text
    <2>6. MergedOp(a, o) \in OpSet
        BY <2>5 DEF OpSet
    <2>7. MergedOp(a, o).op = o.op /\ MergedOp(a, o).chars = s
        BY <2>4, <1>1
    <2>. QED
        BY <2>6, <2>7, <1>1 DEF s
<1>2. CASE o.op # "insert"
    <2>1. /\ a.n \in Nat /\ a.n > 0 /\ o.n \in Nat /\ o.n > 0
          /\ o.op \in {"retain", "delete"}
        BY <1>2, OpFacts
    <2>2. o \in [op : {"retain", "delete"}, n : Nat \ {0}]
        BY <1>2 DEF OpSet
    <2>3. MergedOp(a, o) = [o EXCEPT !.n = a.n + o.n]
        BY <1>2 DEF MergedOp
    <2>4. /\ MergedOp(a, o) \in [op : {"retain", "delete"}, n : Nat \ {0}]
          /\ MergedOp(a, o).op = o.op /\ MergedOp(a, o).n = a.n + o.n
        BY <2>1, <2>2, <2>3
    <2>. QED
        BY <2>4, <1>2 DEF OpSet
<1>. QED
    BY <1>1, <1>2

\* Text s stands in u from mark q on.
Lies(s, u, q) == \A j \in 1..Len(s) : u[q + j] = s[j]

\* Two texts one after the other.
LEMMA TextJoin ==
    ASSUME NEW s \in Text, NEW r \in Text, NEW u, NEW q \in Nat,
           Lies(s, u, q), Lies(r, u, q + Len(s))
    PROVE  Len(s \o r) = Len(s) + Len(r) /\ Lies(s \o r, u, q)
<1>. DEFINE m == Len(s)
            n == Len(r)
            z == s \o r
<1>1. /\ m \in Nat /\ n \in Nat /\ Len(z) = m + n
      /\ \A j \in 1..(m + n) : z[j] = IF j <= m THEN s[j] ELSE r[j - m]
    <2>1. s \in Seq(Nat) /\ r \in Seq(Nat)
        BY DEF Text
    <2>2. m \in Nat /\ n \in Nat
        BY <2>1, LenProperties
    <2>3. Len(z) = m + n
        BY <2>1, ConcatProperties
    <2>4. \A j \in 1..(m + n) : z[j] = IF j <= m THEN s[j] ELSE r[j - m]
        BY <2>1, ConcatProperties, Zenon
    <2>. QED
        BY <2>2, <2>3, <2>4
<1>2. /\ \A j \in 1..m : u[q + j] = s[j]
      /\ \A j \in 1..n : u[(q + m) + j] = r[j]
    BY DEF Lies
<1>. HIDE DEF m, n, z
<1>3. ASSUME NEW j \in 1..(m + n)
      PROVE  u[q + j] = z[j]
    <2>1. CASE j <= m
        <3>1. j \in 1..m
            BY <2>1, <1>1
        <3>. QED
            BY <3>1, <2>1, <1>1, <1>2
    <2>2. CASE ~ (j <= m)
        <3>1. j - m \in 1..n /\ (q + m) + (j - m) = q + j
            BY <2>2, <1>1
        <3>2. u[q + j] = r[j - m]
            BY <3>1, <1>2
        <3>. QED
            BY <3>2, <2>2, <1>1
    <2>. QED
        BY <2>1, <2>2
<1>. QED
    BY <1>1, <1>3 DEF Lies, m, n, z

LEMMA SegMerge ==
    ASSUME NEW a \in OpSet, NEW o \in OpSet, a.op = o.op, NEW t, NEW u,
           NEW p0 \in Nat, NEW q0 \in Nat, NEW p1 \in Nat, NEW q1 \in Nat,
           NEW p2, NEW q2,
           Seg(a, t, p0, p1, u, q0, q1), Seg(o, t, p1, p2, u, q1, q2)
    PROVE  Seg(MergedOp(a, o), t, p0, p2, u, q0, q2)
<1>. DEFINE M == MergedOp(a, o)
<1>0. /\ M.op = o.op
      /\ o.op = "insert" => M.chars = a.chars \o o.chars
      /\ o.op # "insert" => M.n = a.n + o.n
    BY MergedOpType
<1>. HIDE DEF M
<1>1. CASE o.op = "insert"
    <2>1. /\ a.chars \in Seq(Nat) /\ o.chars \in Seq(Nat)
          /\ Len(a.chars) \in Nat /\ Len(o.chars) \in Nat
        BY <1>1, OpFacts DEF Text
    <2>2. /\ p1 = p0 /\ q1 = q0 + Len(a.chars) /\ p2 = p1
          /\ q2 = q1 + Len(o.chars)
          /\ \A j \in 1..Len(a.chars) : u[q0 + j] = a.chars[j]
          /\ \A j \in 1..Len(o.chars) : u[q1 + j] = o.chars[j]
        BY <1>1 DEF Seg
    <2>3. /\ Len(M.chars) = Len(a.chars) + Len(o.chars)
          /\ \A j \in 1..Len(M.chars) : u[q0 + j] = M.chars[j]
        <3>1. Lies(a.chars, u, q0) /\ Lies(o.chars, u, q0 + Len(a.chars))
            BY <2>2 DEF Lies
        <3>2. a.chars \in Text /\ o.chars \in Text /\ M.chars = a.chars \o o.chars
            BY <1>0, <1>1, <2>1 DEF Text
        <3>3. /\ Len(M.chars) = Len(a.chars) + Len(o.chars)
              /\ Lies(M.chars, u, q0)
            BY <3>1, <3>2, TextJoin
        <3>. QED
            BY <3>3 DEF Lies
    <2>4. q2 = q0 + Len(M.chars) /\ p2 = p0
        <3>. DEFINE x == Len(a.chars)
                    y == Len(o.chars)
        <3>0. Len(M.chars) = x + y
            <4>1. a.chars \in Text /\ o.chars \in Text /\ M.chars = a.chars \o o.chars
                BY <1>0, <1>1, <2>1 DEF Text
            <4>. QED
                BY <2>1, <4>1, ConcatProperties
        <3>1. x \in Nat /\ y \in Nat /\ q1 = q0 + x /\ q2 = q1 + y
            BY <2>1, <2>2
        <3>. HIDE DEF x, y
        <3>. QED
            BY <3>0, <3>1, <2>2
    <2>. QED
        BY <1>0, <1>1, <2>3, <2>4 DEF Seg, M
<1>2. CASE o.op = "retain"
    <2>1. a.n \in Nat /\ o.n \in Nat /\ M.n = a.n + o.n
        BY <1>0, <1>2, OpFacts
    <2>3. /\ p1 = p0 + a.n /\ q1 = q0 + a.n /\ p2 = p1 + o.n /\ q2 = q1 + o.n
          /\ \A j \in 1..a.n : u[q0 + j] = t[p0 + j]
          /\ \A j \in 1..o.n : u[q1 + j] = t[p1 + j]
        BY <1>2 DEF Seg
    <2>4. ASSUME NEW j \in 1..(a.n + o.n)
          PROVE  u[q0 + j] = t[p0 + j]
        <3>1. CASE j <= a.n
            <4>1. j \in 1..a.n
                BY <2>1, <3>1
            <4>. QED
                BY <4>1, <2>3
        <3>2. CASE ~ (j <= a.n)
            <4>1. j - a.n \in 1..o.n /\ q1 + (j - a.n) = q0 + j
                  /\ p1 + (j - a.n) = p0 + j
                BY <2>1, <2>3, <3>2
            <4>2. u[q1 + (j - a.n)] = t[p1 + (j - a.n)]
                BY <4>1, <2>3
            <4>. QED
                BY <4>1, <4>2
        <3>. QED
            BY <3>1, <3>2
    <2>5. q2 = q0 + M.n /\ p2 = p0 + M.n
        BY <2>1, <2>3
    <2>. QED
        BY <1>0, <1>2, <2>1, <2>4, <2>5 DEF Seg, M
<1>3. CASE o.op = "delete"
    <2>1. a.n \in Nat /\ o.n \in Nat /\ M.n = a.n + o.n
        BY <1>0, <1>3, OpFacts
    <2>2. p1 = p0 + a.n /\ q1 = q0 /\ p2 = p1 + o.n /\ q2 = q1
        BY <1>3 DEF Seg
    <2>3. p2 = p0 + M.n /\ q2 = q0
        BY <2>1, <2>2
    <2>. QED
        BY <1>0, <1>3, <2>3 DEF Seg, M
<1>. QED
    BY <1>1, <1>2, <1>3, OpFacts

\* addOp, whether it merges or not.
LEMMA AddOpCases ==
    ASSUME NEW ops \in Seq(OpSet), NEW o \in OpSet
    PROVE  \/ addOp(ops, o) = Append(ops, o) /\ (ops = <<>> \/ Last(ops).op # o.op)
           \/ /\ ops # <<>> /\ Last(ops).op = o.op
              /\ Front(ops) \in Seq(OpSet) /\ Last(ops) \in OpSet
              /\ addOp(ops, o) = Append(Front(ops), MergedOp(Last(ops), o))
<1>1. CASE ops = <<>> \/ Last(ops).op # o.op
    BY <1>1 DEF addOp
<1>2. CASE ops # <<>> /\ Last(ops).op = o.op
    <2>1. addOp(ops, o) = Front(ops) \o <<MergedOp(Last(ops), o)>>
        BY <1>2 DEF addOp, MergedOp
    <2>2. Front(ops) \in Seq(OpSet) /\ Last(ops) \in OpSet
        <3>1. Len(ops) \in Nat /\ Len(ops) > 0 /\ \A i \in 1..Len(ops) : ops[i] \in OpSet
            BY <1>2, LenProperties, EmptySeq, ElementOfSeq
        <3>2. Last(ops) \in OpSet
            BY <3>1 DEF Last
        <3>3. /\ \A i \in 1..(Len(ops) - 1) : ops[i] \in OpSet
              /\ Len(ops) - 1 \in Int
            BY <3>1
        <3>4. Front(ops) \in Seq(OpSet)
            BY <3>3, SubSeqProperties DEF Front
        <3>. QED
            BY <3>2, <3>4
    <2>3. MergedOp(Last(ops), o) \in OpSet
        BY <2>2, <1>2, MergedOpType
    <2>4. ASSUME NEW s \in Seq(OpSet), NEW e \in OpSet
          PROVE  s \o <<e>> = Append(s, e)
        OBVIOUS
    <2>. QED
        BY <1>2, <2>1, <2>2, <2>3, <2>4
<1>. QED
    BY <1>1, <1>2

LEMMA AddOpType ==
    ASSUME NEW ops \in Seq(OpSet), NEW o \in OpSet
    PROVE  addOp(ops, o) \in Seq(OpSet)
<1>1. CASE addOp(ops, o) = Append(ops, o)
    <2>1. Append(ops, o) \in Seq(OpSet)
        BY AppendProperties, Zenon
    <2>. QED
        BY <1>1, <2>1, Zenon
<1>2. CASE /\ Front(ops) \in Seq(OpSet) /\ Last(ops) \in OpSet /\ Last(ops).op = o.op
           /\ addOp(ops, o) = Append(Front(ops), MergedOp(Last(ops), o))
    <2>1. MergedOp(Last(ops), o) \in OpSet
        BY <1>2, MergedOpType, Zenon
    <2>2. Append(Front(ops), MergedOp(Last(ops), o)) \in Seq(OpSet)
        BY <1>2, <2>1, AppendProperties, Zenon
    <2>. QED
        BY <1>2, <2>2, Zenon
<1>. QED
    BY <1>1, <1>2, AddOpCases, Zenon

(***************************************************************************)
(* addOp extends an alignment by its op, whether it merges or not.         *)
(***************************************************************************)
LEMMA AlignAddOp ==
    ASSUME NEW ops \in Seq(OpSet), NEW o \in OpSet, NEW t, NEW u,
           NEW p \in Nat, NEW q \in Nat, NEW p1 \in Nat, NEW q1 \in Nat,
           Align(t, p, ops, u, q, p1, q1),
           NEW p2, NEW q2, Seg(o, t, p1, p2, u, q1, q2)
    PROVE  Align(t, p, addOp(ops, o), u, q, p2, q2)
<1>1. CASE addOp(ops, o) = Append(ops, o)
    BY <1>1, AlignAppend
<1>2. CASE /\ ops # <<>> /\ Last(ops).op = o.op
           /\ Front(ops) \in Seq(OpSet) /\ Last(ops) \in OpSet
           /\ addOp(ops, o) = Append(Front(ops), MergedOp(Last(ops), o))
    <2>1. PICK p0, q0 \in Nat : /\ Align(t, p, Front(ops), u, q, p0, q0)
                                /\ Seg(Last(ops), t, p0, p1, u, q0, q1)
        BY <1>2, AlignLast
    <2>2. /\ Seg(MergedOp(Last(ops), o), t, p0, p2, u, q0, q2)
          /\ MergedOp(Last(ops), o) \in OpSet
        BY <1>2, <2>1, SegMerge, MergedOpType
    <2>. QED
        BY <1>2, <2>1, <2>2, AlignAppend
<1>. QED
    BY <1>1, <1>2, AddOpCases

-----------------------------------------------------------------------------
(* A part of an op *)

Size(o) == IF o.op = "insert" THEN Len(o.chars) ELSE o.n

Part(o, n) == IF o.op = "insert" THEN Insert(SubSeq(o.chars, 1, n))
              ELSE [op |-> o.op, n |-> n]

Remainder(o, n) ==
    IF o.op = "insert" THEN Insert(SubSeq(o.chars, n + 1, Len(o.chars)))
    ELSE [o EXCEPT !.n = o.n - n]

\* Where the first n characters of o end.
OldMark(o, p, n) == IF o.op = "insert" THEN p ELSE p + n
NewMark(o, q, n) == IF o.op = "delete" THEN q ELSE q + n

\* A piece of a text.
LEMMA Piece ==
    ASSUME NEW s \in Text, NEW m \in Nat, NEW n \in Nat, m <= n, n <= Len(s)
    PROVE  /\ SubSeq(s, m + 1, n) \in Text /\ Len(SubSeq(s, m + 1, n)) = n - m
           /\ \A j \in 1..(n - m) : SubSeq(s, m + 1, n)[j] = s[m + j]
<1>. DEFINE z == SubSeq(s, m + 1, n)
<1>1. Len(s) \in Nat /\ \A i \in 1..Len(s) : s[i] \in Nat
    BY LenProperties, ElementOfSeq DEF Text
<1>2. \A i \in (m + 1)..n : s[i] \in Nat
    BY <1>1
<1>3. /\ z \in Seq(Nat)
      /\ Len(z) = IF m + 1 <= n THEN n - (m + 1) + 1 ELSE 0
      /\ \A i \in 1..(n - (m + 1) + 1) : z[i] = s[m + 1 + i - 1]
    BY <1>2, SubSeqProperties
<1>. HIDE DEF z
<1>4. n - (m + 1) + 1 = n - m /\ (~ (m + 1 <= n) => n - m = 0)
      /\ \A i \in 1..(n - m) : m + 1 + i - 1 = m + i
    OBVIOUS
<1>. QED
    BY <1>3, <1>4 DEF z, Text

LEMMA Beginning ==
    ASSUME NEW s \in Text, NEW n \in Nat, n <= Len(s)
    PROVE  /\ SubSeq(s, 1, n) \in Text /\ Len(SubSeq(s, 1, n)) = n
           /\ \A j \in 1..n : SubSeq(s, 1, n)[j] = s[j]
<1>1. 0 \in Nat /\ 0 <= n /\ 0 + 1 = 1 /\ n - 0 = n /\ \A j \in 1..n : 0 + j = j
    OBVIOUS
<1>2. /\ SubSeq(s, 0 + 1, n) \in Text /\ Len(SubSeq(s, 0 + 1, n)) = n - 0
      /\ \A j \in 1..(n - 0) : SubSeq(s, 0 + 1, n)[j] = s[0 + j]
    BY <1>1, Piece, Zenon
<1>. QED
    BY <1>1, <1>2

LEMMA PartSeg ==
    ASSUME NEW o \in OpSet, NEW n \in Nat, 0 < n, n <= Size(o),
           NEW t, NEW u, NEW p \in Nat, NEW q \in Nat, NEW p1, NEW q1,
           Seg(o, t, p, p1, u, q, q1)
    PROVE  /\ Part(o, n) \in OpSet /\ Part(o, n).op = o.op
           /\ Seg(Part(o, n), t, p, OldMark(o, p, n), u, q, NewMark(o, q, n))
           /\ OldMark(o, p, n) \in Nat /\ NewMark(o, q, n) \in Nat
           /\ n = Size(o) => OldMark(o, p, n) = p1 /\ NewMark(o, q, n) = q1
<1>1. CASE o.op = "insert"
    <2>1. /\ o.chars \in Text /\ Len(o.chars) \in Nat /\ n <= Len(o.chars)
          /\ p1 = p /\ q1 = q + Len(o.chars)
          /\ \A j \in 1..Len(o.chars) : u[q + j] = o.chars[j]
        BY <1>1, OpFacts DEF Seg, Size
    <2>. DEFINE z == SubSeq(o.chars, 1, n)
    <2>2. z \in Text /\ Len(z) = n /\ \A j \in 1..n : z[j] = o.chars[j]
        BY <2>1, Beginning
    <2>3. Part(o, n) = [op |-> "insert", chars |-> z]
        BY <1>1 DEF Part, Insert
    <2>. HIDE DEF z
    <2>4. z # <<>>
        BY <2>2, EmptySeq DEF Text
    <2>5. Part(o, n) \in OpSet
        BY <2>2, <2>3, <2>4 DEF OpSet
    <2>6. \A j \in 1..n : u[q + j] = z[j]
        <3>1. \A j \in 1..n : j \in 1..Len(o.chars)
            BY <2>1
        <3>. QED
            BY <3>1, <2>1, <2>2
    <2>7. Seg(Part(o, n), t, p, p, u, q, q + n)
        BY <2>2, <2>3, <2>6 DEF Seg
    <2>8. OldMark(o, p, n) = p /\ NewMark(o, q, n) = q + n /\ Size(o) = Len(o.chars)
        BY <1>1 DEF OldMark, NewMark, Size
    <2>. QED
        <3>1. Part(o, n).op = o.op /\ p \in Nat /\ q + n \in Nat
            BY <2>3, <1>1
        <3>2. n = Size(o) => p = p1 /\ q + n = q1
            BY <2>1, <2>8
        <3>. QED
            BY <2>5, <2>7, <2>8, <3>1, <3>2
<1>2. CASE o.op # "insert"
    <2>1. o.n \in Nat /\ n <= o.n /\ o.op \in {"retain", "delete"} /\ Size(o) = o.n
        BY <1>2, OpFacts DEF Size
    <2>2. Part(o, n) = [op |-> o.op, n |-> n]
        BY <1>2 DEF Part
    <2>3. Part(o, n) \in OpSet
        BY <2>1, <2>2 DEF OpSet
    <2>4. OldMark(o, p, n) = p + n
          /\ NewMark(o, q, n) = IF o.op = "delete" THEN q ELSE q + n
        BY <1>2 DEF OldMark, NewMark
    <2>5. \A j \in 1..n : j \in 1..o.n
        BY <2>1
    <2>. QED
        BY <1>2, <2>1, <2>2, <2>3, <2>4, <2>5 DEF Seg
<1>. QED
    BY <1>1, <1>2

LEMMA RemainderSeg ==
    ASSUME NEW o \in OpSet, NEW n \in Nat, 0 < n, n < Size(o),
           NEW t, NEW u, NEW p \in Nat, NEW q \in Nat, NEW p1, NEW q1,
           Seg(o, t, p, p1, u, q, q1)
    PROVE  /\ Remainder(o, n) \in OpSet /\ Remainder(o, n).op = o.op
           /\ Seg(Remainder(o, n), t, OldMark(o, p, n), p1,
                  u, NewMark(o, q, n), q1)
<1>1. CASE o.op = "insert"
    <2>1. /\ o.chars \in Text /\ Len(o.chars) \in Nat /\ n < Len(o.chars)
          /\ p1 = p /\ q1 = q + Len(o.chars)
          /\ \A j \in 1..Len(o.chars) : u[q + j] = o.chars[j]
        BY <1>1, OpFacts DEF Seg, Size
    <2>. DEFINE z == SubSeq(o.chars, n + 1, Len(o.chars))
                l == Len(o.chars)
    <2>2. z \in Text /\ Len(z) = l - n /\ \A j \in 1..(l - n) : z[j] = o.chars[n + j]
        <3>1. n <= l /\ l <= l /\ l \in Nat
            BY <2>1
        <3>. QED
            BY <3>1, <2>1, Piece, Zenon
    <2>3. Remainder(o, n) = [op |-> "insert", chars |-> z]
        BY <1>1 DEF Remainder, Insert
    <2>4. l \in Nat /\ n < l /\ q1 = q + l /\ \A j \in 1..l : u[q + j] = o.chars[j]
        BY <2>1
    <2>. HIDE DEF z, l
    <2>5. z # <<>>
        BY <2>2, <2>4, EmptySeq DEF Text
    <2>6. Remainder(o, n) \in OpSet
        BY <2>2, <2>3, <2>5 DEF OpSet
    <2>7. \A j \in 1..(l - n) : u[(q + n) + j] = z[j]
        <3>1. \A j \in 1..(l - n) : n + j \in 1..l /\ (q + n) + j = q + (n + j)
            BY <2>4
        <3>. QED
            BY <3>1, <2>2, <2>4
    <2>8. q1 = (q + n) + (l - n)
        BY <2>4
    <2>9. Seg(Remainder(o, n), t, p, p, u, q + n, q1)
        <3>1. Remainder(o, n).op = "insert" /\ Remainder(o, n).chars = z
            BY <2>3
        <3>2. \A j \in 1..Len(z) : u[(q + n) + j] = z[j]
            BY <2>2, <2>7
        <3>3. q1 = (q + n) + Len(z)
            BY <2>2, <2>8
        <3>. QED
            BY <3>1, <3>2, <3>3 DEF Seg
    <2>10. OldMark(o, p, n) = p /\ NewMark(o, q, n) = q + n
        BY <1>1 DEF OldMark, NewMark
    <2>. QED
        BY <2>1, <2>3, <2>6, <2>9, <2>10, <1>1
<1>2. CASE o.op # "insert"
    <2>1. o.n \in Nat /\ n < o.n /\ o.op \in {"retain", "delete"}
          /\ o \in [op : {"retain", "delete"}, n : Nat \ {0}]
        BY <1>2, OpFacts DEF Size, OpSet
    <2>. DEFINE r == Remainder(o, n)
    <2>2. r = [o EXCEPT !.n = o.n - n]
        BY <1>2 DEF Remainder
    <2>3. r.op = o.op /\ r.n = o.n - n /\ r \in [op : {"retain", "delete"}, n : Nat \ {0}]
        BY <2>1, <2>2
    <2>4. OldMark(o, p, n) = p + n
          /\ NewMark(o, q, n) = IF o.op = "delete" THEN q ELSE q + n
        BY <1>2 DEF OldMark, NewMark
    <2>. HIDE DEF r
    <2>5. CASE o.op = "retain"
        <3>1. p1 = p + o.n /\ q1 = q + o.n /\ \A j \in 1..o.n : u[q + j] = t[p + j]
            BY <2>5 DEF Seg
        <3>2. \A j \in 1..(o.n - n) : /\ n + j \in 1..o.n
                                      /\ (q + n) + j = q + (n + j)
                                      /\ (p + n) + j = p + (n + j)
            BY <2>1
        <3>3. \A j \in 1..(o.n - n) : u[(q + n) + j] = t[(p + n) + j]
            BY <3>1, <3>2
        <3>4. p1 = (p + n) + (o.n - n) /\ q1 = (q + n) + (o.n - n)
            BY <3>1, <2>1
        <3>. QED
            BY <2>3, <2>4, <2>5, <3>3, <3>4 DEF Seg, OpSet, r
    <2>6. CASE o.op = "delete"
        <3>1. p1 = p + o.n /\ q1 = q
            BY <2>6 DEF Seg
        <3>2. p1 = (p + n) + (o.n - n)
            BY <3>1, <2>1
        <3>. QED
            BY <2>3, <2>4, <2>6, <3>1, <3>2 DEF Seg, OpSet, r
    <2>. QED
        BY <2>1, <2>5, <2>6
<1>. QED
    BY <1>1, <1>2

-----------------------------------------------------------------------------
(* Lists of ops *)

LEMMA HeadTail ==
    ASSUME NEW ops \in Seq(OpSet), ops # <<>>
    PROVE  /\ Head(ops) \in OpSet /\ Tail(ops) \in Seq(OpSet)
           /\ Len(ops) \in Nat /\ Len(ops) > 0
           /\ Len(Tail(ops)) = Len(ops) - 1 /\ Head(ops) = ops[1]
           /\ \A i \in 1..Len(Tail(ops)) : Tail(ops)[i] = ops[i + 1]
BY LenProperties, EmptySeq, HeadTailProperties, ElementOfSeq

LEMMA InFront ==
    ASSUME NEW ops \in Seq(OpSet), NEW o \in OpSet
    PROVE  /\ <<o>> \o ops \in Seq(OpSet) /\ Len(<<o>> \o ops) = Len(ops) + 1
           /\ (<<o>> \o ops)[1] = o
           /\ \A i \in 1..Len(ops) : (<<o>> \o ops)[i + 1] = ops[i]
<1>. DEFINE z == <<o>> \o ops
            m == Len(ops)
<1>1. <<o>> \in Seq(OpSet) /\ Len(<<o>>) = 1 /\ <<o>>[1] = o /\ m \in Nat
    BY LenProperties
<1>2. /\ z \in Seq(OpSet) /\ Len(z) = 1 + m
      /\ \A i \in 1..(1 + m) : z[i] = IF i <= 1 THEN <<o>>[i] ELSE ops[i - 1]
    BY <1>1, ConcatProperties
<1>. HIDE DEF z, m
<1>3. z[1] = o
    BY <1>1, <1>2
<1>4. ASSUME NEW i \in 1..m PROVE z[i + 1] = ops[i]
    <2>1. i + 1 \in 1..(1 + m) /\ ~ (i + 1 <= 1) /\ (i + 1) - 1 = i
        BY <1>1
    <2>. QED
        BY <2>1, <1>2
<1>. QED
    BY <1>1, <1>2, <1>3, <1>4 DEF z, m

\* What addOp produces: two inserts never stand side by side.
Normal(ops) == \A i \in 1..(Len(ops) - 1) :
                   ~ (ops[i].op = "insert" /\ ops[i + 1].op = "insert")

LEMMA NormalTail ==
    ASSUME NEW ops \in Seq(OpSet), ops # <<>>, Normal(ops)
    PROVE  /\ Normal(Tail(ops))
           /\ IsInsert(ops) => ~ IsInsert(Tail(ops))
<1>. DEFINE z == Tail(ops)
            m == Len(ops)
<1>1. /\ m \in Nat /\ m > 0 /\ Len(z) = m - 1 /\ z \in Seq(OpSet)
      /\ Head(ops) = ops[1] /\ \A i \in 1..Len(z) : z[i] = ops[i + 1]
    BY HeadTail
<1>2. \A i \in 1..(m - 1) : ~ (ops[i].op = "insert" /\ ops[i + 1].op = "insert")
    BY DEF Normal
<1>3. z # <<>> => Len(z) > 0 /\ Head(z) = z[1]
    BY <1>1, HeadTail
<1>. HIDE DEF z, m
<1>4. ASSUME NEW i \in 1..(Len(z) - 1)
      PROVE  ~ (z[i].op = "insert" /\ z[i + 1].op = "insert")
    <2>1. i \in 1..Len(z) /\ i + 1 \in 1..Len(z) /\ i + 1 \in 1..(m - 1)
        BY <1>1
    <2>2. z[i] = ops[i + 1] /\ z[i + 1] = ops[(i + 1) + 1]
        BY <2>1, <1>1
    <2>. QED
        BY <2>1, <2>2, <1>2
<1>5. IsInsert(ops) => ~ IsInsert(z)
    <2>1. SUFFICES ASSUME IsInsert(ops), z # <<>>, Head(z).op = "insert" PROVE FALSE
        BY DEF IsInsert
    <2>2. 1 \in 1..Len(z) /\ 1 \in 1..(m - 1)
        BY <2>1, <1>1, <1>3
    <2>3. ops[1].op = "insert" /\ ops[1 + 1].op = "insert"
        BY <2>1, <2>2, <1>1, <1>3 DEF IsInsert
    <2>. QED
        BY <2>2, <2>3, <1>2
<1>. QED
    BY <1>4, <1>5 DEF Normal, z

LEMMA NormalInFront ==
    ASSUME NEW ops \in Seq(OpSet), NEW o \in OpSet, o.op # "insert", Normal(ops)
    PROVE  Normal(<<o>> \o ops)
<1>. DEFINE z == <<o>> \o ops
            m == Len(ops)
<1>1. /\ z \in Seq(OpSet) /\ Len(z) = m + 1 /\ z[1] = o
      /\ \A i \in 1..m : z[i + 1] = ops[i]
    BY InFront
<1>2. /\ m \in Nat
      /\ \A i \in 1..(m - 1) : ~ (ops[i].op = "insert" /\ ops[i + 1].op = "insert")
    BY LenProperties DEF Normal
<1>. HIDE DEF z, m
<1>3. ASSUME NEW i \in 1..(Len(z) - 1)
      PROVE  ~ (z[i].op = "insert" /\ z[i + 1].op = "insert")
    <2>1. CASE i = 1
        BY <2>1, <1>1
    <2>2. CASE i # 1
        <3>1. i - 1 \in 1..(m - 1) /\ i - 1 \in 1..m /\ i \in 1..m
              /\ (i - 1) + 1 = i
            BY <2>2, <1>1, <1>2
        <3>2. z[(i - 1) + 1] = ops[i - 1] /\ z[i + 1] = ops[i]
            BY <3>1, <1>1
        <3>3. ~ (ops[i - 1].op = "insert" /\ ops[(i - 1) + 1].op = "insert")
            BY <3>1, <1>2
        <3>. QED
            BY <3>1, <3>2, <3>3
    <2>. QED
        BY <2>1, <2>2
<1>. QED
    BY <1>3 DEF Normal, z

(***************************************************************************)
(* consume takes the first n characters of the first op: the marks move    *)
(* on by the part that is taken.                                           *)
(***************************************************************************)
LEMMA AlignConsume ==
    ASSUME NEW ops \in Seq(OpSet), ops # <<>>,
           NEW n \in Nat, 0 < n, n <= Size(Head(ops)), NEW t, NEW u,
           NEW p \in Nat, NEW q \in Nat, NEW p1 \in Nat, NEW q1 \in Nat,
           Align(t, p, ops, u, q, p1, q1)
    PROVE  LET o == Head(ops)
               p2 == OldMark(o, p, n)
               q2 == NewMark(o, q, n)
           IN  /\ Part(o, n) \in OpSet /\ Part(o, n).op = o.op
               /\ p2 \in Nat /\ q2 \in Nat
               /\ Seg(Part(o, n), t, p, p2, u, q, q2)
               /\ Align(t, p2, consume(ops, n), u, q2, p1, q1)
               /\ consume(ops, n) \in Seq(OpSet)
               /\ Len(consume(ops, n)) <= Len(ops)
               /\ n = Size(o) => Len(consume(ops, n)) = Len(ops) - 1
               /\ Normal(ops) /\ o.op # "insert" => Normal(consume(ops, n))
<1>. DEFINE o == Head(ops)
            p2 == OldMark(o, p, n)
            q2 == NewMark(o, q, n)
            rest == consume(ops, n)
<1>1. /\ o \in OpSet /\ Tail(ops) \in Seq(OpSet) /\ Len(ops) \in Nat
      /\ Len(Tail(ops)) = Len(ops) - 1
    BY HeadTail
<1>2. PICK pm, qm \in Nat : /\ Seg(o, t, p, pm, u, q, qm)
                            /\ Align(t, pm, Tail(ops), u, qm, p1, q1)
    BY AlignHead
<1>3. /\ Part(o, n) \in OpSet /\ Part(o, n).op = o.op
      /\ Seg(Part(o, n), t, p, p2, u, q, q2) /\ p2 \in Nat /\ q2 \in Nat
      /\ n = Size(o) => p2 = pm /\ q2 = qm
    BY <1>1, <1>2, PartSeg
<1>4. CASE n = Size(o)
    <2>1. rest = Tail(ops)
        BY <1>4 DEF consume, Size
    <2>. HIDE DEF rest, o, p2, q2
    <2>2. Normal(ops) => Normal(rest)
        BY <2>1, NormalTail
    <2>3. Len(rest) <= Len(ops) /\ Len(rest) = Len(ops) - 1
        BY <2>1, <1>1
    <2>. QED
        BY <1>1, <1>2, <1>3, <1>4, <2>1, <2>2, <2>3 DEF rest, o, p2, q2
<1>5. CASE n # Size(o)
    <2>1. rest = <<Remainder(o, n)>> \o Tail(ops)
        BY <1>5 DEF consume, Size, Remainder
    <2>2. n < Size(o)
        BY <1>1, <1>5, OpFacts DEF Size
    <2>. HIDE DEF rest, o, p2, q2
    <2>3. /\ Remainder(o, n) \in OpSet /\ Remainder(o, n).op = o.op
          /\ Seg(Remainder(o, n), t, p2, pm, u, q2, qm)
        BY <1>1, <1>2, <2>2, RemainderSeg DEF p2, q2
    <2>4. rest \in Seq(OpSet) /\ Len(rest) = Len(ops)
        BY <1>1, <2>1, <2>3, InFront
    <2>5. Align(t, p2, rest, u, q2, p1, q1)
        BY <1>1, <1>2, <1>3, <2>1, <2>3, AlignCons
    <2>6. Normal(ops) /\ o.op # "insert" => Normal(rest)
        BY <1>1, <2>1, <2>3, NormalTail, NormalInFront
    <2>. QED
        <3>1. Len(rest) <= Len(ops)
            BY <1>1, <2>4
        <3>2. n = Size(o) => Len(rest) = Len(ops) - 1
            BY <1>5, Zenon
        <3>. QED
            BY <1>3, <2>4, <2>5, <2>6, <3>1, <3>2 DEF rest, o, p2, q2
<1>. QED
    BY <1>4, <1>5

-----------------------------------------------------------------------------
(* A text that is being written *)

\* The ops of out have written w and are at mark q of x.
Written(x, out, w, q) ==
    out \in Seq(OpSet) /\ w \in Text /\ Align(x, 0, out, w, 0, q, Len(w))

LEMMA Longer ==
    ASSUME NEW w \in Text, NEW s \in Text
    PROVE  /\ w \o s \in Text /\ Len(w) \in Nat /\ Len(s) \in Nat
           /\ Len(w \o s) = Len(w) + Len(s)
           /\ \A j \in (0 + 1)..Len(w) : (w \o s)[j] = w[j]
           /\ \A j \in 1..Len(s) : (w \o s)[Len(w) + j] = s[j]
<1>. DEFINE m == Len(w)
            n == Len(s)
            z == w \o s
<1>1. w \in Seq(Nat) /\ s \in Seq(Nat)
    BY DEF Text
<1>2. m \in Nat /\ n \in Nat
    BY <1>1, LenProperties
<1>3. z \in Text /\ Len(z) = m + n
    BY <1>1, ConcatProperties DEF Text
<1>4. \A j \in 1..(m + n) : z[j] = IF j <= m THEN w[j] ELSE s[j - m]
    BY <1>1, ConcatProperties, Zenon
<1>. HIDE DEF m, n, z
<1>5. ASSUME NEW j \in (0 + 1)..m PROVE z[j] = w[j]
    <2>1. j \in 1..(m + n) /\ j <= m
        BY <1>2
    <2>. QED
        BY <2>1, <1>4
<1>6. ASSUME NEW j \in 1..n PROVE z[m + j] = s[j]
    <2>1. m + j \in 1..(m + n) /\ ~ (m + j <= m) /\ (m + j) - m = j
        BY <1>2
    <2>. QED
        BY <2>1, <1>4
<1>. QED
    BY <1>2, <1>3, <1>5, <1>6 DEF m, n, z

\* One op more, which writes s.
LEMMA Write ==
    ASSUME NEW x, NEW out, NEW w, NEW q \in Nat, Written(x, out, w, q),
           NEW o \in OpSet, NEW s \in Text, NEW q2,
           Seg(o, x, q, q2, w \o s, Len(w), Len(w) + Len(s))
    PROVE  Written(x, addOp(out, o), w \o s, q2)
<1>1. out \in Seq(OpSet) /\ w \in Text /\ Align(x, 0, out, w, 0, q, Len(w))
    BY DEF Written
<1>2. /\ w \o s \in Text /\ Len(w) \in Nat /\ Len(w \o s) = Len(w) + Len(s)
      /\ \A j \in (0 + 1)..Len(w) : (w \o s)[j] = w[j]
    BY <1>1, Longer
<1>3. Align(x, 0, out, w \o s, 0, q, Len(w))
    BY <1>1, <1>2, AlignAgree
<1>4. Align(x, 0, addOp(out, o), w \o s, 0, q2, Len(w) + Len(s))
    BY <1>1, <1>2, <1>3, AlignAddOp
<1>. QED
    BY <1>1, <1>2, <1>4, AddOpType DEF Written

LEMMA WriteInsert ==
    ASSUME NEW x, NEW out, NEW w, NEW q \in Nat, Written(x, out, w, q),
           NEW s \in Text, s # <<>>
    PROVE  Written(x, addOp(out, Insert(s)), w \o s, q)
<1>1. Insert(s) = [op |-> "insert", chars |-> s]
    BY DEF Insert
<1>2. Insert(s) \in OpSet
    BY <1>1 DEF OpSet
<1>3. w \in Text
    BY DEF Written
<1>4. \A j \in 1..Len(s) : (w \o s)[Len(w) + j] = s[j]
    BY <1>3, Longer
<1>5. Seg(Insert(s), x, q, q, w \o s, Len(w), Len(w) + Len(s))
    BY <1>1, <1>4 DEF Seg
<1>. QED
    BY <1>2, <1>5, Write

LEMMA WriteRetain ==
    ASSUME NEW x, NEW out, NEW w, NEW q \in Nat, Written(x, out, w, q),
           NEW s \in Text, s # <<>>, Lies(s, x, q)
    PROVE  Written(x, addOp(out, Retain(Len(s))), w \o s, q + Len(s))
<1>1. Len(s) \in Nat \ {0}
    BY LenProperties, EmptySeq DEF Text
<1>2. Retain(Len(s)) = [op |-> "retain", n |-> Len(s)]
    BY DEF Retain
<1>3. Retain(Len(s)) \in OpSet
    BY <1>1, <1>2 DEF OpSet
<1>4. w \in Text
    BY DEF Written
<1>5. \A j \in 1..Len(s) : (w \o s)[Len(w) + j] = s[j]
    BY <1>4, Longer
<1>6. \A j \in 1..Len(s) : (w \o s)[Len(w) + j] = x[q + j]
    BY <1>5 DEF Lies
<1>7. Seg(Retain(Len(s)), x, q, q + Len(s), w \o s, Len(w), Len(w) + Len(s))
    BY <1>2, <1>6 DEF Seg
<1>. QED
    BY <1>3, <1>7, Write

LEMMA WriteDelete ==
    ASSUME NEW x, NEW out, NEW w, NEW q \in Nat, Written(x, out, w, q),
           NEW n \in Nat, n > 0
    PROVE  Written(x, addOp(out, Delete(n)), w, q + n)
<1>1. Delete(n) = [op |-> "delete", n |-> n]
    BY DEF Delete
<1>2. Delete(n) \in OpSet
    BY <1>1 DEF OpSet
<1>3. w \in Text /\ Len(w) \in Nat
    BY LenProperties DEF Written, Text
<1>4. <<>> \in Text /\ Len(<<>>) = 0 /\ Len(w) + 0 = Len(w)
    BY <1>3 DEF Text
<1>5. w \o <<>> = w
    BY <1>3, ConcatEmptySeq DEF Text
<1>6. Seg(Delete(n), x, q, q + n, w, Len(w), Len(w))
    BY <1>1 DEF Seg
<1>7. Seg(Delete(n), x, q, q + n, w \o <<>>, Len(w), Len(w) + Len(<<>>))
    BY <1>4, <1>5, <1>6
<1>8. Written(x, addOp(out, Delete(n)), w \o <<>>, q + n)
    BY <1>2, <1>4, <1>7, Write
<1>. QED
    BY <1>5, <1>8

-----------------------------------------------------------------------------
(* The order of texts *)

LEMMA PrefixMeaning ==
    ASSUME NEW s \in Text, NEW r \in Text
    PROVE  IsPrefix(s, r) <=> /\ Len(s) <= Len(r)
                              /\ \A i \in 1..Len(s) : s[i] = r[i]
<1>1. Len(s) \in Nat /\ Len(r) \in Nat
    BY LenProperties DEF Text
<1>2. CASE Len(s) <= Len(r)
    <2>. DEFINE y == SubSeq(s, 1, Len(s))
                z == SubSeq(r, 1, Len(s))
    <2>1. y \in Text /\ Len(y) = Len(s) /\ \A j \in 1..Len(s) : y[j] = s[j]
        BY <1>1, Beginning
    <2>2. z \in Text /\ Len(z) = Len(s) /\ \A j \in 1..Len(s) : z[j] = r[j]
        BY <1>1, <1>2, Beginning
    <2>. HIDE DEF y, z
    <2>3. (\A i \in 1..Len(s) : s[i] = r[i]) => y = z
        BY <2>1, <2>2, SeqEqual DEF Text
    <2>4. y = z => \A i \in 1..Len(s) : s[i] = r[i]
        BY <2>1, <2>2
    <2>. QED
        BY <1>2, <2>3, <2>4 DEF IsPrefix, y, z
<1>3. CASE ~ (Len(s) <= Len(r))
    BY <1>3 DEF IsPrefix
<1>. QED
    BY <1>2, <1>3

LEMMA LexTotal ==
    ASSUME NEW s \in Text, NEW r \in Text
    PROVE  LexLeq(s, r) \/ LexLeq(r, s)
<1>. DEFINE m == Len(s)
            n == Len(r)
            Diff == {i \in 1..m : i <= n /\ s[i] # r[i]}
<1>1. /\ m \in Nat /\ n \in Nat
      /\ \A i \in 1..m : s[i] \in Nat
      /\ \A i \in 1..n : r[i] \in Nat
    BY LenProperties, ElementOfSeq DEF Text
<1>2. CASE Diff = {}
    <2>1. \A i \in 1..m : i <= n => s[i] = r[i]
        BY <1>2
    <2>2. \A i \in 1..n : i <= m => i \in 1..m
        BY <1>1
    <2>3. \A i \in 1..n : i <= m => r[i] = s[i]
        BY <1>1, <2>1, <2>2
    <2>. HIDE DEF m, n
    <2>4. CASE m <= n
        <3>1. \A i \in 1..m : s[i] = r[i]
            BY <2>1, <2>4, <1>1
        <3>. QED
            BY <3>1, <2>4, PrefixMeaning DEF LexLeq, m, n
    <2>5. CASE n <= m
        <3>1. \A i \in 1..n : r[i] = s[i]
            BY <2>3, <2>5, <1>1
        <3>. QED
            BY <3>1, <2>5, PrefixMeaning DEF LexLeq, m, n
    <2>. QED
        BY <1>1, <2>4, <2>5
<1>3. CASE Diff # {}
    <2>1. PICK i \in Diff : \A j \in Diff : i <= j
        <3>1. Diff \subseteq Nat
            BY <1>1
        <3>. HIDE DEF Diff
        <3>. QED
            BY <3>1, <1>3, LeastOf
    <2>2. i \in 1..m /\ i \in 1..n /\ i <= m /\ i <= n /\ s[i] # r[i]
        BY <1>1
    <2>3. ASSUME NEW j \in 1..(i - 1) PROVE s[j] = r[j]
        <3>1. j \in 1..m /\ j <= n /\ ~ (i <= j)
            BY <1>1, <2>2
        <3>. QED
            BY <3>1, <2>1
    <2>4. s[i] < r[i] \/ r[i] < s[i]
        BY <1>1, <2>2
    <2>. HIDE DEF Diff
    <2>. QED
        BY <2>2, <2>3, <2>4 DEF LexLeq
<1>. QED
    BY <1>2, <1>3

LEMMA LexAntisymmetric ==
    ASSUME NEW s \in Text, NEW r \in Text, LexLeq(s, r), LexLeq(r, s)
    PROVE  s = r
<1>. DEFINE m == Len(s)
            n == Len(r)
            Less(x, y, i) == /\ i \in 1..m /\ i \in 1..n /\ x[i] < y[i]
                             /\ \A j \in 1..(i - 1) : x[j] = y[j]
            Begins(x, y) == /\ Len(x) <= Len(y)
                            /\ \A i \in 1..Len(x) : x[i] = y[i]
<1>1. /\ m \in Nat /\ n \in Nat
      /\ \A i \in 1..m : s[i] \in Nat
      /\ \A i \in 1..n : r[i] \in Nat
    BY LenProperties, ElementOfSeq DEF Text
<1>2. Begins(s, r) \/ \E i : Less(s, r, i)
    <2>1. IsPrefix(s, r) => Begins(s, r)
        BY PrefixMeaning
    <2>. QED
        BY <1>1, <2>1 DEF LexLeq
<1>3. Begins(r, s) \/ \E i : Less(r, s, i)
    <2>1. IsPrefix(r, s) => Begins(r, s)
        BY PrefixMeaning
    <2>. HIDE DEF Begins
    <2>2. ASSUME NEW i \in 1..n, i <= m, r[i] < s[i],
                 \A j \in 1..(i - 1) : r[j] = s[j]
          PROVE  Less(r, s, i)
        BY <1>1, <2>2
    <2>. HIDE DEF Less
    <2>. QED
        BY <2>1, <2>2, Zenon DEF LexLeq
<1>4. CASE Begins(s, r) /\ Begins(r, s)
    <2>1. Len(s) = Len(r) /\ \A i \in 1..Len(s) : s[i] = r[i]
        BY <1>4, <1>1
    <2>. QED
        BY <2>1, SeqEqual DEF Text
<1>5. ASSUME NEW i, Less(s, r, i) \/ Less(r, s, i), Begins(s, r) \/ Begins(r, s)
      PROVE  FALSE
    <2>1. s[i] = r[i] /\ s[i] \in Nat /\ r[i] \in Nat
        BY <1>1, <1>5
    <2>. QED
        BY <1>5, <2>1
<1>6. ASSUME NEW i, NEW j, Less(s, r, i), Less(r, s, j)
      PROVE  FALSE
    <2>1. /\ s[i] \in Nat /\ r[i] \in Nat /\ s[j] \in Nat /\ r[j] \in Nat
          /\ i \in Nat /\ j \in Nat
        BY <1>1, <1>6
    <2>2. CASE i < j
        <3>1. i \in 1..(j - 1)
            BY <1>1, <1>6, <2>1, <2>2
        <3>. QED
            BY <3>1, <1>6, <2>1
    <2>3. CASE j < i
        <3>1. j \in 1..(i - 1)
            BY <1>1, <1>6, <2>1, <2>3
        <3>. QED
            BY <3>1, <1>6, <2>1
    <2>4. CASE i = j
        BY <1>6, <2>1, <2>4
    <2>. QED
        BY <2>1, <2>2, <2>3, <2>4
<1>. HIDE DEF Begins, Less
<1>. QED
    BY <1>2, <1>3, <1>4, <1>5, <1>6

-----------------------------------------------------------------------------
(* Follow: what two runs have in common *)

\* What is left of a changeset that leads from t to u.
Left(t, p, ops, u, q) ==
    ops \in Seq(OpSet) /\ Align(t, p, ops, u, q, Len(t), Len(u))

(***************************************************************************)
(* Two users edit t to x and to y; a and b are what is left of their ops,  *)
(* and out1 and out2 have brought x and y to the same text so far.         *)
(***************************************************************************)
Sync(t, x, y, a, b, out1, out2) ==
    \E p, i, j \in Nat, w \in Text :
        /\ Left(t, p, a, x, i) /\ Left(t, p, b, y, j)
        /\ Written(x, out1, w, i) /\ Written(y, out2, w, j)

LEMMA SyncSwap ==
    ASSUME NEW t, NEW x, NEW y, NEW a, NEW b, NEW out1, NEW out2,
           Sync(t, x, y, a, b, out1, out2)
    PROVE  Sync(t, y, x, b, a, out2, out1)
BY DEF Sync

LEMMA InsertFacts ==
    ASSUME NEW ops \in Seq(OpSet), IsInsert(ops)
    PROVE  /\ ops # <<>> /\ Head(ops) \in OpSet /\ Head(ops).op = "insert"
           /\ Head(ops).chars \in Text /\ Head(ops).chars # <<>>
           /\ Head(ops) = Insert(Head(ops).chars)
<1>1. ops # <<>> /\ Head(ops) \in OpSet /\ Head(ops).op = "insert"
    BY HeadTail DEF IsInsert
<1>2. Head(ops) \in [op : {"insert"}, chars : Text \ {<<>>}]
    BY <1>1 DEF OpSet
<1>. QED
    BY <1>1, <1>2 DEF Insert

\* An insert at the head of what is left: the text has it at the mark.
LEMMA LeftInsert ==
    ASSUME NEW t \in Text, NEW p \in Nat, NEW ops, NEW u \in Text, NEW q \in Nat,
           Left(t, p, ops, u, q), IsInsert(ops)
    PROVE  /\ Lies(Head(ops).chars, u, q)
           /\ q + Len(Head(ops).chars) \in Nat
           /\ Left(t, p, Tail(ops), u, q + Len(Head(ops).chars))
<1>1. /\ ops \in Seq(OpSet) /\ Len(t) \in Nat /\ Len(u) \in Nat
      /\ Align(t, p, ops, u, q, Len(t), Len(u))
    BY LenProperties DEF Left, Text
<1>2. ops # <<>> /\ Head(ops) \in OpSet /\ Head(ops).op = "insert"
    BY <1>1, InsertFacts
<1>3. PICK p2, q2 \in Nat : /\ Seg(Head(ops), t, p, p2, u, q, q2)
                            /\ Align(t, p2, Tail(ops), u, q2, Len(t), Len(u))
    BY <1>1, <1>2, AlignHead
<1>4. /\ p2 = p /\ q2 = q + Len(Head(ops).chars)
      /\ Lies(Head(ops).chars, u, q)
    BY <1>2, <1>3 DEF Seg, Lies
<1>5. Tail(ops) \in Seq(OpSet)
    BY <1>1, <1>2, HeadTail
<1>. QED
    BY <1>3, <1>4, <1>5 DEF Left

\* The first user's insert goes first.
LEMMA SyncInsert ==
    ASSUME NEW t \in Text, NEW x \in Text, NEW y \in Text,
           NEW a, NEW b, NEW out1, NEW out2,
           Sync(t, x, y, a, b, out1, out2), IsInsert(a)
    PROVE  Sync(t, x, y, Tail(a), b,
                addOp(out1, Retain(Len(Head(a).chars))), addOp(out2, Head(a)))
<1>1. PICK p, i, j \in Nat, w \in Text :
          /\ Left(t, p, a, x, i) /\ Left(t, p, b, y, j)
          /\ Written(x, out1, w, i) /\ Written(y, out2, w, j)
    BY DEF Sync
<1>. DEFINE s == Head(a).chars
<1>2. s \in Text /\ s # <<>> /\ Head(a) = Insert(s)
    BY <1>1, InsertFacts DEF Left
<1>3. Lies(s, x, i) /\ i + Len(s) \in Nat /\ Left(t, p, Tail(a), x, i + Len(s))
    BY <1>1, LeftInsert
<1>. HIDE DEF s
<1>4. Written(x, addOp(out1, Retain(Len(s))), w \o s, i + Len(s))
    BY <1>1, <1>2, <1>3, WriteRetain
<1>5. Written(y, addOp(out2, Head(a)), w \o s, j)
    BY <1>1, <1>2, WriteInsert
<1>6. w \o s \in Text
    BY <1>5 DEF Written
<1>. QED
    BY <1>1, <1>3, <1>4, <1>5, <1>6 DEF Sync, s

\* Both insert the same text: each run skips what its own text has,
LEMMA SyncSame ==
    ASSUME NEW t \in Text, NEW x \in Text, NEW y \in Text,
           NEW a, NEW b, NEW out1, NEW out2,
           Sync(t, x, y, a, b, out1, out2), IsInsert(a), IsInsert(b),
           Head(a).chars = Head(b).chars
    PROVE  Sync(t, x, y, Tail(a), Tail(b),
                addOp(out1, Retain(Len(Head(a).chars))),
                addOp(out2, Retain(Len(Head(b).chars))))
<1>1. PICK p, i, j \in Nat, w \in Text :
          /\ Left(t, p, a, x, i) /\ Left(t, p, b, y, j)
          /\ Written(x, out1, w, i) /\ Written(y, out2, w, j)
    BY DEF Sync
<1>. DEFINE s == Head(a).chars
<1>2. s \in Text /\ s # <<>> /\ s = Head(b).chars
    BY <1>1, InsertFacts DEF Left
<1>3. Lies(s, x, i) /\ i + Len(s) \in Nat /\ Left(t, p, Tail(a), x, i + Len(s))
    BY <1>1, LeftInsert
<1>4. Lies(s, y, j) /\ j + Len(s) \in Nat /\ Left(t, p, Tail(b), y, j + Len(s))
    BY <1>1, <1>2, LeftInsert
<1>. HIDE DEF s
<1>5. Written(x, addOp(out1, Retain(Len(s))), w \o s, i + Len(s))
    BY <1>1, <1>2, <1>3, WriteRetain
<1>6. Written(y, addOp(out2, Retain(Len(s))), w \o s, j + Len(s))
    BY <1>1, <1>2, <1>4, WriteRetain
<1>7. w \o s \in Text
    BY <1>5 DEF Written
<1>. QED
    BY <1>1, <1>2, <1>3, <1>4, <1>5, <1>6, <1>7 DEF Sync, s

\* and then writes what the other has.
LEMMA SyncBoth ==
    ASSUME NEW t \in Text, NEW x \in Text, NEW y \in Text,
           NEW a, NEW b, NEW out1, NEW out2,
           Sync(t, x, y, a, b, out1, out2), NEW s \in Text, s # <<>>
    PROVE  Sync(t, x, y, a, b, addOp(out1, Insert(s)), addOp(out2, Insert(s)))
<1>1. PICK p, i, j \in Nat, w \in Text :
          /\ Left(t, p, a, x, i) /\ Left(t, p, b, y, j)
          /\ Written(x, out1, w, i) /\ Written(y, out2, w, j)
    BY DEF Sync
<1>2. Written(x, addOp(out1, Insert(s)), w \o s, i)
    BY <1>1, WriteInsert
<1>3. Written(y, addOp(out2, Insert(s)), w \o s, j)
    BY <1>1, WriteInsert
<1>4. w \o s \in Text
    BY <1>2 DEF Written
<1>. QED
    BY <1>1, <1>2, <1>3, <1>4 DEF Sync

\* A part of a retain or a delete at the head of what is left.
LEMMA LeftConsume ==
    ASSUME NEW t \in Text, NEW p \in Nat, NEW ops, NEW u \in Text, NEW q \in Nat,
           Left(t, p, ops, u, q), ops # <<>>, Head(ops).op # "insert",
           NEW n \in Nat, 0 < n, n <= Head(ops).n
    PROVE  /\ p + n \in Nat /\ p + n <= Len(t)
           /\ Head(ops).op = "retain" =>
                  /\ \A j \in 1..n : u[q + j] = t[p + j]
                  /\ q + n \in Nat
                  /\ Left(t, p + n, consume(ops, n), u, q + n)
           /\ Head(ops).op = "delete" => Left(t, p + n, consume(ops, n), u, q)
           /\ Len(consume(ops, n)) <= Len(ops)
           /\ Normal(ops) => Normal(consume(ops, n))
<1>. DEFINE o == Head(ops)
            p2 == OldMark(o, p, n)
            q2 == NewMark(o, q, n)
            rest == consume(ops, n)
<1>1. /\ ops \in Seq(OpSet) /\ Len(t) \in Nat /\ Len(u) \in Nat
      /\ Align(t, p, ops, u, q, Len(t), Len(u)) /\ o.op # "insert"
    BY LenProperties DEF Left, Text
<1>2. Size(o) = o.n /\ n <= Size(o)
    BY <1>1 DEF Size
<1>3. /\ p2 \in Nat /\ q2 \in Nat /\ Part(o, n).op = o.op
      /\ Seg(Part(o, n), t, p, p2, u, q, q2)
      /\ Align(t, p2, rest, u, q2, Len(t), Len(u)) /\ rest \in Seq(OpSet)
      /\ Len(rest) <= Len(ops) /\ (n = Size(o) => Len(rest) = Len(ops) - 1)
      /\ Normal(ops) /\ o.op # "insert" => Normal(rest)
    BY <1>1, <1>2, AlignConsume
<1>4. p2 = p + n /\ (o.op = "retain" => q2 = q + n) /\ (o.op = "delete" => q2 = q)
    BY <1>1 DEF OldMark, NewMark
<1>5. p2 <= Len(t)
    BY <1>1, <1>3, AlignBounds
<1>6. o.op = "retain" => \A j \in 1..n : u[q + j] = t[p + j]
    <2>1. o.op = "retain" => Part(o, n).n = n
        BY <1>1 DEF Part
    <2>. HIDE DEF o
    <2>. QED
        BY <1>3, <2>1 DEF Seg
<1>. HIDE DEF o, p2, q2, rest
<1>7. Left(t, p2, rest, u, q2)
    BY <1>3 DEF Left
<1>8. p + n \in Nat /\ p + n <= Len(t)
    BY <1>3, <1>4, <1>5
<1>9. o.op = "retain" => q + n \in Nat /\ Left(t, p + n, rest, u, q + n)
    BY <1>3, <1>4, <1>7
<1>10. o.op = "delete" => Left(t, p + n, rest, u, q)
    BY <1>4, <1>7
<1>. QED
    BY <1>1, <1>2, <1>3, <1>6, <1>8, <1>9, <1>10 DEF o, rest

\* Neither inserts: n characters of t, which each user keeps or deletes.
LEMMA SyncOverlap ==
    ASSUME NEW t \in Text, NEW x \in Text, NEW y \in Text,
           NEW a, NEW b, NEW out1, NEW out2,
           Sync(t, x, y, a, b, out1, out2), a # <<>>, b # <<>>,
           Head(a).op # "insert", Head(b).op # "insert",
           NEW n \in Nat, 0 < n, n <= Head(a).n, n <= Head(b).n
    PROVE  Sync(t, x, y, consume(a, n), consume(b, n),
                addOps(out1, Rebased(Head(a), Head(b), n)),
                addOps(out2, Rebased(Head(b), Head(a), n)))
<1>1. PICK p, i, j \in Nat, w \in Text :
          /\ Left(t, p, a, x, i) /\ Left(t, p, b, y, j)
          /\ Written(x, out1, w, i) /\ Written(y, out2, w, j)
    BY DEF Sync
<1>. DEFINE oa == Head(a)
            ob == Head(b)
            a2 == consume(a, n)
            b2 == consume(b, n)
            new1 == addOps(out1, Rebased(oa, ob, n))
            new2 == addOps(out2, Rebased(ob, oa, n))
            s == SubSeq(t, p + 1, p + n)
<1>2. oa.op \in {"retain", "delete"} /\ ob.op \in {"retain", "delete"}
    <2>1. oa \in OpSet /\ ob \in OpSet
        BY <1>1, HeadTail DEF Left
    <2>. QED
        BY <2>1, OpFacts
<1>3. /\ p + n \in Nat /\ p + n <= Len(t)
      /\ oa.op = "retain" => /\ \A k \in 1..n : x[i + k] = t[p + k]
                             /\ i + n \in Nat /\ Left(t, p + n, a2, x, i + n)
      /\ oa.op = "delete" => Left(t, p + n, a2, x, i)
    BY <1>1, LeftConsume
<1>4. /\ ob.op = "retain" => /\ \A k \in 1..n : y[j + k] = t[p + k]
                             /\ j + n \in Nat /\ Left(t, p + n, b2, y, j + n)
      /\ ob.op = "delete" => Left(t, p + n, b2, y, j)
    BY <1>1, LeftConsume
<1>5. s \in Text /\ Len(s) = n /\ s # <<>> /\ \A k \in 1..n : s[k] = t[p + k]
    <2>1. p <= p + n /\ (p + n) - p = n
        OBVIOUS
    <2>2. s \in Text /\ Len(s) = (p + n) - p
          /\ \A k \in 1..((p + n) - p) : s[k] = t[p + k]
        BY <1>3, <2>1, Piece
    <2>. HIDE DEF s
    <2>3. s # <<>>
        <3>1. Len(s) = n
            BY <2>1, <2>2
        <3>. QED
            BY <3>1, EmptySeq
    <2>. QED
        BY <2>1, <2>2, <2>3
<1>6. /\ Rebased(oa, ob, n) = IF oa.op = "retain" THEN <<[op |-> ob.op, n |-> n]>>
                              ELSE <<>>
      /\ Rebased(ob, oa, n) = IF ob.op = "retain" THEN <<[op |-> oa.op, n |-> n]>>
                              ELSE <<>>
    BY DEF Rebased
<1>. HIDE DEF oa, ob, a2, b2, s
<1>7. CASE oa.op = "retain" /\ ob.op = "retain"
    <2>1. new1 = addOp(out1, Retain(Len(s))) /\ new2 = addOp(out2, Retain(Len(s)))
        BY <1>5, <1>6, <1>7 DEF addOps, Retain
    <2>2. Lies(s, x, i) /\ Lies(s, y, j)
        BY <1>3, <1>4, <1>5, <1>7 DEF Lies
    <2>. HIDE DEF new1, new2
    <2>3. Written(x, new1, w \o s, i + n)
        BY <1>1, <1>5, <2>1, <2>2, WriteRetain
    <2>4. Written(y, new2, w \o s, j + n)
        BY <1>1, <1>5, <2>1, <2>2, WriteRetain
    <2>5. w \o s \in Text
        BY <2>3 DEF Written
    <2>6. Sync(t, x, y, a2, b2, new1, new2)
        BY <1>3, <1>4, <1>7, <2>3, <2>4, <2>5 DEF Sync
    <2>. QED
        BY <2>6 DEF a2, b2, new1, new2, oa, ob
<1>8. CASE oa.op = "retain" /\ ob.op = "delete"
    <2>1. new1 = addOp(out1, Delete(n)) /\ new2 = out2
        BY <1>6, <1>8 DEF addOps, Delete
    <2>. HIDE DEF new1, new2
    <2>2. Written(x, new1, w, i + n) /\ Written(y, new2, w, j)
        BY <1>1, <2>1, WriteDelete
    <2>3. Sync(t, x, y, a2, b2, new1, new2)
        BY <1>1, <1>3, <1>4, <1>8, <2>2 DEF Sync
    <2>. QED
        BY <2>3 DEF a2, b2, new1, new2, oa, ob
<1>9. CASE oa.op = "delete" /\ ob.op = "retain"
    <2>1. new2 = addOp(out2, Delete(n)) /\ new1 = out1
        BY <1>6, <1>9 DEF addOps, Delete
    <2>. HIDE DEF new1, new2
    <2>2. Written(x, new1, w, i) /\ Written(y, new2, w, j + n)
        BY <1>1, <2>1, WriteDelete
    <2>3. Sync(t, x, y, a2, b2, new1, new2)
        BY <1>1, <1>3, <1>4, <1>9, <2>2 DEF Sync
    <2>. QED
        BY <2>3 DEF a2, b2, new1, new2, oa, ob
<1>10. CASE oa.op = "delete" /\ ob.op = "delete"
    <2>1. new1 = out1 /\ new2 = out2
        BY <1>6, <1>10 DEF addOps
    <2>. HIDE DEF new1, new2
    <2>2. Written(x, new1, w, i) /\ Written(y, new2, w, j)
        BY <1>1, <2>1
    <2>3. Sync(t, x, y, a2, b2, new1, new2)
        BY <1>1, <1>3, <1>4, <1>10, <2>2 DEF Sync
    <2>. QED
        BY <2>3 DEF a2, b2, new1, new2, oa, ob
<1>. QED
    BY <1>2, <1>7, <1>8, <1>9, <1>10

\* The loop ends for both at once, and at the ends of the texts.
LEMMA SyncEnd ==
    ASSUME NEW t \in Text, NEW x \in Text, NEW y \in Text,
           NEW a, NEW b, NEW out1, NEW out2,
           Sync(t, x, y, a, b, out1, out2), a = <<>>, ~ IsInsert(b)
    PROVE  /\ b = <<>>
           /\ \E w \in Text : /\ Written(x, out1, w, Len(x))
                              /\ Written(y, out2, w, Len(y))
<1>1. PICK p, i, j \in Nat, w \in Text :
          /\ Left(t, p, a, x, i) /\ Left(t, p, b, y, j)
          /\ Written(x, out1, w, i) /\ Written(y, out2, w, j)
    BY DEF Sync
<1>2. Len(t) \in Nat /\ Len(x) \in Nat /\ Len(y) \in Nat
    BY LenProperties DEF Text
<1>3. Len(t) = p /\ Len(x) = i
    BY <1>1, <1>2, AlignEmptyOnly DEF Left
<1>4. ASSUME b # <<>> PROVE FALSE
    <2>1. /\ b \in Seq(OpSet) /\ Head(b) \in OpSet /\ Head(b).op # "insert"
          /\ Align(t, p, b, y, j, Len(t), Len(y))
        BY <1>1, <1>4, HeadTail DEF Left, IsInsert
    <2>2. PICK p2, j2 \in Nat : Seg(Head(b), t, p, p2, y, j, j2) /\ p2 <= Len(t)
        BY <1>2, <1>4, <2>1, AlignHead
    <2>3. p2 = p + Head(b).n /\ Head(b).n \in Nat /\ Head(b).n > 0
        BY <2>1, <2>2, OpFacts DEF Seg
    <2>. QED
        BY <1>3, <2>2, <2>3
<1>5. Len(y) = j
    BY <1>1, <1>2, <1>4, AlignEmptyOnly DEF Left
<1>. QED
    BY <1>1, <1>3, <1>4, <1>5

-----------------------------------------------------------------------------
(* Follow: the loop *)

LEMMA FollowRounds ==
    ASSUME NEW s
    PROVE  LET aFirst == IsInsert(s.a) /\ (IsInsert(s.b) =>
                             LexLeq(Head(s.a).chars, Head(s.b).chars))
               n == IF Head(s.a).n < Head(s.b).n THEN Head(s.a).n ELSE Head(s.b).n
           IN  /\ aFirst =>
                      FollowRound(s) =
                          [a |-> Tail(s.a), b |-> s.b,
                           out |-> addOp(s.out, Retain(Len(Head(s.a).chars)))]
               /\ IsInsert(s.b) /\ ~ aFirst =>
                      FollowRound(s) =
                          [a |-> s.a, b |-> Tail(s.b),
                           out |-> addOp(s.out, Head(s.b))]
               /\ ~ IsInsert(s.a) /\ ~ IsInsert(s.b)
                      /\ (s.a = <<>> \/ s.b = <<>>) => FollowRound(s) = s
               /\ ~ IsInsert(s.a) /\ ~ IsInsert(s.b) /\ s.a # <<>> /\ s.b # <<>> =>
                      FollowRound(s) =
                          [a |-> consume(s.a, n), b |-> consume(s.b, n),
                           out |-> addOps(s.out, Rebased(Head(s.a), Head(s.b), n))]
<1>. DEFINE aFirst == IsInsert(s.a) /\ (IsInsert(s.b) =>
                          LexLeq(Head(s.a).chars, Head(s.b).chars))
<1>1. CASE aFirst
    BY <1>1 DEF FollowRound, InsertsFirst
<1>2. CASE ~ aFirst /\ IsInsert(s.b)
    BY <1>2 DEF FollowRound, InsertsFirst
<1>3. CASE ~ IsInsert(s.a) /\ ~ IsInsert(s.b) /\ (s.a = <<>> \/ s.b = <<>>)
    BY <1>3 DEF FollowRound
<1>4. CASE ~ IsInsert(s.a) /\ ~ IsInsert(s.b) /\ s.a # <<>> /\ s.b # <<>>
    BY <1>4 DEF FollowRound
<1>. QED
    BY <1>1, <1>2, <1>3, <1>4

(***************************************************************************)
(* The states of Follow(A, B) and Follow(B, A) after the same number of    *)
(* rounds.  They have the same ops left, except in the middle of a tie:    *)
(* when both users insert the same text, each run first skips its own and  *)
(* then has the other's before it.                                         *)
(***************************************************************************)
Tied(s1, s2) ==
    /\ ~ IsInsert(s1.a) /\ ~ IsInsert(s2.a)
    /\ \E s \in Text \ {<<>>} : /\ s1.b = <<Insert(s)>> \o s2.a
                                /\ s2.b = <<Insert(s)>> \o s1.a

Lockstep(t, x, y, s1, s2) ==
    /\ Normal(s1.a) /\ Normal(s2.a)
    /\ Sync(t, x, y, s1.a, s2.a, s1.out, s2.out)
    /\ \/ s1.b = s2.a /\ s2.b = s1.a
       \/ Tied(s1, s2)

LEMMA SyncSeq ==
    ASSUME NEW t, NEW x, NEW y, NEW a, NEW b, NEW out1, NEW out2,
           Sync(t, x, y, a, b, out1, out2)
    PROVE  a \in Seq(OpSet) /\ b \in Seq(OpSet) /\ Len(a) \in Nat /\ Len(b) \in Nat
<1>1. a \in Seq(OpSet) /\ b \in Seq(OpSet)
    BY DEF Sync, Left
<1>. QED
    BY <1>1, LenProperties

\* An op in front, taken off again.
LEMMA InFrontOff ==
    ASSUME NEW ops \in Seq(OpSet), NEW o \in OpSet
    PROVE  /\ <<o>> \o ops # <<>> /\ Head(<<o>> \o ops) = o
           /\ Tail(<<o>> \o ops) = ops
<1>. DEFINE z == <<o>> \o ops
<1>1. /\ z \in Seq(OpSet) /\ Len(z) = Len(ops) + 1 /\ z[1] = o /\ Len(ops) \in Nat
      /\ \A i \in 1..Len(ops) : z[i + 1] = ops[i]
    BY InFront, LenProperties
<1>. HIDE DEF z
<1>2. z # <<>>
    BY <1>1, EmptySeq
<1>3. /\ Head(z) = z[1] /\ Tail(z) \in Seq(OpSet) /\ Len(Tail(z)) = Len(z) - 1
      /\ \A i \in 1..Len(Tail(z)) : Tail(z)[i] = z[i + 1]
    BY <1>1, <1>2, HeadTail
<1>4. Len(Tail(z)) = Len(ops) /\ \A i \in 1..Len(Tail(z)) : Tail(z)[i] = ops[i]
    BY <1>1, <1>3
<1>5. Tail(z) = ops
    BY <1>3, <1>4, SeqEqual
<1>. QED
    BY <1>1, <1>2, <1>3, <1>5 DEF z

LEMMA InsertOp ==
    ASSUME NEW s \in Text \ {<<>>}
    PROVE  Insert(s) \in OpSet /\ Insert(s).op = "insert" /\ Insert(s).chars = s
BY DEF OpSet, Insert

\* The second half of a tie.
LEMMA LockstepTied ==
    ASSUME NEW t \in Text, NEW x \in Text, NEW y \in Text, NEW s1, NEW s2,
           Lockstep(t, x, y, s1, s2), Tied(s1, s2)
    PROVE  /\ Lockstep(t, x, y, FollowRound(s1), FollowRound(s2))
           /\ Len(FollowRound(s1).a) + Len(FollowRound(s1).b) + 1
                  <= Len(s1.a) + Len(s1.b)
<1>1. PICK s \in Text \ {<<>>} : /\ s1.b = <<Insert(s)>> \o s2.a
                                 /\ s2.b = <<Insert(s)>> \o s1.a
    BY DEF Tied
<1>2. /\ s1.a \in Seq(OpSet) /\ s2.a \in Seq(OpSet)
      /\ Len(s1.a) \in Nat /\ Len(s2.a) \in Nat
      /\ Sync(t, x, y, s1.a, s2.a, s1.out, s2.out)
    BY SyncSeq DEF Lockstep
<1>3. Insert(s) \in OpSet /\ Insert(s).op = "insert"
    BY InsertOp
<1>4. /\ s1.b # <<>> /\ Head(s1.b) = Insert(s) /\ Tail(s1.b) = s2.a
      /\ s2.b # <<>> /\ Head(s2.b) = Insert(s) /\ Tail(s2.b) = s1.a
      /\ Len(s1.b) = Len(s2.a) + 1
    <2>1. /\ s1.b # <<>> /\ Head(s1.b) = Insert(s) /\ Tail(s1.b) = s2.a
        BY <1>1, <1>2, <1>3, InFrontOff, Zenon
    <2>2. s2.b # <<>> /\ Head(s2.b) = Insert(s) /\ Tail(s2.b) = s1.a
        BY <1>1, <1>2, <1>3, InFrontOff, Zenon
    <2>3. Len(<<Insert(s)>> \o s2.a) = Len(s2.a) + 1
        BY <1>2, <1>3, InFront, Zenon
    <2>4. Len(s1.b) = Len(s2.a) + 1
        BY <1>1, <2>3, Zenon
    <2>. QED
        BY <2>1, <2>2, <2>4, Zenon
<1>5. ~ IsInsert(s1.a) /\ ~ IsInsert(s2.a) /\ IsInsert(s1.b) /\ IsInsert(s2.b)
    BY <1>3, <1>4 DEF Tied, IsInsert
<1>6. FollowRound(s1) = [a |-> s1.a, b |-> s2.a, out |-> addOp(s1.out, Insert(s))]
    BY <1>4, <1>5, FollowRounds
<1>7. FollowRound(s2) = [a |-> s2.a, b |-> s1.a, out |-> addOp(s2.out, Insert(s))]
    BY <1>4, <1>5, FollowRounds
<1>8. Sync(t, x, y, s1.a, s2.a, addOp(s1.out, Insert(s)), addOp(s2.out, Insert(s)))
    BY <1>2, SyncBoth
<1>9. Lockstep(t, x, y, FollowRound(s1), FollowRound(s2))
    BY <1>6, <1>7, <1>8 DEF Lockstep
<1>10. FollowRound(s1).a = s1.a /\ FollowRound(s1).b = s2.a
    BY <1>6
<1>11. Len(s1.a) + Len(s2.a) + 1 <= Len(s1.a) + Len(s1.b)
    <2>1. ASSUME NEW k \in Nat, NEW l \in Nat PROVE k + l + 1 <= k + (l + 1)
        OBVIOUS
    <2>. QED
        BY <1>2, <1>4, <2>1
<1>. QED
    BY <1>9, <1>10, <1>11

\* A tie: both insert the same text.
LEMMA LockstepTie ==
    ASSUME NEW t \in Text, NEW x \in Text, NEW y \in Text, NEW s1, NEW s2,
           Lockstep(t, x, y, s1, s2), s1.b = s2.a, s2.b = s1.a,
           IsInsert(s1.a), IsInsert(s2.a),
           Head(s1.a).chars = Head(s2.a).chars
    PROVE  /\ Lockstep(t, x, y, FollowRound(s1), FollowRound(s2))
           /\ Len(FollowRound(s1).a) + Len(FollowRound(s1).b) + 1
                  <= Len(s1.a) + Len(s1.b)
<1>. DEFINE a == s1.a
            b == s2.a
            s == Head(a).chars
            r1 == FollowRound(s1)
            r2 == FollowRound(s2)
<1>1. /\ a \in Seq(OpSet) /\ b \in Seq(OpSet) /\ Len(a) \in Nat /\ Len(b) \in Nat
      /\ Normal(a) /\ Normal(b) /\ Sync(t, x, y, a, b, s1.out, s2.out)
    BY SyncSeq DEF Lockstep
<1>2. /\ a # <<>> /\ Head(a) = Insert(s) /\ s \in Text \ {<<>>}
      /\ b # <<>> /\ Head(b) = Insert(s) /\ s = Head(b).chars
    BY <1>1, InsertFacts
<1>3. LexLeq(s, s)
    BY <1>2, LexTotal
<1>4. r1 = [a |-> Tail(a), b |-> b, out |-> addOp(s1.out, Retain(Len(s)))]
    BY <1>2, <1>3, FollowRounds
<1>5. r2 = [a |-> Tail(b), b |-> a, out |-> addOp(s2.out, Retain(Len(s)))]
    BY <1>2, <1>3, FollowRounds
<1>6. Sync(t, x, y, Tail(a), Tail(b), addOp(s1.out, Retain(Len(s))),
           addOp(s2.out, Retain(Len(s))))
    BY <1>1, <1>2, SyncSame
<1>7. /\ Normal(Tail(a)) /\ ~ IsInsert(Tail(a)) /\ Tail(a) \in Seq(OpSet)
      /\ Normal(Tail(b)) /\ ~ IsInsert(Tail(b)) /\ Tail(b) \in Seq(OpSet)
      /\ Len(Tail(a)) = Len(a) - 1
    BY <1>1, <1>2, NormalTail, HeadTail
<1>8. a = <<Insert(s)>> \o Tail(a) /\ b = <<Insert(s)>> \o Tail(b)
    <2>1. ASSUME NEW ops \in Seq(OpSet), ops # <<>>
          PROVE  ops = <<Head(ops)>> \o Tail(ops)
        <3>. DEFINE z == <<Head(ops)>> \o Tail(ops)
                    m == Len(ops)
        <3>1. /\ Head(ops) \in OpSet /\ Tail(ops) \in Seq(OpSet) /\ m \in Nat /\ m > 0
              /\ Len(Tail(ops)) = m - 1 /\ Head(ops) = ops[1]
              /\ \A i \in 1..Len(Tail(ops)) : Tail(ops)[i] = ops[i + 1]
            BY <2>1, HeadTail
        <3>2. /\ z \in Seq(OpSet) /\ Len(z) = Len(Tail(ops)) + 1 /\ z[1] = Head(ops)
              /\ \A i \in 1..Len(Tail(ops)) : z[i + 1] = Tail(ops)[i]
            BY <3>1, InFront
        <3>. HIDE DEF z, m
        <3>3. ASSUME NEW i \in 1..m PROVE z[i] = ops[i]
            <4>1. CASE i = 1
                BY <4>1, <3>1, <3>2
            <4>2. CASE i # 1
                <5>1. i - 1 \in 1..Len(Tail(ops)) /\ (i - 1) + 1 = i
                    BY <4>2, <3>1
                <5>2. /\ z[(i - 1) + 1] = Tail(ops)[i - 1]
                      /\ Tail(ops)[i - 1] = ops[(i - 1) + 1]
                    BY <5>1, <3>1, <3>2
                <5>. QED
                    BY <5>1, <5>2
            <4>. QED
                BY <4>1, <4>2
        <3>4. Len(z) = m
            BY <3>1, <3>2
        <3>5. z = ops
            BY <3>2, <3>3, <3>4, SeqEqual DEF m
        <3>. QED
            BY <3>5 DEF z
    <2>. QED
        BY <1>1, <1>2, <2>1
<1>. HIDE DEF a, b, s, r1, r2
<1>9. r1.a = Tail(a) /\ r2.a = Tail(b) /\ r1.b = b /\ r2.b = a
    BY <1>4, <1>5
<1>10. Tied(r1, r2)
    BY <1>2, <1>7, <1>8, <1>9 DEF Tied
<1>11. Sync(t, x, y, r1.a, r2.a, r1.out, r2.out)
    BY <1>4, <1>5, <1>6
<1>12. Lockstep(t, x, y, r1, r2)
    BY <1>7, <1>9, <1>10, <1>11 DEF Lockstep
<1>13. Len(r1.a) + Len(r1.b) + 1 <= Len(a) + Len(b)
    BY <1>1, <1>7, <1>9
<1>. QED
    BY <1>12, <1>13 DEF a, b, r1, r2

\* One user's insert goes first in both runs.
LEMMA LockstepInsert ==
    ASSUME NEW t \in Text, NEW x \in Text, NEW y \in Text, NEW s1, NEW s2,
           Lockstep(t, x, y, s1, s2), s1.b = s2.a, s2.b = s1.a,
           IsInsert(s1.a),
           IsInsert(s2.a) => ~ LexLeq(Head(s2.a).chars, Head(s1.a).chars)
    PROVE  /\ Lockstep(t, x, y, FollowRound(s1), FollowRound(s2))
           /\ Lockstep(t, y, x, FollowRound(s2), FollowRound(s1))
           /\ Len(FollowRound(s1).a) + Len(FollowRound(s1).b) + 1
                  <= Len(s1.a) + Len(s1.b)
           /\ Len(FollowRound(s2).a) + Len(FollowRound(s2).b) + 1
                  <= Len(s2.a) + Len(s2.b)
<1>. DEFINE a == s1.a
            b == s2.a
            s == Head(a).chars
            r1 == FollowRound(s1)
            r2 == FollowRound(s2)
<1>1. /\ a \in Seq(OpSet) /\ b \in Seq(OpSet) /\ Len(a) \in Nat /\ Len(b) \in Nat
      /\ Normal(a) /\ Normal(b) /\ Sync(t, x, y, a, b, s1.out, s2.out)
    BY SyncSeq DEF Lockstep
<1>2. /\ a # <<>> /\ s \in Text
      /\ IsInsert(b) => Head(b).chars \in Text
    BY <1>1, InsertFacts
<1>3. IsInsert(b) => LexLeq(s, Head(b).chars)
    BY <1>2, LexTotal
<1>4. r1 = [a |-> Tail(a), b |-> b, out |-> addOp(s1.out, Retain(Len(s)))]
    BY <1>3, FollowRounds
<1>5. r2 = [a |-> b, b |-> Tail(a), out |-> addOp(s2.out, Head(a))]
    BY FollowRounds
<1>6. Sync(t, x, y, Tail(a), b, addOp(s1.out, Retain(Len(s))),
           addOp(s2.out, Head(a)))
    BY <1>1, SyncInsert
<1>7. Normal(Tail(a)) /\ Len(Tail(a)) = Len(a) - 1
    BY <1>1, <1>2, NormalTail, HeadTail
<1>. HIDE DEF a, b, s, r1, r2
<1>8. r1.a = Tail(a) /\ r2.a = b /\ r1.b = b /\ r2.b = Tail(a)
    BY <1>4, <1>5
<1>9. Sync(t, x, y, r1.a, r2.a, r1.out, r2.out)
    BY <1>4, <1>5, <1>6
<1>10. Lockstep(t, x, y, r1, r2)
    BY <1>1, <1>7, <1>8, <1>9 DEF Lockstep
<1>11. Lockstep(t, y, x, r2, r1)
    BY <1>1, <1>7, <1>8, <1>9, SyncSwap DEF Lockstep
<1>12. Len(r1.a) + Len(r1.b) + 1 <= Len(a) + Len(b)
       /\ Len(r2.a) + Len(r2.b) + 1 <= Len(b) + Len(a)
    <2>1. ASSUME NEW k \in Nat, NEW l \in Nat
          PROVE  (k - 1) + l + 1 <= k + l /\ l + (k - 1) + 1 <= l + k
        OBVIOUS
    <2>. QED
        BY <1>1, <1>7, <1>8, <2>1
<1>. QED
    BY <1>10, <1>11, <1>12 DEF a, b, r1, r2

\* Characters of the common text.
LEMMA LockstepOverlap ==
    ASSUME NEW t \in Text, NEW x \in Text, NEW y \in Text, NEW s1, NEW s2,
           Lockstep(t, x, y, s1, s2), s1.b = s2.a, s2.b = s1.a,
           ~ IsInsert(s1.a), ~ IsInsert(s2.a), s1.a # <<>>, s2.a # <<>>
    PROVE  /\ Lockstep(t, x, y, FollowRound(s1), FollowRound(s2))
           /\ Len(FollowRound(s1).a) + Len(FollowRound(s1).b) + 1
                  <= Len(s1.a) + Len(s1.b)
<1>. DEFINE a == s1.a
            b == s2.a
            n == IF Head(a).n < Head(b).n THEN Head(a).n ELSE Head(b).n
            m == IF Head(b).n < Head(a).n THEN Head(b).n ELSE Head(a).n
            r1 == FollowRound(s1)
            r2 == FollowRound(s2)
<1>1. /\ a \in Seq(OpSet) /\ b \in Seq(OpSet) /\ Len(a) \in Nat /\ Len(b) \in Nat
      /\ Normal(a) /\ Normal(b) /\ Sync(t, x, y, a, b, s1.out, s2.out)
    BY SyncSeq DEF Lockstep
<1>2. /\ Head(a).op # "insert" /\ Head(a).n \in Nat /\ Head(a).n > 0
      /\ Head(b).op # "insert" /\ Head(b).n \in Nat /\ Head(b).n > 0
    <2>1. Head(a) \in OpSet /\ Head(b) \in OpSet
        BY <1>1, HeadTail
    <2>2. Head(a).op # "insert" /\ Head(b).op # "insert"
        BY DEF IsInsert
    <2>. QED
        BY <2>1, <2>2, OpFacts
<1>3. /\ m = n /\ n \in Nat /\ 0 < n /\ n <= Head(a).n /\ n <= Head(b).n
      /\ n = Head(a).n \/ n = Head(b).n
    BY <1>2
<1>4. r1 = [a |-> consume(a, n), b |-> consume(b, n),
            out |-> addOps(s1.out, Rebased(Head(a), Head(b), n))]
    BY FollowRounds
<1>5. r2 = [a |-> consume(b, m), b |-> consume(a, m),
            out |-> addOps(s2.out, Rebased(Head(b), Head(a), m))]
    BY FollowRounds
<1>. HIDE DEF a, b, n, m, r1, r2
<1>6. a # <<>> /\ b # <<>>
    BY DEF a, b
<1>7. Sync(t, x, y, consume(a, n), consume(b, n),
           addOps(s1.out, Rebased(Head(a), Head(b), n)),
           addOps(s2.out, Rebased(Head(b), Head(a), n)))
    BY <1>1, <1>2, <1>3, <1>6, SyncOverlap
<1>8. PICK p, i, j \in Nat : Left(t, p, a, x, i) /\ Left(t, p, b, y, j)
    BY <1>1 DEF Sync
<1>9. ASSUME NEW k \in Nat, 0 < k, k <= Head(a).n, k <= Head(b).n
      PROVE  /\ Len(consume(a, k)) <= Len(a)
             /\ k = Head(a).n => Len(consume(a, k)) = Len(a) - 1
             /\ Normal(a) => Normal(consume(a, k))
             /\ Len(consume(b, k)) <= Len(b)
             /\ k = Head(b).n => Len(consume(b, k)) = Len(b) - 1
             /\ Normal(b) => Normal(consume(b, k))
    <2>1. /\ Len(consume(a, k)) <= Len(a)
          /\ k = Head(a).n => Len(consume(a, k)) = Len(a) - 1
          /\ Normal(a) => Normal(consume(a, k))
        <3>1. k = Head(a).n => Len(consume(a, k)) = Len(a) - 1
            BY <1>1, <1>2, <1>6, HeadTail DEF consume
        <3>. QED
            BY <1>2, <1>6, <1>8, <1>9, <3>1, LeftConsume
    <2>2. /\ Len(consume(b, k)) <= Len(b)
          /\ k = Head(b).n => Len(consume(b, k)) = Len(b) - 1
          /\ Normal(b) => Normal(consume(b, k))
        <3>1. k = Head(b).n => Len(consume(b, k)) = Len(b) - 1
            BY <1>1, <1>2, <1>6, HeadTail DEF consume
        <3>. QED
            BY <1>2, <1>6, <1>8, <1>9, <3>1, LeftConsume
    <2>. QED
        BY <2>1, <2>2
<1>10. /\ Normal(consume(a, n)) /\ Len(consume(a, n)) <= Len(a)
       /\ n = Head(a).n => Len(consume(a, n)) = Len(a) - 1
       /\ Normal(consume(b, n)) /\ Len(consume(b, n)) <= Len(b)
       /\ n = Head(b).n => Len(consume(b, n)) = Len(b) - 1
    BY <1>1, <1>3, <1>9, Zenon
<1>11. /\ r1.a = consume(a, n) /\ r2.a = consume(b, n)
       /\ r1.b = consume(b, n) /\ r2.b = consume(a, n)
       /\ r1.out = addOps(s1.out, Rebased(Head(a), Head(b), n))
       /\ r2.out = addOps(s2.out, Rebased(Head(b), Head(a), n))
    BY <1>3, <1>4, <1>5
<1>12. Lockstep(t, x, y, r1, r2)
    BY <1>7, <1>10, <1>11 DEF Lockstep
<1>13. Len(r1.a) + Len(r1.b) + 1 <= Len(a) + Len(b)
    <2>1. Len(consume(a, n)) \in Nat /\ Len(consume(b, n)) \in Nat
        BY <1>7, SyncSeq
    <2>2. ASSUME NEW c \in Nat, NEW d \in Nat, NEW e \in Nat, NEW f \in Nat,
                 c <= e, d <= f, c = e - 1 \/ d = f - 1
          PROVE  c + d + 1 <= e + f
        BY <2>2
    <2>. QED
        BY <1>1, <1>3, <1>10, <1>11, <2>1, <2>2
<1>. QED
    BY <1>12, <1>13 DEF a, b, r1, r2

\* Every round keeps the runs in step and ends an op, until none is left.
LEMMA LockstepRound ==
    ASSUME NEW t \in Text, NEW x \in Text, NEW y \in Text, NEW s1, NEW s2,
           Lockstep(t, x, y, s1, s2)
    PROVE  LET r1 == FollowRound(s1)
               r2 == FollowRound(s2)
           IN  /\ Lockstep(t, x, y, r1, r2)
               /\ \/ Len(r1.a) + Len(r1.b) + 1 <= Len(s1.a) + Len(s1.b)
                  \/ r1 = s1 /\ s1.a = <<>> /\ s1.b = <<>>
<1>1. CASE Tied(s1, s2)
    BY <1>1, LockstepTied
<1>2. CASE ~ Tied(s1, s2)
    <2>1. /\ s1.b = s2.a /\ s2.b = s1.a
          /\ Sync(t, x, y, s1.a, s2.a, s1.out, s2.out)
          /\ s1.a \in Seq(OpSet) /\ s2.a \in Seq(OpSet)
        BY <1>2, SyncSeq DEF Lockstep
    <2>2. CASE IsInsert(s1.a) /\ IsInsert(s2.a)
        <3>1. Head(s1.a).chars \in Text /\ Head(s2.a).chars \in Text
            BY <2>1, <2>2, InsertFacts
        <3>2. CASE Head(s1.a).chars = Head(s2.a).chars
            BY <2>1, <2>2, <3>2, LockstepTie
        <3>3. CASE ~ LexLeq(Head(s2.a).chars, Head(s1.a).chars)
            BY <2>1, <2>2, <3>3, LockstepInsert
        <3>4. CASE ~ LexLeq(Head(s1.a).chars, Head(s2.a).chars)
            <4>1. Lockstep(t, y, x, s2, s1)
                BY <2>1, SyncSwap DEF Lockstep
            <4>2. /\ Lockstep(t, x, y, FollowRound(s1), FollowRound(s2))
                  /\ Len(FollowRound(s1).a) + Len(FollowRound(s1).b) + 1
                         <= Len(s1.a) + Len(s1.b)
                BY <2>1, <2>2, <3>4, <4>1, LockstepInsert
            <4>. QED
                BY <4>2
        <3>. QED
            BY <3>1, <3>2, <3>3, <3>4, LexAntisymmetric
    <2>3. CASE IsInsert(s1.a) /\ ~ IsInsert(s2.a)
        BY <2>1, <2>3, LockstepInsert
    <2>4. CASE ~ IsInsert(s1.a) /\ IsInsert(s2.a)
        <3>1. Lockstep(t, y, x, s2, s1)
            BY <2>1, SyncSwap DEF Lockstep
        <3>2. /\ Lockstep(t, x, y, FollowRound(s1), FollowRound(s2))
              /\ Len(FollowRound(s1).a) + Len(FollowRound(s1).b) + 1
                     <= Len(s1.a) + Len(s1.b)
            BY <2>1, <2>4, <3>1, LockstepInsert
        <3>. QED
            BY <3>2
    <2>5. CASE /\ ~ IsInsert(s1.a) /\ ~ IsInsert(s2.a)
               /\ s1.a # <<>> /\ s2.a # <<>>
        BY <2>1, <2>5, LockstepOverlap
    <2>6. CASE /\ ~ IsInsert(s1.a) /\ ~ IsInsert(s2.a)
               /\ s1.a = <<>> \/ s2.a = <<>>
        <3>1. s1.a = <<>> /\ s2.a = <<>>
            BY <2>1, <2>6, SyncEnd, SyncSwap
        <3>2. FollowRound(s1) = s1 /\ FollowRound(s2) = s2
            BY <2>1, <2>6, FollowRounds
        <3>. QED
            BY <2>1, <3>1, <3>2
    <2>. QED
        BY <2>2, <2>3, <2>4, <2>5, <2>6
<1>. QED
    BY <1>1, <1>2

\* The states of the loop of Follow exist, so that the recursion defines them.
LEMMA FollowStates ==
    ASSUME NEW a \in Seq(OpSet), NEW b \in Seq(OpSet)
    PROVE  \E f : /\ f[0] = [a |-> a, b |-> b, out |-> <<>>]
                  /\ \A i \in 1..(Len(a) + Len(b)) : f[i] = FollowRound(f[i - 1])
                  /\ FollowOps(a, b) = f[Len(a) + Len(b)].out
<1>. DEFINE N == Len(a) + Len(b)
            first == [a |-> a, b |-> b, out |-> <<>>]
            Run(k, f) == /\ f[0] = first
                         /\ \A i \in 1..k : f[i] = FollowRound(f[i - 1])
            S == {k \in 0..N : \E f : Run(k, f)}
            State(f) == [i \in 0..N |-> IF i = 0 THEN first ELSE FollowRound(f[i - 1])]
<1>1. N \in Nat
    BY LenProperties
<1>2. FollowOps(a, b) = (CHOOSE f : f = State(f))[N].out
    BY Zenon DEF FollowOps
<1>. HIDE DEF N, first
<1>3. 0 \in S
    <2>1. Run(0, [i \in 0..0 |-> first])
        OBVIOUS
    <2>2. 0 \in 0..N
        BY <1>1
    <2>. HIDE DEF Run
    <2>. QED
        BY <2>1, <2>2
<1>4. ASSUME NEW k \in 0..(N - 1), k \in S
      PROVE  k + 1 \in S
    <2>1. PICK f : Run(k, f)
        BY <1>4
    <2>. DEFINE g == [i \in 0..(k + 1) |-> IF i = k + 1 THEN FollowRound(f[k]) ELSE f[i]]
    <2>2. ASSUME NEW i \in 1..(k + 1) PROVE g[i] = FollowRound(g[i - 1])
        <3>1. i - 1 \in 0..(k + 1) /\ i - 1 # k + 1 /\ g[i - 1] = f[i - 1]
            BY <1>1
        <3>2. CASE i = k + 1
            BY <3>1, <3>2
        <3>3. CASE i # k + 1
            <4>1. i \in 1..k /\ g[i] = f[i]
                BY <3>3
            <4>. QED
                BY <3>1, <4>1, <2>1
        <3>. QED
            BY <3>2, <3>3
    <2>3. g[0] = first
        BY <2>1, <1>1
    <2>4. Run(k + 1, g)
        <3>. HIDE DEF g
        <3>. QED
            BY <2>2, <2>3
    <2>5. k + 1 \in 0..N
        BY <1>1
    <2>. QED
        BY <2>4, <2>5
<1>5. N \in S
    <2>. HIDE DEF S
    <2>1. 0..N \subseteq S
        BY <1>1, <1>3, <1>4, Induction
    <2>. QED
        BY <1>1, <2>1
<1>6. PICK f : Run(N, f)
    BY <1>5
<1>. DEFINE h == [i \in 0..N |-> f[i]]
<1>7. h = State(h)
    <2>1. ASSUME NEW i \in 0..N
          PROVE  f[i] = IF i = 0 THEN first ELSE FollowRound(h[i - 1])
        <3>1. CASE i = 0
            BY <3>1, <1>6
        <3>2. CASE i # 0
            <4>1. i \in 1..N /\ i - 1 \in 0..N
                BY <3>2, <1>1
            <4>. QED
                BY <3>2, <4>1, <1>6
        <3>. QED
            BY <3>1, <3>2
    <2>. QED
        BY <2>1
<1>8. PICK z : z = State(z) /\ FollowOps(a, b) = z[N].out
    <2>. HIDE DEF h, State
    <2>1. (CHOOSE y : y = State(y)) = State(CHOOSE y : y = State(y))
        BY <1>7, Zenon
    <2>. QED
        BY <1>2, <2>1
<1>9. z[0] = first /\ \A i \in 1..N : z[i] = FollowRound(z[i - 1])
    <2>1. \A i \in 0..N : z[i] = IF i = 0 THEN first ELSE FollowRound(z[i - 1])
        BY <1>8, Zenon
    <2>2. 0 \in 0..N /\ \A i \in 1..N : i \in 0..N /\ i # 0
        BY <1>1
    <2>. QED
        BY <2>1, <2>2
<1>. QED
    BY <1>8, <1>9 DEF N, first

LEMMA LockstepSeq ==
    ASSUME NEW t, NEW x, NEW y, NEW s1, NEW s2, Lockstep(t, x, y, s1, s2)
    PROVE  /\ s1.a \in Seq(OpSet) /\ Len(s1.a) \in Nat
           /\ s1.b \in Seq(OpSet) /\ Len(s1.b) \in Nat
<1>1. s1.a \in Seq(OpSet) /\ s2.a \in Seq(OpSet)
    BY SyncSeq DEF Lockstep
<1>2. s1.b \in Seq(OpSet)
    <2>1. CASE Tied(s1, s2)
        <3>1. PICK s \in Text \ {<<>>} : s1.b = <<Insert(s)>> \o s2.a
            BY <2>1 DEF Tied
        <3>. QED
            BY <1>1, <3>1, InsertOp, InFront
    <2>2. CASE s1.b = s2.a
        BY <1>1, <2>2
    <2>. QED
        BY <2>1, <2>2 DEF Lockstep
<1>. QED
    BY <1>1, <1>2, LenProperties

\* What a changeset does to a text.
Leads(t, c, u) ==
    /\ c.oldLen = Len(t) /\ c.newLen = Len(u)
    /\ c.ops \in Seq(OpSet) /\ Align(t, 0, c.ops, u, 0, Len(t), Len(u))

(***************************************************************************)
(* Follow(A, B) and Follow(B, A) lead to the same text.                    *)
(***************************************************************************)
LEMMA FollowMeets ==
    ASSUME NEW t \in Text, NEW x \in Text, NEW y \in Text,
           NEW a, NEW b, Left(t, 0, a, x, 0), Left(t, 0, b, y, 0),
           Normal(a), Normal(b)
    PROVE  \E w \in Text : /\ Written(x, FollowOps(a, b), w, Len(x))
                           /\ Written(y, FollowOps(b, a), w, Len(y))
<1>1. /\ a \in Seq(OpSet) /\ b \in Seq(OpSet) /\ Len(a) \in Nat /\ Len(b) \in Nat
      /\ Len(a) + Len(b) = Len(b) + Len(a)
    BY LenProperties DEF Left
<1>. DEFINE N == Len(a) + Len(b)
<1>2. PICK f : /\ f[0] = [a |-> a, b |-> b, out |-> <<>>]
               /\ \A i \in 1..N : f[i] = FollowRound(f[i - 1])
               /\ FollowOps(a, b) = f[N].out
    BY <1>1, FollowStates
<1>3. PICK g : /\ g[0] = [a |-> b, b |-> a, out |-> <<>>]
               /\ \A i \in 1..N : g[i] = FollowRound(g[i - 1])
               /\ FollowOps(b, a) = g[N].out
    <2>1. PICK g : /\ g[0] = [a |-> b, b |-> a, out |-> <<>>]
                   /\ \A i \in 1..(Len(b) + Len(a)) : g[i] = FollowRound(g[i - 1])
                   /\ FollowOps(b, a) = g[Len(b) + Len(a)].out
        BY <1>1, FollowStates
    <2>. QED
        BY <1>1, <2>1
<1>. DEFINE S == {i \in 0..N : /\ Lockstep(t, x, y, f[i], g[i])
                               /\ Len(f[i].a) + Len(f[i].b) <= N - i}
<1>4. 0 \in S
    <2>1. <<>> \in Text /\ <<>> \in Seq(OpSet) /\ Len(<<>>) = 0
        BY DEF Text
    <2>2. Align(x, 0, <<>>, <<>>, 0, 0, 0) /\ Align(y, 0, <<>>, <<>>, 0, 0, 0)
        BY AlignEmpty
    <2>3. Written(x, <<>>, <<>>, 0) /\ Written(y, <<>>, <<>>, 0)
        BY <2>1, <2>2 DEF Written
    <2>4. Sync(t, x, y, a, b, <<>>, <<>>)
        BY <2>1, <2>3 DEF Sync
    <2>5. Lockstep(t, x, y, f[0], g[0])
        BY <1>2, <1>3, <2>4 DEF Lockstep
    <2>6. 0 \in 0..N /\ Len(f[0].a) + Len(f[0].b) <= N - 0
        BY <1>1, <1>2
    <2>. QED
        BY <2>5, <2>6
<1>5. ASSUME NEW i \in 0..(N - 1), i \in S
      PROVE  i + 1 \in S
    <2>1. /\ i \in Nat /\ i + 1 \in 1..N /\ i + 1 \in 0..N /\ (i + 1) - 1 = i
          /\ N \in Nat
        BY <1>1
    <2>2. f[i + 1] = FollowRound(f[i]) /\ g[i + 1] = FollowRound(g[i])
        BY <2>1, <1>2, <1>3
    <2>3. Lockstep(t, x, y, f[i], g[i]) /\ Len(f[i].a) + Len(f[i].b) <= N - i
        BY <1>5
    <2>4. /\ Lockstep(t, x, y, f[i + 1], g[i + 1])
          /\ \/ Len(f[i + 1].a) + Len(f[i + 1].b) + 1 <= Len(f[i].a) + Len(f[i].b)
             \/ f[i + 1] = f[i] /\ f[i].a = <<>> /\ f[i].b = <<>>
        <3>1. ASSUME NEW s1, NEW s2, Lockstep(t, x, y, s1, s2)
              PROVE  /\ Lockstep(t, x, y, FollowRound(s1), FollowRound(s2))
                     /\ \/ Len(FollowRound(s1).a) + Len(FollowRound(s1).b) + 1
                                <= Len(s1.a) + Len(s1.b)
                        \/ FollowRound(s1) = s1 /\ s1.a = <<>> /\ s1.b = <<>>
            BY <3>1, LockstepRound
        <3>. QED
            BY <2>2, <2>3, <3>1, Zenon
    <2>5. Len(f[i + 1].a) + Len(f[i + 1].b) <= N - (i + 1)
        <3>1. /\ Len(f[i].a) \in Nat /\ Len(f[i].b) \in Nat
              /\ Len(f[i + 1].a) \in Nat /\ Len(f[i + 1].b) \in Nat
            BY <2>3, <2>4, LockstepSeq
        <3>2. CASE f[i + 1] = f[i] /\ f[i].a = <<>> /\ f[i].b = <<>>
            <4>1. Len(f[i + 1].a) = 0 /\ Len(f[i + 1].b) = 0
                BY <3>2
            <4>. QED
                BY <4>1, <2>1
        <3>3. CASE Len(f[i + 1].a) + Len(f[i + 1].b) + 1 <= Len(f[i].a) + Len(f[i].b)
            <4>1. ASSUME NEW c \in Nat, NEW d \in Nat, NEW e \in Nat, NEW h \in Nat,
                         c + d + 1 <= e + h, e + h <= N - i
                  PROVE  c + d <= N - (i + 1)
                BY <4>1, <2>1
            <4>. QED
                BY <2>3, <3>1, <3>3, <4>1
        <3>. QED
            BY <2>4, <3>2, <3>3
    <2>. QED
        BY <2>1, <2>4, <2>5
<1>6. N \in S
    <2>1. N \in Nat /\ N \in 0..N
        BY <1>1
    <2>. HIDE DEF S, N
    <2>. QED
        BY <1>4, <1>5, <2>1, Induction
<1>7. Lockstep(t, x, y, f[N], g[N]) /\ f[N].a = <<>> /\ f[N].b = <<>>
    <2>1. Lockstep(t, x, y, f[N], g[N]) /\ Len(f[N].a) + Len(f[N].b) <= N - N
        BY <1>6
    <2>2. /\ f[N].a \in Seq(OpSet) /\ Len(f[N].a) \in Nat
          /\ f[N].b \in Seq(OpSet) /\ Len(f[N].b) \in Nat
        BY <2>1, LockstepSeq
    <2>3. Len(f[N].a) = 0 /\ Len(f[N].b) = 0
        <3>1. ASSUME NEW c \in Nat, NEW d \in Nat, c + d <= N - N
              PROVE  c = 0 /\ d = 0
            BY <3>1, <1>1
        <3>. QED
            BY <2>1, <2>2, <3>1
    <2>. QED
        BY <2>1, <2>2, <2>3, EmptySeq
<1>. HIDE DEF N
<1>8. /\ Sync(t, x, y, f[N].a, g[N].a, f[N].out, g[N].out)
      /\ g[N].a = <<>>
    <2>1. ~ Tied(f[N], g[N])
        <3>1. ASSUME NEW s \in Text \ {<<>>}, f[N].b = <<Insert(s)>> \o g[N].a
              PROVE  FALSE
            <4>1. g[N].a \in Seq(OpSet)
                BY <1>7, SyncSeq DEF Lockstep
            <4>. QED
                BY <1>7, <3>1, <4>1, InsertOp, InFrontOff
        <3>. QED
            BY <3>1 DEF Tied
    <2>. QED
        BY <1>7, <2>1 DEF Lockstep
<1>9. ~ IsInsert(<<>>)
    BY DEF IsInsert
<1>10. \E w \in Text : /\ Written(x, f[N].out, w, Len(x))
                       /\ Written(y, g[N].out, w, Len(y))
    BY <1>7, <1>8, <1>9, SyncEnd
<1>. QED
    BY <1>2, <1>3, <1>10

-----------------------------------------------------------------------------
(* What an alignment says of ApplyChangeset and Validate *)

\* A piece that is appended.
LEMMA AppendPiece ==
    ASSUME NEW u \in Text, NEW m \in Nat, NEW n \in Nat, m <= n, n <= Len(u),
           NEW z \in Text, Len(z) = n - m, \A j \in 1..(n - m) : z[j] = u[m + j]
    PROVE  SubSeq(u, 1, m) \o z = SubSeq(u, 1, n)
<1>. DEFINE v == SubSeq(u, 1, m)
            w == SubSeq(u, 1, n)
            s == v \o z
<1>0. Len(u) \in Nat /\ m <= Len(u)
    <2>1. Len(u) \in Nat
        BY LenProperties DEF Text
    <2>. QED
        BY <2>1
<1>1. v \in Text /\ Len(v) = m /\ \A j \in 1..m : v[j] = u[j]
    BY <1>0, Beginning
<1>2. w \in Text /\ Len(w) = n /\ \A j \in 1..n : w[j] = u[j]
    BY Beginning
<1>. HIDE DEF v, w
<1>3. /\ s \in Text /\ Len(s) = Len(v) + Len(z)
      /\ \A j \in (0 + 1)..Len(v) : s[j] = v[j]
      /\ \A j \in 1..Len(z) : s[Len(v) + j] = z[j]
    BY <1>1, Longer
<1>. HIDE DEF s
<1>4. Len(s) = n
    BY <1>1, <1>3
<1>5. ASSUME NEW j \in 1..n PROVE s[j] = w[j]
    <2>1. CASE j <= m
        <3>1. j \in (0 + 1)..m /\ j \in 1..m
            BY <2>1
        <3>. QED
            BY <3>1, <1>1, <1>2, <1>3
    <2>2. CASE ~ (j <= m)
        <3>1. j - m \in 1..(n - m) /\ m + (j - m) = j
            BY <2>2
        <3>2. s[m + (j - m)] = z[j - m] /\ z[j - m] = u[m + (j - m)]
            BY <3>1, <1>1, <1>3
        <3>. QED
            BY <3>1, <3>2, <1>2
    <2>. QED
        BY <2>1, <2>2
<1>6. s = w
    BY <1>2, <1>3, <1>4, <1>5, SeqEqual DEF Text
<1>. QED
    BY <1>6 DEF s, v, w

\* The state of ApplyChangeset at mark p of the text, q of the new one.
Acc(u, p, q) == [ok |-> TRUE, pos |-> p, out |-> SubSeq(u, 1, q)]

\* ApplyChangeset: one op.
LEMMA ApplySeg ==
    ASSUME NEW t \in Text, NEW u \in Text, NEW o \in OpSet,
           NEW p \in Nat, NEW q \in Nat, NEW p1 \in Nat, NEW q1 \in Nat,
           p1 <= Len(t), q1 <= Len(u), Seg(o, t, p, p1, u, q, q1)
    PROVE  ApplyOp(t, Acc(u, p, q), o) = Acc(u, p1, q1)
<1>. DEFINE out == SubSeq(u, 1, q)
            new == CASE o.op = "retain" -> SubSeq(t, p + 1, p + o.n)
                     [] o.op = "insert" -> o.chars
                     [] o.op = "delete" -> <<>>
<1>1. p1 = p + Consumed(o) /\ p <= p1 /\ q <= q1
    BY SegForward
<1>2. /\ Len(t) \in Nat /\ Len(u) \in Nat /\ ~ (p + Consumed(o) > Len(t))
    BY <1>1, LenProperties DEF Text
<1>3. ApplyOp(t, [ok |-> TRUE, pos |-> p, out |-> out], o) =
          [ok |-> TRUE, pos |-> p1, out |-> out \o new]
    BY <1>1, <1>2 DEF ApplyOp
<1>4. new \in Text /\ Len(new) = q1 - q /\ \A j \in 1..(q1 - q) : new[j] = u[q + j]
    <2>1. CASE o.op = "retain"
        <3>1. /\ o.n \in Nat /\ p1 = p + o.n /\ q1 = q + o.n
              /\ \A j \in 1..o.n : u[q + j] = t[p + j]
            BY <2>1, OpFacts DEF Seg
        <3>2. /\ p <= p + o.n /\ p + o.n <= Len(t) /\ p + o.n \in Nat
              /\ (p + o.n) - p = o.n /\ q1 - q = o.n
            BY <3>1
        <3>3. /\ SubSeq(t, p + 1, p + o.n) \in Text
              /\ Len(SubSeq(t, p + 1, p + o.n)) = (p + o.n) - p
              /\ \A j \in 1..((p + o.n) - p) : SubSeq(t, p + 1, p + o.n)[j] = t[p + j]
            BY <3>2, Piece, Zenon
        <3>4. new = SubSeq(t, p + 1, p + o.n)
            BY <2>1
        <3>. HIDE DEF new
        <3>. QED
            BY <3>1, <3>2, <3>3, <3>4
    <2>2. CASE o.op = "insert"
        <3>1. /\ o.chars \in Text /\ Len(o.chars) \in Nat
              /\ q1 = q + Len(o.chars)
              /\ \A j \in 1..Len(o.chars) : u[q + j] = o.chars[j]
            BY <2>2, OpFacts DEF Seg
        <3>2. new = o.chars
            BY <2>2
        <3>3. q1 - q = Len(o.chars)
            BY <3>1
        <3>. HIDE DEF new
        <3>. QED
            BY <3>1, <3>2, <3>3
    <2>3. CASE o.op = "delete"
        <3>1. new = <<>> /\ q1 = q
            BY <2>3 DEF Seg
        <3>2. q1 - q = 0
            BY <3>1
        <3>. HIDE DEF new
        <3>. QED
            BY <3>1, <3>2 DEF Text
    <2>. QED
        BY <2>1, <2>2, <2>3, OpFacts
<1>. HIDE DEF new, out
<1>5. out \o new = SubSeq(u, 1, q1)
    BY <1>1, <1>4, AppendPiece DEF out
<1>. QED
    BY <1>3, <1>5 DEF Acc, out

LEMMA ApplyAligned ==
    ASSUME NEW t \in Text, NEW u \in Text, NEW c, Leads(t, c, u)
    PROVE  ApplyChangeset(t, c) = [ok |-> TRUE, text |-> u]
<1>. DEFINE ops == c.ops
            m == Len(ops)
            first == [ok |-> c.oldLen = Len(t), pos |-> 0, out |-> <<>>]
            State(f) == [i \in 0..m |-> IF i = 0 THEN first
                                        ELSE ApplyOp(t, f[i - 1], ops[i])]
            end == (CHOOSE f : f = State(f))[m]
<1>1. ApplyChangeset(t, c) = IF end.ok /\ end.pos = Len(t)
                             THEN [ok |-> TRUE, text |-> end.out]
                             ELSE [ok |-> FALSE, text |-> <<>>]
    BY Zenon DEF ApplyChangeset
<1>2. /\ ops \in Seq(OpSet) /\ m \in Nat /\ Len(t) \in Nat /\ Len(u) \in Nat
      /\ \A i \in 1..m : ops[i] \in OpSet
      /\ c.oldLen = Len(t) /\ Align(t, 0, ops, u, 0, Len(t), Len(u))
    BY LenProperties, ElementOfSeq DEF Leads, Text
<1>3. PICK P, Q : Marks(P, Q, t, 0, ops, u, 0, Len(t), Len(u))
    BY <1>2 DEF Align
<1>4. /\ \A i \in 0..m : /\ P[i] \in Nat /\ P[i] <= Len(t)
                         /\ Q[i] \in Nat /\ Q[i] <= Len(u)
      /\ P[0] = 0 /\ P[m] = Len(t) /\ Q[0] = 0 /\ Q[m] = Len(u)
      /\ \A i \in 1..m : Seg(ops[i], t, P[i - 1], P[i], u, Q[i - 1], Q[i])
    BY <1>2, <1>3 DEF Marks
<1>. DEFINE g == [i \in 0..m |-> Acc(u, P[i], Q[i])]
<1>5. SubSeq(u, 1, 0) = <<>> /\ SubSeq(u, 1, Len(u)) = u
    <2>1. /\ SubSeq(u, 1, 0) \in Text /\ Len(SubSeq(u, 1, 0)) = 0
        BY <1>2, Beginning
    <2>2. /\ SubSeq(u, 1, Len(u)) \in Text /\ Len(SubSeq(u, 1, Len(u))) = Len(u)
          /\ \A j \in 1..Len(u) : SubSeq(u, 1, Len(u))[j] = u[j]
        BY <1>2, Beginning
    <2>3. SubSeq(u, 1, Len(u)) = u
        BY <2>2, SeqEqual DEF Text
    <2>. QED
        BY <2>1, <2>3, EmptySeq DEF Text
<1>. HIDE DEF ops, m
<1>6. first = [ok |-> TRUE, pos |-> 0, out |-> <<>>]
    BY <1>2
<1>7. g[0] = first /\ \A i \in 1..m : g[i] = ApplyOp(t, g[i - 1], ops[i])
    <2>1. g[0] = first
        <3>1. 0 \in 0..m
            BY <1>2
        <3>2. g[0] = Acc(u, P[0], Q[0])
            BY <3>1
        <3>. HIDE DEF g
        <3>. QED
            BY <3>2, <1>4, <1>5, <1>6 DEF Acc
    <2>2. ASSUME NEW i \in 1..m PROVE g[i] = ApplyOp(t, g[i - 1], ops[i])
        <3>1. i \in 0..m /\ i - 1 \in 0..m
            BY <1>2
        <3>2. g[i] = Acc(u, P[i], Q[i]) /\ g[i - 1] = Acc(u, P[i - 1], Q[i - 1])
            BY <3>1
        <3>3. /\ P[i] \in Nat /\ P[i] <= Len(t) /\ Q[i] \in Nat /\ Q[i] <= Len(u)
              /\ P[i - 1] \in Nat /\ Q[i - 1] \in Nat /\ ops[i] \in OpSet
              /\ Seg(ops[i], t, P[i - 1], P[i], u, Q[i - 1], Q[i])
            BY <3>1, <1>2, <1>4
        <3>. HIDE DEF g
        <3>5. ASSUME NEW o \in OpSet, NEW p \in Nat, NEW q \in Nat,
                     NEW p1 \in Nat, NEW q1 \in Nat,
                     p1 <= Len(t), q1 <= Len(u), Seg(o, t, p, p1, u, q, q1)
              PROVE  ApplyOp(t, Acc(u, p, q), o) = Acc(u, p1, q1)
            BY <3>5, ApplySeg
        <3>4. ApplyOp(t, Acc(u, P[i - 1], Q[i - 1]), ops[i]) = Acc(u, P[i], Q[i])
            BY <3>3, <3>5
        <3>. QED
            BY <3>2, <3>4
    <2>. QED
        BY <2>1, <2>2
<1>. HIDE DEF first
<1>8. g = State(g)
    <2>1. ASSUME NEW i \in 0..m
          PROVE  g[i] = IF i = 0 THEN first ELSE ApplyOp(t, g[i - 1], ops[i])
        <3>1. i # 0 => i \in 1..m
            BY <1>2
        <3>. HIDE DEF g
        <3>. QED
            BY <3>1, <1>7
    <2>2. g = [i \in 0..m |-> g[i]]
        OBVIOUS
    <2>. HIDE DEF g
    <2>. QED
        BY <2>1, <2>2
<1>9. PICK z : z = State(z) /\ end = z[m]
    <2>. HIDE DEF g, State
    <2>1. (CHOOSE f : f = State(f)) = State(CHOOSE f : f = State(f))
        BY <1>8, Zenon
    <2>. QED
        BY <2>1
<1>. HIDE DEF end
<1>10. m \in {i \in 0..m : z[i] = g[i]}
    <2>. DEFINE S == {i \in 0..m : z[i] = g[i]}
    <2>1. \A i \in 0..m : z[i] = IF i = 0 THEN first ELSE ApplyOp(t, z[i - 1], ops[i])
        BY <1>9, Zenon
    <2>. HIDE DEF g
    <2>2. 0 \in S
        BY <2>1, <1>2, <1>7
    <2>3. ASSUME NEW i \in 0..(m - 1), i \in S PROVE i + 1 \in S
        <3>1. i + 1 \in 0..m /\ i + 1 \in 1..m /\ i + 1 # 0 /\ (i + 1) - 1 = i
            BY <1>2
        <3>2. z[i + 1] = ApplyOp(t, z[i], ops[i + 1])
            BY <3>1, <2>1
        <3>3. g[i + 1] = ApplyOp(t, g[i], ops[i + 1])
            BY <3>1, <1>7
        <3>. QED
            BY <3>1, <3>2, <3>3, <2>3
    <2>. HIDE DEF S
    <2>4. m \in Nat /\ m \in 0..m
        BY <1>2
    <2>5. 0..m \subseteq S
        BY <2>2, <2>3, <2>4, Induction
    <2>. QED
        BY <2>4, <2>5 DEF S
<1>11. end = [ok |-> TRUE, pos |-> Len(t), out |-> u]
    <2>1. g[m] = Acc(u, P[m], Q[m])
        BY <1>2
    <2>. HIDE DEF g
    <2>. QED
        BY <2>1, <1>4, <1>5, <1>9, <1>10 DEF Acc
<1>. QED
    BY <1>1, <1>11

\* The marks in the old text add up what is consumed,
LEMMA TotalConsumed ==
    ASSUME NEW ops \in Seq(OpSet), NEW t, NEW u, NEW p1 \in Nat, NEW q1 \in Nat,
           Align(t, 0, ops, u, 0, p1, q1)
    PROVE  TotalOf(Consumed, ops) = p1
<1>. DEFINE m == Len(ops)
            Sum(f) == [i \in 0..m |-> IF i = 0 THEN 0
                                      ELSE f[i - 1] + Consumed(ops[i])]
<1>1. m \in Nat /\ \A i \in 1..m : ops[i] \in OpSet
    BY LenProperties, ElementOfSeq
<1>2. TotalOf(Consumed, ops) = (CHOOSE f : f = Sum(f))[m]
    BY Zenon DEF TotalOf
<1>3. PICK P, Q : Marks(P, Q, t, 0, ops, u, 0, p1, q1)
    BY DEF Align
<1>4. /\ P \in [0..m -> 0..p1] /\ Q \in [0..m -> 0..q1]
      /\ P[0] = 0 /\ P[m] = p1
      /\ \A i \in 1..m : Seg(ops[i], t, P[i - 1], P[i], u, Q[i - 1], Q[i])
    BY <1>3 DEF Marks
<1>. HIDE DEF m
<1>5. ASSUME NEW i \in 1..m PROVE P[i] = P[i - 1] + Consumed(ops[i])
    <2>1. i - 1 \in 0..m
        BY <1>1
    <2>2. P[i - 1] \in Nat /\ Q[i - 1] \in Nat /\ ops[i] \in OpSet
        BY <2>1, <1>1, <1>4
    <2>3. Seg(ops[i], t, P[i - 1], P[i], u, Q[i - 1], Q[i])
        BY <1>4
    <2>. QED
        BY <2>2, <2>3, SegForward
<1>6. P = Sum(P)
    <2>1. ASSUME NEW i \in 0..m
          PROVE  P[i] = IF i = 0 THEN 0 ELSE P[i - 1] + Consumed(ops[i])
        <3>1. i # 0 => i \in 1..m
            BY <1>1
        <3>. QED
            BY <3>1, <1>4, <1>5
    <2>2. P = [i \in 0..m |-> P[i]]
        BY <1>4
    <2>. QED
        BY <2>1, <2>2
<1>7. PICK z : z = Sum(z) /\ TotalOf(Consumed, ops) = z[m]
    <2>. HIDE DEF Sum
    <2>1. (CHOOSE f : f = Sum(f)) = Sum(CHOOSE f : f = Sum(f))
        BY <1>6, Zenon
    <2>. QED
        BY <1>2, <2>1
<1>. DEFINE S == {i \in 0..m : z[i] = P[i]}
<1>8. \A i \in 0..m : z[i] = IF i = 0 THEN 0 ELSE z[i - 1] + Consumed(ops[i])
    BY <1>7, Zenon
<1>9. 0 \in S
    BY <1>1, <1>4, <1>8
<1>10. ASSUME NEW i \in 0..(m - 1), i \in S PROVE i + 1 \in S
    <2>1. i + 1 \in 0..m /\ i + 1 \in 1..m /\ i + 1 # 0 /\ (i + 1) - 1 = i
        BY <1>1
    <2>2. z[i + 1] = z[i] + Consumed(ops[i + 1])
        BY <2>1, <1>8
    <2>3. P[i + 1] = P[i] + Consumed(ops[i + 1])
        BY <2>1, <1>5
    <2>4. z[i] = P[i]
        BY <1>10
    <2>. QED
        BY <2>1, <2>2, <2>3, <2>4
<1>11. m \in 0..m
    BY <1>1
<1>. HIDE DEF S
<1>12. 0..m \subseteq S
    BY <1>1, <1>9, <1>10, Induction
<1>. QED
    BY <1>4, <1>7, <1>11, <1>12 DEF S

\* those in the new text what is produced.
LEMMA TotalProduced ==
    ASSUME NEW ops \in Seq(OpSet), NEW t, NEW u, NEW p1 \in Nat, NEW q1 \in Nat,
           Align(t, 0, ops, u, 0, p1, q1)
    PROVE  TotalOf(Produced, ops) = q1
<1>. DEFINE m == Len(ops)
            Sum(f) == [i \in 0..m |-> IF i = 0 THEN 0
                                      ELSE f[i - 1] + Produced(ops[i])]
<1>1. m \in Nat /\ \A i \in 1..m : ops[i] \in OpSet
    BY LenProperties, ElementOfSeq
<1>2. TotalOf(Produced, ops) = (CHOOSE f : f = Sum(f))[m]
    BY Zenon DEF TotalOf
<1>3. PICK P, Q : Marks(P, Q, t, 0, ops, u, 0, p1, q1)
    BY DEF Align
<1>4. /\ P \in [0..m -> 0..p1] /\ Q \in [0..m -> 0..q1]
      /\ Q[0] = 0 /\ Q[m] = q1
      /\ \A i \in 1..m : Seg(ops[i], t, P[i - 1], P[i], u, Q[i - 1], Q[i])
    BY <1>3 DEF Marks
<1>. HIDE DEF m
<1>5. ASSUME NEW i \in 1..m PROVE Q[i] = Q[i - 1] + Produced(ops[i])
    <2>1. i - 1 \in 0..m
        BY <1>1
    <2>2. P[i - 1] \in Nat /\ Q[i - 1] \in Nat /\ ops[i] \in OpSet
        BY <2>1, <1>1, <1>4
    <2>3. Seg(ops[i], t, P[i - 1], P[i], u, Q[i - 1], Q[i])
        BY <1>4
    <2>. QED
        BY <2>2, <2>3, SegForward
<1>6. Q = Sum(Q)
    <2>1. ASSUME NEW i \in 0..m
          PROVE  Q[i] = IF i = 0 THEN 0 ELSE Q[i - 1] + Produced(ops[i])
        <3>1. i # 0 => i \in 1..m
            BY <1>1
        <3>. QED
            BY <3>1, <1>4, <1>5
    <2>2. Q = [i \in 0..m |-> Q[i]]
        BY <1>4
    <2>. QED
        BY <2>1, <2>2
<1>7. PICK z : z = Sum(z) /\ TotalOf(Produced, ops) = z[m]
    <2>. HIDE DEF Sum
    <2>1. (CHOOSE f : f = Sum(f)) = Sum(CHOOSE f : f = Sum(f))
        BY <1>6, Zenon
    <2>. QED
        BY <1>2, <2>1
<1>. DEFINE S == {i \in 0..m : z[i] = Q[i]}
<1>8. \A i \in 0..m : z[i] = IF i = 0 THEN 0 ELSE z[i - 1] + Produced(ops[i])
    BY <1>7, Zenon
<1>9. 0 \in S
    BY <1>1, <1>4, <1>8
<1>10. ASSUME NEW i \in 0..(m - 1), i \in S PROVE i + 1 \in S
    <2>1. i + 1 \in 0..m /\ i + 1 \in 1..m /\ i + 1 # 0 /\ (i + 1) - 1 = i
        BY <1>1
    <2>2. z[i + 1] = z[i] + Produced(ops[i + 1])
        BY <2>1, <1>8
    <2>3. Q[i + 1] = Q[i] + Produced(ops[i + 1])
        BY <2>1, <1>5
    <2>4. z[i] = Q[i]
        BY <1>10
    <2>. QED
        BY <2>1, <2>2, <2>3, <2>4
<1>11. m \in 0..m
    BY <1>1
<1>. HIDE DEF S
<1>12. 0..m \subseteq S
    BY <1>1, <1>9, <1>10, Induction
<1>. QED
    BY <1>4, <1>7, <1>11, <1>12 DEF S

LEMMA LeadsValid ==
    ASSUME NEW t \in Text, NEW u \in Text, NEW c, Leads(t, c, u)
    PROVE  Validate(c)
<1>1. /\ c.ops \in Seq(OpSet) /\ Len(t) \in Nat /\ Len(u) \in Nat
      /\ c.oldLen = Len(t) /\ c.newLen = Len(u)
      /\ Align(t, 0, c.ops, u, 0, Len(t), Len(u))
    BY LenProperties DEF Leads, Text
<1>2. TotalOf(Consumed, c.ops) = c.oldLen
    BY <1>1, TotalConsumed
<1>3. TotalOf(Produced, c.ops) = c.newLen
    BY <1>1, TotalProduced
<1>4. ASSUME NEW i \in DOMAIN c.ops
      PROVE  Consumed(c.ops[i]) + Produced(c.ops[i]) > 0
    <2>1. c.ops[i] \in OpSet
        <3>1. i \in 1..Len(c.ops)
            BY <1>1, LenProperties
        <3>. QED
            BY <1>1, <3>1, ElementOfSeq
    <2>. QED
        BY <2>1, OpFacts DEF Consumed, Produced
<1>. QED
    BY <1>2, <1>3, <1>4 DEF Validate

-----------------------------------------------------------------------------
(* Compose *)

LEMMA ComposeRounds ==
    ASSUME NEW s
    PROVE  LET bInserts == IsInsert(s.b)
               aDeletes == s.a # <<>> /\ Head(s.a).op = "delete"
               left == Produced(Head(s.a))
               n == IF left < Head(s.b).n THEN left ELSE Head(s.b).n
           IN  /\ bInserts =>
                      ComposeRound(s) = [a |-> s.a, b |-> Tail(s.b),
                                         out |-> addOp(s.out, Head(s.b))]
               /\ ~ bInserts /\ aDeletes =>
                      ComposeRound(s) = [a |-> Tail(s.a), b |-> s.b,
                                         out |-> addOp(s.out, Head(s.a))]
               /\ ~ bInserts /\ ~ aDeletes /\ (s.a = <<>> \/ s.b = <<>>) =>
                      ComposeRound(s) = s
               /\ ~ bInserts /\ ~ aDeletes /\ s.a # <<>> /\ s.b # <<>> =>
                      ComposeRound(s) =
                          [a |-> consume(s.a, n), b |-> consume(s.b, n),
                           out |-> addOps(s.out, Overlap(Head(s.a), Head(s.b), n))]
<1>. DEFINE aDeletes == s.a # <<>> /\ Head(s.a).op = "delete"
<1>1. CASE IsInsert(s.b)
    BY <1>1 DEF ComposeRound
<1>2. CASE ~ IsInsert(s.b) /\ aDeletes
    BY <1>2 DEF ComposeRound
<1>3. CASE ~ IsInsert(s.b) /\ ~ aDeletes /\ (s.a = <<>> \/ s.b = <<>>)
    BY <1>3 DEF ComposeRound
<1>4. CASE ~ IsInsert(s.b) /\ ~ aDeletes /\ s.a # <<>> /\ s.b # <<>>
    BY <1>4 DEF ComposeRound
<1>. QED
    BY <1>1, <1>2, <1>3, <1>4

(***************************************************************************)
(* In the loop of Compose a is what is left of the way from t to u, b of   *)
(* the way from u to v, and out leads from t to v as far as both have come. *)
(***************************************************************************)
Composing(t, u, v, s) ==
    /\ s.out \in Seq(OpSet)
    /\ \E p, q, r \in Nat : /\ Left(t, p, s.a, u, q) /\ Left(u, q, s.b, v, r)
                            /\ Align(t, 0, s.out, v, 0, p, r)

LEMMA ComposingSeq ==
    ASSUME NEW t, NEW u, NEW v, NEW s, Composing(t, u, v, s)
    PROVE  /\ s.a \in Seq(OpSet) /\ Len(s.a) \in Nat
           /\ s.b \in Seq(OpSet) /\ Len(s.b) \in Nat
<1>1. s.a \in Seq(OpSet) /\ s.b \in Seq(OpSet)
    BY DEF Composing, Left
<1>. QED
    BY <1>1, LenProperties

\* B inserts.
LEMMA ComposeInsert ==
    ASSUME NEW t \in Text, NEW u \in Text, NEW v \in Text,
           NEW a, NEW b, NEW out \in Seq(OpSet),
           NEW p \in Nat, NEW q \in Nat, NEW r \in Nat,
           Left(t, p, a, u, q), Left(u, q, b, v, r),
           Align(t, 0, out, v, 0, p, r), IsInsert(b)
    PROVE  Composing(t, u, v, [a |-> a, b |-> Tail(b), out |-> addOp(out, Head(b))])
<1>. DEFINE o == Head(b)
            r2 == r + Len(o.chars)
<1>1. o \in OpSet /\ o.op = "insert"
    BY InsertFacts DEF Left
<1>2. Lies(o.chars, v, r) /\ r2 \in Nat /\ Left(u, q, Tail(b), v, r2)
    BY LeftInsert
<1>. HIDE DEF o
<1>3. Seg(o, t, p, p, v, r, r2)
    BY <1>1, <1>2 DEF Seg, Lies
<1>4. addOp(out, o) \in Seq(OpSet) /\ Align(t, 0, addOp(out, o), v, 0, p, r2)
    BY <1>1, <1>3, AddOpType, AlignAddOp
<1>. HIDE DEF r2
<1>. QED
    BY <1>2, <1>4 DEF Composing, o

\* A deletes.
LEMMA ComposeDelete ==
    ASSUME NEW t \in Text, NEW u \in Text, NEW v \in Text,
           NEW a, NEW b, NEW out \in Seq(OpSet),
           NEW p \in Nat, NEW q \in Nat, NEW r \in Nat,
           Left(t, p, a, u, q), Left(u, q, b, v, r),
           Align(t, 0, out, v, 0, p, r), a # <<>>, Head(a).op = "delete"
    PROVE  Composing(t, u, v, [a |-> Tail(a), b |-> b, out |-> addOp(out, Head(a))])
<1>. DEFINE o == Head(a)
<1>1. /\ a \in Seq(OpSet) /\ Len(t) \in Nat /\ Len(u) \in Nat
      /\ Align(t, p, a, u, q, Len(t), Len(u))
      /\ o \in OpSet /\ Tail(a) \in Seq(OpSet)
    BY LenProperties, HeadTail DEF Left, Text
<1>2. PICK p2, q2 \in Nat : /\ Seg(o, t, p, p2, u, q, q2)
                            /\ Align(t, p2, Tail(a), u, q2, Len(t), Len(u))
    BY <1>1, AlignHead
<1>. HIDE DEF o
<1>3. q2 = q /\ Seg(o, t, p, p2, v, r, r)
    BY <1>2 DEF Seg, o
<1>4. Left(t, p2, Tail(a), u, q)
    BY <1>1, <1>2, <1>3 DEF Left
<1>5. addOp(out, o) \in Seq(OpSet) /\ Align(t, 0, addOp(out, o), v, 0, p2, r)
    BY <1>1, <1>3, AddOpType, AlignAddOp
<1>. QED
    BY <1>4, <1>5 DEF Composing, o

\* n characters that A leaves and B sees.
LEMMA ComposeOverlap ==
    ASSUME NEW t \in Text, NEW u \in Text, NEW v \in Text,
           NEW a, NEW b, NEW out \in Seq(OpSet),
           NEW p \in Nat, NEW q \in Nat, NEW r \in Nat,
           Left(t, p, a, u, q), Left(u, q, b, v, r),
           Align(t, 0, out, v, 0, p, r), a # <<>>, b # <<>>,
           Head(a).op # "delete", Head(b).op # "insert",
           NEW n \in Nat, 0 < n, n <= Size(Head(a)), n <= Head(b).n
    PROVE  /\ Composing(t, u, v, [a |-> consume(a, n), b |-> consume(b, n),
                                  out |-> addOps(out, Overlap(Head(a), Head(b), n))])
           /\ Len(consume(a, n)) <= Len(a) /\ Len(consume(b, n)) <= Len(b)
<1>. DEFINE oa == Head(a)
            ob == Head(b)
            a2 == consume(a, n)
            b2 == consume(b, n)
            p2 == OldMark(oa, p, n)
            q2 == NewMark(oa, q, n)
            o == Part(oa, n)
            new == addOps(out, Overlap(oa, ob, n))
<1>1. /\ a \in Seq(OpSet) /\ Len(t) \in Nat /\ Len(u) \in Nat
      /\ Align(t, p, a, u, q, Len(t), Len(u))
      /\ oa \in OpSet /\ ob \in OpSet
    BY LenProperties, HeadTail DEF Left, Text
<1>2. oa.op \in {"retain", "insert"} /\ ob.op \in {"retain", "delete"}
    BY <1>1, OpFacts
<1>3. /\ o \in OpSet /\ o.op = oa.op /\ p2 \in Nat /\ q2 \in Nat
      /\ Seg(o, t, p, p2, u, q, q2)
      /\ Align(t, p2, a2, u, q2, Len(t), Len(u)) /\ a2 \in Seq(OpSet)
      /\ Len(a2) <= Len(a)
    BY <1>1, AlignConsume
<1>4. q2 = q + n
    BY DEF NewMark
<1>5. /\ Len(b2) <= Len(b)
      /\ ob.op = "retain" => /\ \A k \in 1..n : v[r + k] = u[q + k]
                             /\ r + n \in Nat /\ Left(u, q + n, b2, v, r + n)
      /\ ob.op = "delete" => Left(u, q + n, b2, v, r)
    BY LeftConsume
<1>6. Left(t, p2, a2, u, q + n)
    BY <1>3, <1>4 DEF Left
<1>7. /\ oa.op = "retain" => o = [op |-> "retain", n |-> n] /\ p2 = p + n
      /\ oa.op = "insert" => o = Insert(SubSeq(oa.chars, 1, n)) /\ p2 = p
    BY DEF Part, OldMark
<1>. HIDE DEF oa, ob, a2, b2, p2, q2, o
<1>8. CASE ob.op = "retain"
    <2>1. new = addOp(out, o)
        BY <1>2, <1>7, <1>8 DEF Overlap, addOps
    <2>2. Seg(o, t, p, p2, v, r, r + n)
        <3>1. CASE oa.op = "retain"
            <4>1. o.op = "retain" /\ o.n = n /\ p2 = p + n
                BY <1>7, <3>1
            <4>2. \A k \in 1..n : u[q + k] = t[p + k]
                BY <4>1, <1>3 DEF Seg
            <4>. QED
                BY <4>1, <4>2, <1>5, <1>8 DEF Seg
        <3>2. CASE oa.op = "insert"
            <4>1. /\ o.op = "insert" /\ p2 = p /\ q + n = q + Len(o.chars)
                  /\ \A k \in 1..Len(o.chars) : u[q + k] = o.chars[k]
                BY <1>3, <1>4, <3>2 DEF Seg
            <4>2. Len(o.chars) \in Nat
                BY <1>3, <3>2, OpFacts
            <4>3. Len(o.chars) = n
                BY <4>1, <4>2
            <4>. QED
                BY <4>1, <4>3, <1>5, <1>8 DEF Seg
        <3>. QED
            BY <1>2, <3>1, <3>2
    <2>. HIDE DEF new
    <2>7. o \in OpSet /\ out \in Seq(OpSet) /\ Align(t, 0, out, v, 0, p, r)
        BY <1>3, <1>5
    <2>8. addOp(out, o) \in Seq(OpSet)
        BY <2>7, AddOpType, Zenon
    <2>9. 0 \in Nat /\ p \in Nat /\ r \in Nat
        BY <1>3
    <2>10. Align(t, 0, addOp(out, o), v, 0, p2, r + n)
        BY <2>2, <2>7, <2>9, AlignAddOp, Zenon
    <2>3. new \in Seq(OpSet) /\ Align(t, 0, new, v, 0, p2, r + n)
        BY <2>1, <2>8, <2>10, Zenon
    <2>4. Composing(t, u, v, [a |-> a2, b |-> b2, out |-> new])
        BY <1>3, <1>5, <1>6, <1>8, <2>3 DEF Composing
    <2>. QED
        BY <1>3, <1>5, <2>4 DEF a2, b2, new, oa, ob
<1>9. CASE ob.op = "delete" /\ oa.op = "retain"
    <2>1. new = addOp(out, Delete(n)) /\ Delete(n).op = "delete" /\ Delete(n).n = n
        BY <1>9 DEF Overlap, addOps, Delete
    <2>2. Delete(n) \in OpSet
        BY DEF Delete, OpSet
    <2>3. Seg(Delete(n), t, p, p2, v, r, r)
        BY <1>7, <1>9, <2>1 DEF Seg
    <2>. HIDE DEF new
    <2>4. new \in Seq(OpSet) /\ Align(t, 0, new, v, 0, p2, r)
        BY <1>3, <2>1, <2>2, <2>3, AddOpType, AlignAddOp
    <2>5. Composing(t, u, v, [a |-> a2, b |-> b2, out |-> new])
        BY <1>3, <1>5, <1>6, <1>9, <2>4 DEF Composing
    <2>. QED
        BY <1>3, <1>5, <2>5 DEF a2, b2, new, oa, ob
<1>10. CASE ob.op = "delete" /\ oa.op = "insert"
    <2>1. new = out
        BY <1>10 DEF Overlap, addOps
    <2>. HIDE DEF new
    <2>2. Align(t, 0, new, v, 0, p2, r)
        BY <1>7, <1>10, <2>1
    <2>3. Composing(t, u, v, [a |-> a2, b |-> b2, out |-> new])
        BY <1>3, <1>5, <1>6, <1>10, <2>1, <2>2 DEF Composing
    <2>. QED
        BY <1>3, <1>5, <2>3 DEF a2, b2, new, oa, ob
<1>. QED
    BY <1>2, <1>8, <1>9, <1>10

\* Every round ends an op, until none is left.
LEMMA ComposingRound ==
    ASSUME NEW t \in Text, NEW u \in Text, NEW v \in Text, NEW s,
           Composing(t, u, v, s)
    PROVE  LET r1 == ComposeRound(s)
           IN  /\ Composing(t, u, v, r1)
               /\ \/ Len(r1.a) + Len(r1.b) + 1 <= Len(s.a) + Len(s.b)
                  \/ r1 = s /\ s.a = <<>> /\ s.b = <<>>
<1>1. PICK p, q, r \in Nat : /\ Left(t, p, s.a, u, q) /\ Left(u, q, s.b, v, r)
                             /\ Align(t, 0, s.out, v, 0, p, r)
    BY DEF Composing
<1>. DEFINE a == s.a
            b == s.b
            out == s.out
            r1 == ComposeRound(s)
<1>2. /\ a \in Seq(OpSet) /\ Len(a) \in Nat /\ b \in Seq(OpSet) /\ Len(b) \in Nat
      /\ out \in Seq(OpSet)
      /\ Len(t) \in Nat /\ Len(u) \in Nat /\ Len(v) \in Nat
    BY ComposingSeq, LenProperties DEF Composing, Text
<1>3. CASE IsInsert(b)
    <2>1. r1 = [a |-> a, b |-> Tail(b), out |-> addOp(out, Head(b))]
        BY <1>3, ComposeRounds
    <2>2. Composing(t, u, v, [a |-> a, b |-> Tail(b), out |-> addOp(out, Head(b))])
        BY <1>1, <1>2, <1>3, ComposeInsert
    <2>3. Len(Tail(b)) = Len(b) - 1
        BY <1>2, <1>3, HeadTail DEF IsInsert
    <2>4. r1.a = a /\ r1.b = Tail(b)
        BY <2>1
    <2>. HIDE DEF a, b, r1
    <2>5. Len(r1.a) + Len(r1.b) + 1 <= Len(a) + Len(b)
        <3>1. ASSUME NEW k \in Nat, NEW l \in Nat
              PROVE  (k - 1) + l + 1 <= k + l /\ l + (k - 1) + 1 <= l + k
            OBVIOUS
        <3>. QED
            BY <1>2, <2>3, <2>4, <3>1
    <2>. QED
        BY <2>1, <2>2, <2>5 DEF a, b, r1
<1>4. CASE ~ IsInsert(b) /\ a # <<>> /\ Head(a).op = "delete"
    <2>1. r1 = [a |-> Tail(a), b |-> b, out |-> addOp(out, Head(a))]
        BY <1>4, ComposeRounds
    <2>2. Composing(t, u, v, [a |-> Tail(a), b |-> b, out |-> addOp(out, Head(a))])
        BY <1>1, <1>2, <1>4, ComposeDelete
    <2>3. Len(Tail(a)) = Len(a) - 1
        BY <1>2, <1>4, HeadTail
    <2>4. r1.a = Tail(a) /\ r1.b = b
        BY <2>1
    <2>. HIDE DEF a, b, r1
    <2>5. Len(r1.a) + Len(r1.b) + 1 <= Len(a) + Len(b)
        <3>1. ASSUME NEW k \in Nat, NEW l \in Nat
              PROVE  (k - 1) + l + 1 <= k + l /\ l + (k - 1) + 1 <= l + k
            OBVIOUS
        <3>. QED
            BY <1>2, <2>3, <2>4, <3>1
    <2>. QED
        BY <2>1, <2>2, <2>5 DEF a, b, r1
<1>5. CASE /\ ~ IsInsert(b) /\ ~ (a # <<>> /\ Head(a).op = "delete")
           /\ a = <<>> \/ b = <<>>
    <2>1. r1 = s
        BY <1>5, ComposeRounds
    <2>2. ASSUME a = <<>>, b # <<>> PROVE FALSE
        <3>1. Len(u) = q
            BY <1>1, <1>2, <2>2, AlignEmptyOnly DEF Left
        <3>2. /\ Head(b) \in OpSet /\ Head(b).op # "insert"
              /\ Align(u, q, b, v, r, Len(u), Len(v))
            BY <1>1, <1>2, <1>5, <2>2, HeadTail DEF Left, IsInsert
        <3>3. PICK q2, r2 \in Nat : Seg(Head(b), u, q, q2, v, r, r2) /\ q2 <= Len(u)
            BY <1>2, <2>2, <3>2, AlignHead
        <3>4. q2 = q + Head(b).n /\ Head(b).n \in Nat /\ Head(b).n > 0
            BY <3>2, <3>3, OpFacts DEF Seg
        <3>. QED
            BY <3>1, <3>3, <3>4
    <2>3. ASSUME b = <<>>, a # <<>> PROVE FALSE
        <3>1. Len(u) = q
            BY <1>1, <1>2, <2>3, AlignEmptyOnly DEF Left
        <3>2. /\ Head(a) \in OpSet /\ Head(a).op # "delete"
              /\ Align(t, p, a, u, q, Len(t), Len(u))
            BY <1>1, <1>2, <1>5, <2>3, HeadTail DEF Left
        <3>3. PICK p2, q2 \in Nat : Seg(Head(a), t, p, p2, u, q, q2) /\ q2 <= Len(u)
            BY <1>2, <2>3, <3>2, AlignHead
        <3>4. q2 = q + Size(Head(a)) /\ Size(Head(a)) \in Nat /\ Size(Head(a)) > 0
            BY <3>2, <3>3, OpFacts DEF Seg, Size
        <3>. QED
            BY <3>1, <3>3, <3>4
    <2>. QED
        BY <1>5, <2>1, <2>2, <2>3
<1>6. CASE /\ ~ IsInsert(b) /\ ~ (a # <<>> /\ Head(a).op = "delete")
           /\ a # <<>> /\ b # <<>>
    <2>. DEFINE oa == Head(a)
                ob == Head(b)
                n == IF Produced(oa) < ob.n THEN Produced(oa) ELSE ob.n
                new == [a |-> consume(a, n), b |-> consume(b, n),
                        out |-> addOps(out, Overlap(oa, ob, n))]
    <2>1. r1 = new
        BY <1>6, ComposeRounds
    <2>2. oa \in OpSet /\ ob \in OpSet /\ oa.op # "delete" /\ ob.op # "insert"
        BY <1>2, <1>6, HeadTail DEF IsInsert
    <2>3. /\ Produced(oa) = Size(oa) /\ Size(oa) \in Nat /\ Size(oa) > 0
          /\ ob.n \in Nat /\ ob.n > 0 /\ Size(ob) = ob.n
        BY <2>2, OpFacts DEF Produced, Size
    <2>4. n \in Nat /\ 0 < n /\ n <= Size(oa) /\ n <= ob.n /\ (n = Size(oa) \/ n = Size(ob))
        BY <2>3
    <2>. HIDE DEF n
    <2>5. /\ Composing(t, u, v, new)
          /\ Len(consume(a, n)) <= Len(a) /\ Len(consume(b, n)) <= Len(b)
        BY <1>1, <1>2, <1>6, <2>2, <2>4, ComposeOverlap
    <2>6. r1.a = consume(a, n) /\ r1.b = consume(b, n)
        BY <2>1
    <2>7. /\ n = Size(oa) => Len(consume(a, n)) = Len(a) - 1
          /\ n = Size(ob) => Len(consume(b, n)) = Len(b) - 1
        BY <1>2, <1>6, <2>2, HeadTail DEF consume, Size
    <2>8. Len(consume(a, n)) \in Nat /\ Len(consume(b, n)) \in Nat
        <3>1. ASSUME NEW z, Composing(t, u, v, z)
              PROVE  Len(z.a) \in Nat /\ Len(z.b) \in Nat
            BY <3>1, ComposingSeq
        <3>. QED
            BY <2>1, <2>5, <2>6, <3>1, Zenon
    <2>9. Len(r1.a) + Len(r1.b) + 1 <= Len(a) + Len(b)
        <3>1. ASSUME NEW c \in Nat, NEW d \in Nat, NEW e \in Nat, NEW f \in Nat,
                     c <= e, d <= f, c = e - 1 \/ d = f - 1
              PROVE  c + d + 1 <= e + f
            BY <3>1
        <3>. QED
            BY <1>2, <2>4, <2>5, <2>6, <2>7, <2>8, <3>1
    <2>. HIDE DEF new, r1
    <2>. QED
        BY <2>1, <2>5, <2>9 DEF r1
<1>. QED
    BY <1>3, <1>4, <1>5, <1>6

\* The states of the loop of Compose exist, so that the recursion defines them.
LEMMA ComposeStates ==
    ASSUME NEW a \in Seq(OpSet), NEW b \in Seq(OpSet)
    PROVE  \E f : /\ f[0] = [a |-> a, b |-> b, out |-> <<>>]
                  /\ \A i \in 1..(Len(a) + Len(b)) : f[i] = ComposeRound(f[i - 1])
                  /\ ComposeOps(a, b) = f[Len(a) + Len(b)].out
<1>. DEFINE N == Len(a) + Len(b)
            first == [a |-> a, b |-> b, out |-> <<>>]
            Run(k, f) == /\ f[0] = first
                         /\ \A i \in 1..k : f[i] = ComposeRound(f[i - 1])
            S == {k \in 0..N : \E f : Run(k, f)}
            State(f) == [i \in 0..N |-> IF i = 0 THEN first ELSE ComposeRound(f[i - 1])]
<1>1. N \in Nat
    BY LenProperties
<1>2. ComposeOps(a, b) = (CHOOSE f : f = State(f))[N].out
    BY Zenon DEF ComposeOps
<1>. HIDE DEF N, first
<1>3. 0 \in S
    <2>1. Run(0, [i \in 0..0 |-> first])
        OBVIOUS
    <2>2. 0 \in 0..N
        BY <1>1
    <2>. HIDE DEF Run
    <2>. QED
        BY <2>1, <2>2
<1>4. ASSUME NEW k \in 0..(N - 1), k \in S
      PROVE  k + 1 \in S
    <2>1. PICK f : Run(k, f)
        BY <1>4
    <2>. DEFINE g == [i \in 0..(k + 1) |-> IF i = k + 1 THEN ComposeRound(f[k]) ELSE f[i]]
    <2>2. ASSUME NEW i \in 1..(k + 1) PROVE g[i] = ComposeRound(g[i - 1])
        <3>1. i - 1 \in 0..(k + 1) /\ i - 1 # k + 1 /\ g[i - 1] = f[i - 1]
            BY <1>1
        <3>2. CASE i = k + 1
            BY <3>1, <3>2
        <3>3. CASE i # k + 1
            <4>1. i \in 1..k /\ g[i] = f[i]
                BY <3>3
            <4>. QED
                BY <3>1, <4>1, <2>1
        <3>. QED
            BY <3>2, <3>3
    <2>3. g[0] = first
        BY <2>1, <1>1
    <2>4. Run(k + 1, g)
        <3>. HIDE DEF g
        <3>. QED
            BY <2>2, <2>3
    <2>5. k + 1 \in 0..N
        BY <1>1
    <2>. QED
        BY <2>4, <2>5
<1>5. N \in S
    <2>. HIDE DEF S
    <2>1. 0..N \subseteq S
        BY <1>1, <1>3, <1>4, Induction
    <2>. QED
        BY <1>1, <2>1
<1>6. PICK f : Run(N, f)
    BY <1>5
<1>. DEFINE h == [i \in 0..N |-> f[i]]
<1>7. h = State(h)
    <2>1. ASSUME NEW i \in 0..N
          PROVE  f[i] = IF i = 0 THEN first ELSE ComposeRound(h[i - 1])
        <3>1. CASE i = 0
            BY <3>1, <1>6
        <3>2. CASE i # 0
            <4>1. i \in 1..N /\ i - 1 \in 0..N
                BY <3>2, <1>1
            <4>. QED
                BY <3>2, <4>1, <1>6
        <3>. QED
            BY <3>1, <3>2
    <2>. QED
        BY <2>1
<1>8. PICK z : z = State(z) /\ ComposeOps(a, b) = z[N].out
    <2>. HIDE DEF h, State
    <2>1. (CHOOSE y : y = State(y)) = State(CHOOSE y : y = State(y))
        BY <1>7, Zenon
    <2>. QED
        BY <1>2, <2>1
<1>9. z[0] = first /\ \A i \in 1..N : z[i] = ComposeRound(z[i - 1])
    <2>1. \A i \in 0..N : z[i] = IF i = 0 THEN first ELSE ComposeRound(z[i - 1])
        BY <1>8, Zenon
    <2>2. 0 \in 0..N /\ \A i \in 1..N : i \in 0..N /\ i # 0
        BY <1>1
    <2>. QED
        BY <2>1, <2>2
<1>. QED
    BY <1>8, <1>9 DEF N, first

(***************************************************************************)
(* Compose(A, B) leads where A and then B lead.                            *)
(***************************************************************************)
LEMMA ComposeLeads ==
    ASSUME NEW t \in Text, NEW u \in Text, NEW v \in Text,
           NEW a, NEW b, Left(t, 0, a, u, 0), Left(u, 0, b, v, 0)
    PROVE  Left(t, 0, ComposeOps(a, b), v, 0)
<1>1. /\ a \in Seq(OpSet) /\ b \in Seq(OpSet) /\ Len(a) \in Nat /\ Len(b) \in Nat
      /\ Len(t) \in Nat /\ Len(u) \in Nat /\ Len(v) \in Nat
    BY LenProperties DEF Left, Text
<1>. DEFINE N == Len(a) + Len(b)
<1>2. PICK f : /\ f[0] = [a |-> a, b |-> b, out |-> <<>>]
               /\ \A i \in 1..N : f[i] = ComposeRound(f[i - 1])
               /\ ComposeOps(a, b) = f[N].out
    BY <1>1, ComposeStates
<1>. DEFINE S == {i \in 0..N : /\ Composing(t, u, v, f[i])
                               /\ Len(f[i].a) + Len(f[i].b) <= N - i}
<1>3. 0 \in S
    <2>1. <<>> \in Seq(OpSet) /\ Align(t, 0, <<>>, v, 0, 0, 0)
        BY AlignEmpty
    <2>2. Composing(t, u, v, f[0])
        BY <1>2, <2>1 DEF Composing
    <2>3. 0 \in 0..N /\ Len(f[0].a) + Len(f[0].b) <= N - 0
        BY <1>1, <1>2
    <2>. QED
        BY <2>2, <2>3
<1>4. ASSUME NEW i \in 0..(N - 1), i \in S
      PROVE  i + 1 \in S
    <2>1. /\ i \in Nat /\ i + 1 \in 1..N /\ i + 1 \in 0..N /\ (i + 1) - 1 = i
          /\ N \in Nat
        BY <1>1
    <2>2. f[i + 1] = ComposeRound(f[i])
        BY <2>1, <1>2
    <2>3. Composing(t, u, v, f[i]) /\ Len(f[i].a) + Len(f[i].b) <= N - i
        BY <1>4
    <2>4. /\ Composing(t, u, v, f[i + 1])
          /\ \/ Len(f[i + 1].a) + Len(f[i + 1].b) + 1 <= Len(f[i].a) + Len(f[i].b)
             \/ f[i + 1] = f[i] /\ f[i].a = <<>> /\ f[i].b = <<>>
        <3>1. ASSUME NEW s, Composing(t, u, v, s)
              PROVE  /\ Composing(t, u, v, ComposeRound(s))
                     /\ \/ Len(ComposeRound(s).a) + Len(ComposeRound(s).b) + 1
                                <= Len(s.a) + Len(s.b)
                        \/ ComposeRound(s) = s /\ s.a = <<>> /\ s.b = <<>>
            BY <3>1, ComposingRound
        <3>. QED
            BY <2>2, <2>3, <3>1, Zenon
    <2>5. Len(f[i + 1].a) + Len(f[i + 1].b) <= N - (i + 1)
        <3>1. /\ Len(f[i].a) \in Nat /\ Len(f[i].b) \in Nat
              /\ Len(f[i + 1].a) \in Nat /\ Len(f[i + 1].b) \in Nat
            BY <2>3, <2>4, ComposingSeq
        <3>2. CASE f[i + 1] = f[i] /\ f[i].a = <<>> /\ f[i].b = <<>>
            <4>1. Len(f[i + 1].a) = 0 /\ Len(f[i + 1].b) = 0
                BY <3>2
            <4>. QED
                BY <4>1, <2>1
        <3>3. CASE Len(f[i + 1].a) + Len(f[i + 1].b) + 1 <= Len(f[i].a) + Len(f[i].b)
            <4>1. ASSUME NEW c \in Nat, NEW d \in Nat, NEW e \in Nat, NEW h \in Nat,
                         c + d + 1 <= e + h, e + h <= N - i
                  PROVE  c + d <= N - (i + 1)
                BY <4>1, <2>1
            <4>. QED
                BY <2>3, <3>1, <3>3, <4>1
        <3>. QED
            BY <2>4, <3>2, <3>3
    <2>. QED
        BY <2>1, <2>4, <2>5
<1>5. N \in S
    <2>1. N \in Nat /\ N \in 0..N
        BY <1>1
    <2>. HIDE DEF S, N
    <2>. QED
        BY <1>3, <1>4, <2>1, Induction
<1>6. Composing(t, u, v, f[N]) /\ f[N].a = <<>> /\ f[N].b = <<>>
    <2>1. Composing(t, u, v, f[N]) /\ Len(f[N].a) + Len(f[N].b) <= N - N
        BY <1>5
    <2>2. /\ f[N].a \in Seq(OpSet) /\ Len(f[N].a) \in Nat
          /\ f[N].b \in Seq(OpSet) /\ Len(f[N].b) \in Nat
        BY <2>1, ComposingSeq
    <2>3. Len(f[N].a) = 0 /\ Len(f[N].b) = 0
        <3>1. ASSUME NEW c \in Nat, NEW d \in Nat, c + d <= N - N
              PROVE  c = 0 /\ d = 0
            BY <3>1, <1>1
        <3>. QED
            BY <2>1, <2>2, <3>1
    <2>. QED
        BY <2>1, <2>2, <2>3, EmptySeq
<1>. HIDE DEF N
<1>7. PICK p, q, r \in Nat : /\ Left(t, p, <<>>, u, q) /\ Left(u, q, <<>>, v, r)
                             /\ Align(t, 0, f[N].out, v, 0, p, r)
    BY <1>6 DEF Composing
<1>8. p = Len(t) /\ q = Len(u) /\ r = Len(v)
    BY <1>1, <1>7, AlignEmptyOnly DEF Left
<1>9. f[N].out \in Seq(OpSet)
    BY <1>6 DEF Composing
<1>. QED
    BY <1>2, <1>7, <1>8, <1>9 DEF Left

-----------------------------------------------------------------------------
(* Changesets *)

LEMMA NormalAddOp ==
    ASSUME NEW ops \in Seq(OpSet), NEW o \in OpSet, Normal(ops)
    PROVE  Normal(addOp(ops, o))
<1>. DEFINE z == addOp(ops, o)
            m == Len(ops)
<1>1. /\ m \in Nat
      /\ \A i \in 1..(m - 1) : ~ (ops[i].op = "insert" /\ ops[i + 1].op = "insert")
    BY LenProperties DEF Normal
<1>2. CASE z = Append(ops, o) /\ (ops = <<>> \/ Last(ops).op # o.op)
    <2>1. Len(z) = m + 1 /\ z[m + 1] = o /\ \A i \in 1..m : z[i] = ops[i]
        BY <1>1, <1>2, AppendProperties
    <2>2. m > 0 => Last(ops) = ops[m] /\ Last(ops).op # o.op
        <3>1. m > 0 => ops # <<>>
            BY EmptySeq
        <3>. QED
            BY <3>1, <1>2, FrontFacts
    <2>. HIDE DEF z, m
    <2>3. ASSUME NEW i \in 1..(Len(z) - 1)
          PROVE  ~ (z[i].op = "insert" /\ z[i + 1].op = "insert")
        <3>1. CASE i = m
            <4>1. z[i] = ops[m] /\ z[i + 1] = o /\ m > 0
                BY <3>1, <1>1, <2>1
            <4>. QED
                BY <4>1, <2>2
        <3>2. CASE i # m
            <4>1. i \in 1..(m - 1) /\ i \in 1..m /\ i + 1 \in 1..m
                BY <3>2, <1>1, <2>1
            <4>. QED
                BY <4>1, <1>1, <2>1
        <3>. QED
            BY <3>1, <3>2
    <2>. QED
        BY <2>3 DEF Normal, z
<1>3. CASE /\ ops # <<>> /\ Last(ops).op = o.op
           /\ z = Append(Front(ops), MergedOp(Last(ops), o))
    <2>. DEFINE f == Front(ops)
                M == MergedOp(Last(ops), o)
    <2>1. /\ f \in Seq(OpSet) /\ Len(f) = m - 1 /\ \A i \in 1..(m - 1) : f[i] = ops[i]
          /\ Last(ops) = ops[m] /\ Last(ops) \in OpSet /\ m > 0
        BY <1>3, FrontFacts
    <2>2. M \in OpSet /\ M.op = o.op
        BY <1>3, <2>1, MergedOpType
    <2>. HIDE DEF f, M, m
    <2>3. Len(z) = (m - 1) + 1 /\ z[(m - 1) + 1] = M /\ \A i \in 1..(m - 1) : z[i] = f[i]
        BY <1>3, <2>1, <2>2, AppendProperties DEF f, M
    <2>. HIDE DEF z
    <2>4. Len(z) = m /\ z[m].op = ops[m].op /\ \A i \in 1..(m - 1) : z[i] = ops[i]
        <3>1. (m - 1) + 1 = m
            BY <1>1
        <3>. QED
            BY <3>1, <1>3, <2>1, <2>2, <2>3
    <2>5. ASSUME NEW i \in 1..m PROVE z[i].op = ops[i].op
        <3>1. i # m => i \in 1..(m - 1)
            BY <1>1
        <3>. QED
            BY <3>1, <2>4
    <2>6. ASSUME NEW i \in 1..(Len(z) - 1)
          PROVE  ~ (z[i].op = "insert" /\ z[i + 1].op = "insert")
        <3>1. i \in 1..(m - 1) /\ i \in 1..m /\ i + 1 \in 1..m
            BY <1>1, <2>4
        <3>. QED
            BY <3>1, <1>1, <2>5
    <2>. QED
        BY <2>6 DEF Normal, z
<1>. QED
    BY <1>2, <1>3, AddOpCases

\* The changeset of no change.
LEMMA IdentityLeads ==
    ASSUME NEW t \in Text
    PROVE  Leads(t, Identity(Len(t)), t) /\ Normal(Identity(Len(t)).ops)
<1>. DEFINE n == Len(t)
            ops == IF n = 0 THEN <<>> ELSE <<Retain(n)>>
<1>1. n \in Nat
    BY LenProperties DEF Text
<1>2. Identity(n) = [oldLen |-> n, newLen |-> n, ops |-> ops]
    BY DEF Identity
<1>3. <<>> \in Seq(OpSet) /\ Align(t, 0, <<>>, t, 0, 0, 0)
    BY AlignEmpty
<1>4. ops \in Seq(OpSet) /\ Normal(ops) /\ Align(t, 0, ops, t, 0, n, n)
    <2>1. CASE n = 0
        BY <2>1, <1>3 DEF Normal
    <2>2. CASE n # 0
        <3>1. Retain(n) = [op |-> "retain", n |-> n]
            BY DEF Retain
        <3>2. Retain(n) \in OpSet
            BY <1>1, <2>2, <3>1 DEF OpSet
        <3>3. Seg(Retain(n), t, 0, n, t, 0, n)
            BY <1>1, <3>1 DEF Seg
        <3>4. Align(t, 0, addOp(<<>>, Retain(n)), t, 0, n, n)
            <4>. HIDE DEF n
            <4>. QED
                BY <1>1, <1>3, <3>2, <3>3, AlignAddOp
        <3>5. addOp(<<>>, Retain(n)) = <<Retain(n)>> /\ ops = <<Retain(n)>>
            BY <2>2 DEF addOp
        <3>6. <<Retain(n)>> \in Seq(OpSet) /\ Len(<<Retain(n)>>) = 1
            BY <3>2
        <3>7. Normal(<<Retain(n)>>)
            BY <3>6 DEF Normal
        <3>. QED
            BY <3>4, <3>5, <3>6, <3>7
    <2>. QED
        BY <2>1, <2>2
<1>. HIDE DEF ops
<1>. QED
    BY <1>2, <1>4 DEF Leads

\* Following leads on from where the other edit has led.
LEMMA FollowLeads ==
    ASSUME NEW X, NEW Y, NEW x \in Text, NEW w \in Text, X.newLen = Len(x),
           Written(x, FollowOps(X.ops, Y.ops), w, Len(x))
    PROVE  Leads(x, Follow(X, Y), w)
<1>. DEFINE ops == FollowOps(X.ops, Y.ops)
<1>1. Len(x) \in Nat /\ Len(w) \in Nat
    BY LenProperties DEF Text
<1>2. ops \in Seq(OpSet) /\ Align(x, 0, ops, w, 0, Len(x), Len(w))
    BY DEF Written
<1>. HIDE DEF ops
<1>3. TotalOf(Produced, ops) = Len(w)
    BY <1>1, <1>2, TotalProduced
<1>4. /\ Follow(X, Y).oldLen = X.newLen /\ Follow(X, Y).ops = ops
      /\ Follow(X, Y).newLen = TotalOf(Produced, ops)
    BY DEF Follow, ops
<1>. QED
    BY <1>2, <1>3, <1>4 DEF Leads

\* Composing leads where the second edit leads.
LEMMA ComposedLeads ==
    ASSUME NEW X, NEW Y, NEW t \in Text, NEW u \in Text, NEW v \in Text,
           Leads(t, X, u), Leads(u, Y, v)
    PROVE  Leads(t, Compose(X, Y), v)
<1>1. Left(t, 0, ComposeOps(X.ops, Y.ops), v, 0)
    BY ComposeLeads DEF Leads, Left
<1>2. /\ Compose(X, Y).oldLen = X.oldLen /\ Compose(X, Y).newLen = Y.newLen
      /\ Compose(X, Y).ops = ComposeOps(X.ops, Y.ops)
    BY DEF Compose
<1>. QED
    BY <1>1, <1>2 DEF Leads, Left

-----------------------------------------------------------------------------
(* The diff *)

\* A step of the way back looks only at cells before its own.
LEMMA BackLocal ==
    ASSUME NEW old, NEW new, NEW dp, NEW f, NEW g, NEW i \in Nat, NEW j \in Nat,
           \A a \in 0..i, b \in 0..j :
               a + b < i + j => f[<<a, b>>] = g[<<a, b>>]
    PROVE  BackStep(old, new, dp, f, i, j) = BackStep(old, new, dp, g, i, j)
<1>1. i > 0 => f[<<i - 1, j>>] = g[<<i - 1, j>>]
    <2>1. i > 0 => i - 1 \in 0..i /\ j \in 0..j /\ (i - 1) + j < i + j
        OBVIOUS
    <2>. QED
        BY <2>1
<1>2. j > 0 => f[<<i, j - 1>>] = g[<<i, j - 1>>]
    <2>1. j > 0 => i \in 0..i /\ j - 1 \in 0..j /\ i + (j - 1) < i + j
        OBVIOUS
    <2>. QED
        BY <2>1
<1>3. i > 0 /\ j > 0 => f[<<i - 1, j - 1>>] = g[<<i - 1, j - 1>>]
    <2>1. i > 0 /\ j > 0 =>
              i - 1 \in 0..i /\ j - 1 \in 0..j /\ (i - 1) + (j - 1) < i + j
        OBVIOUS
    <2>. QED
        BY <2>1
<1>. DEFINE same == i > 0 /\ j > 0 /\ old[i] = new[j]
            ins == j > 0 /\ (i = 0 \/ (old[i] # new[j]
                             /\ dp[<<i, j - 1>>] >= dp[<<i - 1, j>>]))
            B(e) == BackStep(old, new, dp, e, i, j)
<1>4. CASE i = 0 /\ j = 0
    <2>1. \A e : B(e) = <<>>
        BY <1>4 DEF BackStep
    <2>. QED
        BY <2>1
<1>5. CASE ~ (i = 0 /\ j = 0) /\ same
    <2>1. \A e : B(e) = addOp(e[<<i - 1, j - 1>>], Retain(1))
        BY <1>5 DEF BackStep
    <2>. QED
        BY <1>3, <1>5, <2>1
<1>6. CASE ~ (i = 0 /\ j = 0) /\ ~ same /\ ins
    <2>1. \A e : B(e) = addOp(e[<<i, j - 1>>], Insert(<<new[j]>>))
        BY <1>6 DEF BackStep
    <2>. QED
        BY <1>2, <1>6, <2>1
<1>7. CASE ~ (i = 0 /\ j = 0) /\ ~ same /\ ~ ins
    <2>1. \A e : B(e) = addOp(e[<<i - 1, j>>], Delete(1))
        BY <1>7 DEF BackStep
    <2>2. i > 0
        BY <1>7
    <2>. QED
        BY <1>1, <2>1, <2>2
<1>. QED
    BY <1>4, <1>5, <1>6, <1>7

\* Cells in the order of their diagonals.
LEMMA CellFacts ==
    ASSUME NEW old \in Text, NEW new \in Text
    PROVE  /\ Len(old) \in Nat /\ Len(new) \in Nat
           /\ \A i \in 0..Len(old), j \in 0..Len(new) :
                  <<i, j>> \in Cells(old, new)
           /\ \A c \in Cells(old, new) : /\ c[1] \in 0..Len(old) /\ c[2] \in 0..Len(new)
                                         /\ c = <<c[1], c[2]>>
BY LenProperties DEF Cells, Text

\* f is right at the cells of the first k diagonals.
BackTo(old, new, dp, f, k) ==
    \A i \in 0..Len(old), j \in 0..Len(new) :
        i + j <= k => f[<<i, j>>] = BackStep(old, new, dp, f, i, j)

LEMMA BackStates ==
    ASSUME NEW old \in Text, NEW new \in Text, NEW dp
    PROVE  \E f : /\ BackTo(old, new, dp, f, Len(old) + Len(new))
                  /\ Backtrack(old, new, dp) = f[<<Len(old), Len(new)>>]
<1>. DEFINE m == Len(old)
            n == Len(new)
            D == Cells(old, new)
            Step(f, i, j) == BackStep(old, new, dp, f, i, j)
            S == {k \in 0..(m + n) : \E f : BackTo(old, new, dp, f, k)}
            State(f) == [c \in D |-> Step(f, c[1], c[2])]
<1>1. /\ m \in Nat /\ n \in Nat /\ m + n \in Nat
      /\ \A i \in 0..m, j \in 0..n : <<i, j>> \in D
      /\ \A c \in D : c[1] \in 0..m /\ c[2] \in 0..n /\ c = <<c[1], c[2]>>
    BY CellFacts
<1>2. Backtrack(old, new, dp) = (CHOOSE f : f = State(f))[<<m, n>>]
    BY Zenon DEF Backtrack
<1>3. \A f, k : BackTo(old, new, dp, f, k) <=>
          \A i \in 0..m, j \in 0..n : i + j <= k => f[<<i, j>>] = Step(f, i, j)
    BY DEF BackTo
<1>4. ASSUME NEW f, NEW g, NEW i \in 0..m, NEW j \in 0..n,
             \A a \in 0..m, b \in 0..n :
                 a + b < i + j => f[<<a, b>>] = g[<<a, b>>]
      PROVE  Step(f, i, j) = Step(g, i, j)
    <2>1. i \in Nat /\ j \in Nat /\ 0..i \subseteq 0..m /\ 0..j \subseteq 0..n
        BY <1>1
    <2>. QED
        BY <1>4, <2>1, BackLocal
<1>. HIDE DEF m, n, D, Step
<1>5. 0 \in S
    <2>. DEFINE g == [c \in D |-> Step(<<>>, c[1], c[2])]
    <2>1. ASSUME NEW i \in 0..m, NEW j \in 0..n, i + j <= 0
          PROVE  g[<<i, j>>] = Step(g, i, j)
        <3>1. <<i, j>> \in D /\ <<i, j>>[1] = i /\ <<i, j>>[2] = j
            BY <1>1
        <3>2. g[<<i, j>>] = Step(<<>>, <<i, j>>[1], <<i, j>>[2])
            BY <3>1, Zenon
        <3>3. \A a \in 0..m, b \in 0..n : ~ (a + b < i + j)
            BY <1>1, <2>1
        <3>4. Step(<<>>, i, j) = Step(g, i, j)
            <4>. HIDE DEF g
            <4>. QED
                BY <1>4, <3>3
        <3>. QED
            BY <3>1, <3>2, <3>4
    <2>2. 0 \in 0..(m + n)
        BY <1>1
    <2>3. BackTo(old, new, dp, g, 0)
        <3>. HIDE DEF g
        <3>. QED
            BY <1>3, <2>1
    <2>. QED
        BY <2>2, <2>3
<1>6. ASSUME NEW k \in 0..((m + n) - 1), k \in S
      PROVE  k + 1 \in S
    <2>1. PICK f : BackTo(old, new, dp, f, k)
        BY <1>6
    <2>2. \A i \in 0..m, j \in 0..n : i + j <= k => f[<<i, j>>] = Step(f, i, j)
        BY <1>3, <2>1
    <2>. DEFINE g == [c \in D |-> Step(f, c[1], c[2])]
    <2>3. ASSUME NEW i \in 0..m, NEW j \in 0..n
          PROVE  g[<<i, j>>] = Step(f, i, j)
        <3>1. <<i, j>> \in D /\ <<i, j>>[1] = i /\ <<i, j>>[2] = j
            BY <1>1
        <3>2. g[<<i, j>>] = Step(f, <<i, j>>[1], <<i, j>>[2])
            BY <3>1, Zenon
        <3>. QED
            BY <3>1, <3>2
    <2>. HIDE DEF g
    <2>4. ASSUME NEW i \in 0..m, NEW j \in 0..n, i + j <= k + 1
          PROVE  g[<<i, j>>] = Step(g, i, j)
        <3>1. ASSUME NEW a \in 0..m, NEW b \in 0..n, a + b < i + j
              PROVE  f[<<a, b>>] = g[<<a, b>>]
            <4>1. a + b <= k
                BY <1>1, <2>4, <3>1
            <4>. QED
                BY <4>1, <2>2, <2>3
        <3>2. Step(f, i, j) = Step(g, i, j)
            BY <1>4, <3>1
        <3>. QED
            BY <2>3, <3>2
    <2>5. k + 1 \in 0..(m + n)
        BY <1>1
    <2>6. BackTo(old, new, dp, g, k + 1)
        BY <1>3, <2>4
    <2>. QED
        BY <2>5, <2>6
<1>7. m + n \in S
    <2>1. m + n \in 0..(m + n)
        BY <1>1
    <2>. HIDE DEF S
    <2>2. 0..(m + n) \subseteq S
        BY <1>1, <1>5, <1>6, Induction
    <2>. QED
        BY <2>1, <2>2
<1>8. PICK f : BackTo(old, new, dp, f, m + n)
    BY <1>7
<1>9. \A i \in 0..m, j \in 0..n : f[<<i, j>>] = Step(f, i, j)
    <2>1. \A i \in 0..m, j \in 0..n : i + j <= m + n
        BY <1>1
    <2>. QED
        BY <1>3, <1>8, <2>1
<1>. DEFINE h == [c \in D |-> f[c]]
<1>10. h = State(h)
    <2>1. ASSUME NEW c \in D PROVE f[c] = Step(h, c[1], c[2])
        <3>1. c[1] \in 0..m /\ c[2] \in 0..n /\ c = <<c[1], c[2]>>
            BY <1>1
        <3>2. f[c] = Step(f, c[1], c[2])
            <4>1. f[<<c[1], c[2]>>] = Step(f, c[1], c[2])
                BY <3>1, <1>9
            <4>. QED
                BY <3>1, <4>1, Zenon
        <3>3. \A a \in 0..m, b \in 0..n : f[<<a, b>>] = h[<<a, b>>]
            BY <1>1
        <3>. HIDE DEF h
        <3>4. Step(f, c[1], c[2]) = Step(h, c[1], c[2])
            BY <3>1, <3>3, <1>4
        <3>. QED
            BY <3>2, <3>4
    <2>. QED
        BY <2>1, Zenon
<1>11. PICK z : z = State(z) /\ Backtrack(old, new, dp) = z[<<m, n>>]
    <2>. HIDE DEF h, State
    <2>1. (CHOOSE y : y = State(y)) = State(CHOOSE y : y = State(y))
        BY <1>10, Zenon
    <2>. QED
        BY <1>2, <2>1
<1>12. ASSUME NEW i \in 0..m, NEW j \in 0..n PROVE z[<<i, j>>] = Step(z, i, j)
    <2>1. <<i, j>> \in D /\ <<i, j>>[1] = i /\ <<i, j>>[2] = j
        BY <1>1
    <2>2. z[<<i, j>>] = Step(z, <<i, j>>[1], <<i, j>>[2])
        BY <1>11, <2>1, Zenon
    <2>. QED
        BY <2>1, <2>2
<1>13. BackTo(old, new, dp, z, m + n)
    BY <1>3, <1>12
<1>. QED
    BY <1>11, <1>13 DEF m, n

\* The way back to one cell is aligned with the two prefixes.
Returned(old, new, ops, i, j) ==
    /\ ops \in Seq(OpSet) /\ Normal(ops)
    /\ Align(old, 0, ops, new, 0, i, j)

LEMMA ReturnedAdd ==
    ASSUME NEW old, NEW new, NEW ops, NEW i \in Nat, NEW j \in Nat,
           Returned(old, new, ops, i, j), NEW o \in OpSet, NEW i2, NEW j2,
           Seg(o, old, i, i2, new, j, j2)
    PROVE  Returned(old, new, addOp(ops, o), i2, j2)
BY AlignAddOp, AddOpType, NormalAddOp DEF Returned

LEMMA BackStepLeads ==
    ASSUME NEW old \in Text, NEW new \in Text, NEW dp, NEW f,
           NEW i \in 0..Len(old), NEW j \in 0..Len(new),
           \A a \in 0..i, b \in 0..j :
               a + b < i + j => Returned(old, new, f[<<a, b>>], a, b)
    PROVE  Returned(old, new, BackStep(old, new, dp, f, i, j), i, j)
<1>0. Len(old) \in Nat /\ Len(new) \in Nat /\ i \in Nat /\ j \in Nat
    BY LenProperties DEF Text
<1>1. i > 0 => i - 1 \in Nat /\ Returned(old, new, f[<<i - 1, j>>], i - 1, j)
    <2>1. i > 0 => i - 1 \in 0..i /\ j \in 0..j /\ (i - 1) + j < i + j
        BY <1>0
    <2>. QED
        BY <2>1
<1>2. j > 0 => j - 1 \in Nat /\ Returned(old, new, f[<<i, j - 1>>], i, j - 1)
    <2>1. j > 0 => i \in 0..i /\ j - 1 \in 0..j /\ i + (j - 1) < i + j
        BY <1>0
    <2>. QED
        BY <2>1
<1>3. i > 0 /\ j > 0 => Returned(old, new, f[<<i - 1, j - 1>>], i - 1, j - 1)
    <2>1. i > 0 /\ j > 0 =>
              i - 1 \in 0..i /\ j - 1 \in 0..j /\ (i - 1) + (j - 1) < i + j
        BY <1>0
    <2>. QED
        BY <2>1
<1>. DEFINE same == i > 0 /\ j > 0 /\ old[i] = new[j]
            ins == j > 0 /\ (i = 0 \/ (old[i] # new[j]
                             /\ dp[<<i, j - 1>>] >= dp[<<i - 1, j>>]))
            back == BackStep(old, new, dp, f, i, j)
<1>4. CASE i = 0 /\ j = 0
    <2>1. back = <<>>
        BY <1>4 DEF BackStep
    <2>2. Returned(old, new, <<>>, 0, 0)
        <3>1. <<>> \in Seq(OpSet) /\ Align(old, 0, <<>>, new, 0, 0, 0)
            BY AlignEmpty
        <3>2. Normal(<<>>)
            <4>1. Len(<<>>) = 0
                OBVIOUS
            <4>. QED
                BY <4>1 DEF Normal
        <3>. QED
            BY <3>1, <3>2 DEF Returned
    <2>. QED
        BY <1>4, <2>1, <2>2
<1>5. CASE ~ (i = 0 /\ j = 0) /\ same
    <2>1. back = addOp(f[<<i - 1, j - 1>>], Retain(1))
        BY <1>5 DEF BackStep
    <2>2. Retain(1) = [op |-> "retain", n |-> 1]
        BY DEF Retain
    <2>3. Retain(1) \in OpSet
        BY <2>2 DEF OpSet
    <2>4. (i - 1) + 1 = i /\ (j - 1) + 1 = j /\ 1..1 = {1}
        BY <1>0
    <2>5. Seg(Retain(1), old, i - 1, i, new, j - 1, j)
        BY <1>5, <2>2, <2>4 DEF Seg
    <2>. QED
        BY <1>1, <1>2, <1>3, <1>5, <2>1, <2>3, <2>5, ReturnedAdd
<1>6. CASE ~ (i = 0 /\ j = 0) /\ ~ same /\ ins
    <2>. DEFINE s == <<new[j]>>
                o == Insert(s)
    <2>1. back = addOp(f[<<i, j - 1>>], o)
        BY <1>6 DEF BackStep
    <2>2. new[j] \in Nat
        <3>1. j \in 1..Len(new)
            BY <1>0, <1>6
        <3>. QED
            BY <3>1, ElementOfSeq DEF Text
    <2>3. s \in Text \ {<<>>} /\ Len(s) = 1 /\ s[1] = new[j]
        BY <2>2 DEF Text
    <2>. HIDE DEF s
    <2>4. o = [op |-> "insert", chars |-> s]
        BY DEF Insert
    <2>5. o \in OpSet
        BY <2>3, <2>4 DEF OpSet
    <2>6. (j - 1) + 1 = j /\ 1..1 = {1}
        BY <1>0
    <2>8. \A k \in 1..Len(s) : new[(j - 1) + k] = s[k]
        BY <2>3, <2>6
    <2>9. o.op = "insert" /\ o.chars = s /\ j = (j - 1) + Len(s)
        BY <2>3, <2>4, <2>6
    <2>7. Seg(o, old, i, i, new, j - 1, j)
        BY <2>8, <2>9 DEF Seg
    <2>. HIDE DEF o
    <2>. QED
        BY <1>0, <1>2, <1>6, <2>1, <2>5, <2>7, ReturnedAdd
<1>7. CASE ~ (i = 0 /\ j = 0) /\ ~ same /\ ~ ins
    <2>1. back = addOp(f[<<i - 1, j>>], Delete(1))
        BY <1>7 DEF BackStep
    <2>2. i > 0
        BY <1>0, <1>7
    <2>3. Delete(1) = [op |-> "delete", n |-> 1]
        BY DEF Delete
    <2>4. Delete(1) \in OpSet
        BY <2>3 DEF OpSet
    <2>5. (i - 1) + 1 = i
        BY <1>0
    <2>6. Seg(Delete(1), old, i - 1, i, new, j, j)
        BY <2>3, <2>5 DEF Seg
    <2>. QED
        BY <1>0, <1>1, <2>1, <2>2, <2>4, <2>6, ReturnedAdd
<1>. QED
    BY <1>4, <1>5, <1>6, <1>7

(***************************************************************************)
(* Whatever the table says, the way back through it leads from the old     *)
(* text to the new one.                                                    *)
(***************************************************************************)
LEMMA BacktrackLeads ==
    ASSUME NEW old \in Text, NEW new \in Text, NEW dp
    PROVE  Returned(old, new, Backtrack(old, new, dp), Len(old), Len(new))
<1>. DEFINE m == Len(old)
            n == Len(new)
<1>1. m \in Nat /\ n \in Nat /\ m + n \in Nat
    BY LenProperties DEF Text
<1>2. PICK f : /\ BackTo(old, new, dp, f, m + n)
               /\ Backtrack(old, new, dp) = f[<<m, n>>]
    BY BackStates
<1>3. ASSUME NEW i \in 0..m, NEW j \in 0..n
      PROVE  f[<<i, j>>] = BackStep(old, new, dp, f, i, j)
    <2>1. i + j <= m + n
        BY <1>1
    <2>. QED
        BY <1>2, <2>1 DEF BackTo
<1>. DEFINE S == {k \in 0..(m + n) : \A i \in 0..m, j \in 0..n :
                      i + j < k => Returned(old, new, f[<<i, j>>], i, j)}
<1>. HIDE DEF m, n
<1>4. 0 \in S
    BY <1>1
<1>5. ASSUME NEW k \in 0..(m + n), \A i \in 0..m, j \in 0..n :
                 i + j < k => Returned(old, new, f[<<i, j>>], i, j),
             NEW i \in 0..m, NEW j \in 0..n, i + j < k + 1
      PROVE  Returned(old, new, f[<<i, j>>], i, j)
    <2>1. ASSUME NEW a \in 0..i, NEW b \in 0..j, a + b < i + j
          PROVE  Returned(old, new, f[<<a, b>>], a, b)
        <3>1. a \in 0..m /\ b \in 0..n /\ a + b < k
            BY <1>1, <1>5, <2>1
        <3>. QED
            BY <3>1, <1>5
    <2>2. Returned(old, new, BackStep(old, new, dp, f, i, j), i, j)
        BY <2>1, BackStepLeads DEF m, n
    <2>. QED
        BY <2>2, <1>3
<1>6. ASSUME NEW k \in 0..((m + n) - 1), k \in S PROVE k + 1 \in S
    <2>1. k + 1 \in 0..(m + n) /\ k \in 0..(m + n)
        BY <1>1
    <2>2. \A i \in 0..m, j \in 0..n :
              i + j < k => Returned(old, new, f[<<i, j>>], i, j)
        BY <1>6
    <2>. QED
        BY <2>1, <2>2, <1>5
<1>7. m + n \in S
    <2>1. m + n \in 0..(m + n)
        BY <1>1
    <2>. HIDE DEF S
    <2>2. 0..(m + n) \subseteq S
        BY <1>1, <1>4, <1>6, Induction
    <2>. QED
        BY <2>1, <2>2
<1>8. Returned(old, new, f[<<m, n>>], m, n)
    <2>1. \A i \in 0..m, j \in 0..n :
              i + j < m + n => Returned(old, new, f[<<i, j>>], i, j)
        BY <1>7
    <2>2. m + n \in 0..(m + n) /\ m \in 0..m /\ n \in 0..n /\ m + n < (m + n) + 1
        BY <1>1
    <2>. HIDE DEF S
    <2>. QED
        BY <2>1, <2>2, <1>5
<1>. QED
    BY <1>2, <1>8 DEF m, n

LEMMA DiffLeads ==
    ASSUME NEW old \in Text, NEW new \in Text
    PROVE  Leads(old, DiffToChangeset(old, new), new)
BY BacktrackLeads, Zenon DEF Leads, DiffToChangeset, Returned

LEMMA DiffNormal ==
    ASSUME NEW old \in Text, NEW new \in Text
    PROVE  Normal(DiffToChangeset(old, new).ops)
BY BacktrackLeads, Zenon DEF DiffToChangeset, Returned

-----------------------------------------------------------------------------
(* Recursive functions, and changesets of any texts *)

\* A recursion over 1..n whose step F stays in V has a solution.
StaysIn(n, V, F) == \A i \in 1..n, v \in V : F[<<i, v>>] \in V
Solvable(n, V, first, F) ==
    \E g \in [0..n -> V] :
        g[0] = first /\ \A i \in 1..n : g[i] = F[<<i, g[i - 1]>>]

LEMMA Recursion ==
    ASSUME NEW n \in Nat, NEW V, NEW first \in V, NEW F, StaysIn(n, V, F)
    PROVE  Solvable(n, V, first, F)
<1>. USE DEF StaysIn, Solvable
<1>. DEFINE Run(g, k) == g[0] = first /\ \A i \in 1..k : g[i] = F[<<i, g[i - 1]>>]
            S == {k \in 0..n : \E g \in [0..n -> V] : Run(g, k)}
<1>1. 0 \in S
    <2>1. [i \in 0..n |-> first] \in [0..n -> V]
        OBVIOUS
    <2>2. Run([i \in 0..n |-> first], 0)
        OBVIOUS
    <2>. HIDE DEF Run
    <2>. QED
        BY <2>1, <2>2
<1>2. ASSUME NEW k \in 0..(n - 1), k \in S PROVE k + 1 \in S
    <2>1. PICK g \in [0..n -> V] : Run(g, k)
        BY <1>2
    <2>2. k + 1 \in 1..n /\ k \in 0..n /\ k + 1 \in 0..n /\ g[k] \in V
        OBVIOUS
    <2>. DEFINE v == F[<<k + 1, g[k]>>]
                h == [g EXCEPT ![k + 1] = v]
    <2>3. v \in V
        BY <2>2
    <2>. HIDE DEF v
    <2>4. h \in [0..n -> V] /\ h[k + 1] = v
          /\ \A i \in 0..n : i # k + 1 => h[i] = g[i]
        BY <2>2, <2>3
    <2>. HIDE DEF h
    <2>5. ASSUME NEW i \in 1..(k + 1) PROVE h[i] = F[<<i, h[i - 1]>>]
        <3>1. i - 1 \in 0..n /\ i - 1 # k + 1 /\ h[i - 1] = g[i - 1]
            BY <2>2, <2>4
        <3>2. CASE i = k + 1
            <4>1. i - 1 = k
                BY <3>2
            <4>. QED
                BY <3>1, <3>2, <4>1, <2>4 DEF v
        <3>3. CASE i # k + 1
            <4>1. i \in 1..k /\ i \in 0..n
                BY <3>3
            <4>. QED
                BY <3>1, <3>3, <4>1, <2>1, <2>4
        <3>. QED
            BY <3>2, <3>3
    <2>6. h[0] = first
        <3>1. 0 # k + 1 /\ 0 \in 0..n
            OBVIOUS
        <3>. QED
            BY <3>1, <2>1, <2>4
    <2>. QED
        BY <2>2, <2>4, <2>5, <2>6
<1>3. n \in S
    <2>1. n \in 0..n
        OBVIOUS
    <2>. HIDE DEF S
    <2>. QED
        BY <1>1, <1>2, <2>1, Induction
<1>. QED
    BY <1>3

\* An op of any kind is the op of some segment.
LEMMA AnySeg ==
    ASSUME NEW o \in OpSet
    PROVE  \E t, u, p1, q1 : Seg(o, t, 0, p1, u, 0, q1)
<1>1. CASE o.op = "retain"
    <2>1. o.n \in Nat
        BY <1>1, OpFacts
    <2>. DEFINE t == [j \in 1..o.n |-> 0]
    <2>2. \A j \in 1..o.n : t[0 + j] = t[0 + j]
        OBVIOUS
    <2>3. o.n = 0 + o.n
        BY <2>1
    <2>4. Seg(o, t, 0, o.n, t, 0, o.n)
        BY <1>1, <2>2, <2>3 DEF Seg
    <2>. QED
        BY <2>4
<1>2. CASE o.op = "insert"
    <2>1. Len(o.chars) \in Nat
        BY <1>2, OpFacts
    <2>2. \A j \in 1..Len(o.chars) : 0 + j = j
        BY <2>1
    <2>3. Len(o.chars) = 0 + Len(o.chars)
        BY <2>1
    <2>4. Seg(o, o.chars, 0, 0, o.chars, 0, Len(o.chars))
        BY <1>2, <2>2, <2>3 DEF Seg
    <2>. QED
        BY <2>4
<1>3. CASE o.op = "delete"
    <2>1. o.n = 0 + o.n
        BY <1>3, OpFacts
    <2>2. Seg(o, o, 0, o.n, o, 0, 0)
        BY <1>3, <2>1 DEF Seg
    <2>. QED
        BY <2>2
<1>. QED
    BY <1>1, <1>2, <1>3, OpFacts

LEMMA PartType ==
    ASSUME NEW o \in OpSet, NEW n \in Nat, 0 < n, n <= Size(o)
    PROVE  /\ Part(o, n) \in OpSet /\ Part(o, n).op = o.op
           /\ n # Size(o) => Remainder(o, n) \in OpSet /\ Remainder(o, n).op = o.op
<1>1. PICK t, u, p1, q1 : Seg(o, t, 0, p1, u, 0, q1)
    BY AnySeg
<1>2. Size(o) \in Nat
    BY OpFacts DEF Size
<1>3. n # Size(o) => n < Size(o)
    BY <1>2
<1>. QED
    BY <1>1, <1>3, PartSeg, RemainderSeg

LEMMA ConsumeType ==
    ASSUME NEW ops \in Seq(OpSet), ops # <<>>,
           NEW n \in Nat, 0 < n, n <= Size(Head(ops))
    PROVE  consume(ops, n) \in Seq(OpSet)
<1>. DEFINE o == Head(ops)
<1>1. o \in OpSet /\ Tail(ops) \in Seq(OpSet)
    BY HeadTail
<1>2. CASE n = Size(o)
    <2>1. consume(ops, n) = Tail(ops)
        BY <1>2 DEF consume, Size
    <2>. QED
        BY <1>1, <2>1
<1>3. CASE n # Size(o)
    <2>1. consume(ops, n) = <<Remainder(o, n)>> \o Tail(ops)
        BY <1>3 DEF consume, Size, Remainder
    <2>2. Remainder(o, n) \in OpSet
        BY <1>1, <1>3, PartType
    <2>. QED
        BY <1>1, <2>1, <2>2, InFront
<1>. QED
    BY <1>2, <1>3

LEMMA EmptyOps == <<>> \in Seq(OpSet) /\ Normal(<<>>)
<1>1. <<>> \in Seq(OpSet) /\ Len(<<>>) = 0
    OBVIOUS
<1>. QED
    BY <1>1 DEF Normal

\* The lesser of two numbers.
LEMMA Lesser ==
    ASSUME NEW m \in Nat, NEW n \in Nat, m > 0, n > 0
    PROVE  LET k == IF m < n THEN m ELSE n
           IN  k \in Nat /\ 0 < k /\ k <= m /\ k <= n
OBVIOUS

\* What the loop of Follow handles is made of ops, and its result is normal.
Following(s) == /\ s.a \in Seq(OpSet) /\ s.b \in Seq(OpSet)
                /\ s.out \in Seq(OpSet) /\ Normal(s.out)

LEMMA FollowingRound ==
    ASSUME NEW s, Following(s)
    PROVE  Following(FollowRound(s))
<1>. DEFINE aFirst == IsInsert(s.a) /\ (IsInsert(s.b) =>
                           LexLeq(Head(s.a).chars, Head(s.b).chars))
            n == IF Head(s.a).n < Head(s.b).n THEN Head(s.a).n ELSE Head(s.b).n
<1>1. CASE aFirst
    <2>. DEFINE o == Retain(Len(Head(s.a).chars))
    <2>1. FollowRound(s) = [a |-> Tail(s.a), b |-> s.b, out |-> addOp(s.out, o)]
        BY <1>1, FollowRounds
    <2>2. s.a # <<>> /\ Head(s.a).chars \in Text /\ Head(s.a).chars # <<>>
        BY <1>1, InsertFacts DEF Following
    <2>3. o \in OpSet
        <3>1. Len(Head(s.a).chars) \in Nat \ {0}
            BY <2>2, LenProperties, EmptySeq DEF Text
        <3>. QED
            BY <3>1 DEF Retain, OpSet
    <2>4. Tail(s.a) \in Seq(OpSet)
        BY <2>2, HeadTail DEF Following
    <2>5. addOp(s.out, o) \in Seq(OpSet) /\ Normal(addOp(s.out, o))
        BY <2>3, AddOpType, NormalAddOp DEF Following
    <2>. HIDE DEF o
    <2>. QED
        BY <2>1, <2>4, <2>5 DEF Following
<1>2. CASE ~ aFirst /\ IsInsert(s.b)
    <2>1. FollowRound(s) = [a |-> s.a, b |-> Tail(s.b), out |-> addOp(s.out, Head(s.b))]
        BY <1>2, FollowRounds
    <2>2. s.b # <<>>
        BY <1>2 DEF IsInsert
    <2>3. Head(s.b) \in OpSet /\ Tail(s.b) \in Seq(OpSet)
        BY <2>2, HeadTail DEF Following
    <2>4. addOp(s.out, Head(s.b)) \in Seq(OpSet) /\ Normal(addOp(s.out, Head(s.b)))
        BY <2>3, AddOpType, NormalAddOp DEF Following
    <2>. QED
        BY <2>1, <2>3, <2>4 DEF Following
<1>3. CASE ~ IsInsert(s.a) /\ ~ IsInsert(s.b) /\ (s.a = <<>> \/ s.b = <<>>)
    <2>1. FollowRound(s) = s
        BY <1>3, FollowRounds
    <2>. QED
        BY <2>1
<1>4. CASE ~ IsInsert(s.a) /\ ~ IsInsert(s.b) /\ s.a # <<>> /\ s.b # <<>>
    <2>1. FollowRound(s) =
              [a |-> consume(s.a, n), b |-> consume(s.b, n),
               out |-> addOps(s.out, Rebased(Head(s.a), Head(s.b), n))]
        BY <1>4, FollowRounds
    <2>2. Head(s.a) \in OpSet /\ Head(s.b) \in OpSet
        BY <1>4, HeadTail DEF Following
    <2>3. Head(s.a).op # "insert" /\ Head(s.b).op # "insert"
        BY <1>4 DEF IsInsert
    <2>4. /\ Head(s.a).n \in Nat /\ Head(s.a).n > 0
          /\ Head(s.b).n \in Nat /\ Head(s.b).n > 0
          /\ Head(s.b).op \in {"retain", "delete"}
        BY <2>2, <2>3, OpFacts
    <2>5. n \in Nat /\ 0 < n /\ n <= Head(s.a).n /\ n <= Head(s.b).n
        BY <2>4, Lesser
    <2>. HIDE DEF n
    <2>6. consume(s.a, n) \in Seq(OpSet) /\ consume(s.b, n) \in Seq(OpSet)
        BY <1>4, <2>3, <2>5, ConsumeType DEF Following, Size
    <2>7. [op |-> Head(s.b).op, n |-> n] \in OpSet
        BY <2>4, <2>5 DEF OpSet
    <2>8. addOps(s.out, Rebased(Head(s.a), Head(s.b), n)) \in Seq(OpSet)
          /\ Normal(addOps(s.out, Rebased(Head(s.a), Head(s.b), n)))
        <3>. DEFINE o == [op |-> Head(s.b).op, n |-> n]
        <3>1. addOp(s.out, o) \in Seq(OpSet) /\ Normal(addOp(s.out, o))
            BY <2>7, AddOpType, NormalAddOp DEF Following
        <3>2. <<o>> # <<>> /\ <<o>>[1] = o
            OBVIOUS
        <3>. HIDE DEF o
        <3>3. Rebased(Head(s.a), Head(s.b), n) = <<>>
              \/ Rebased(Head(s.a), Head(s.b), n) = <<o>>
            BY DEF Rebased, o
        <3>. QED
            BY <3>1, <3>2, <3>3 DEF addOps, Following
    <2>. QED
        BY <2>1, <2>6, <2>8 DEF Following
<1>. QED
    BY <1>1, <1>2, <1>3, <1>4

LEMMA FollowOpsType ==
    ASSUME NEW a \in Seq(OpSet), NEW b \in Seq(OpSet)
    PROVE  FollowOps(a, b) \in Seq(OpSet) /\ Normal(FollowOps(a, b))
<1>. DEFINE N == Len(a) + Len(b)
<1>1. PICK f : /\ f[0] = [a |-> a, b |-> b, out |-> <<>>]
               /\ \A i \in 1..N : f[i] = FollowRound(f[i - 1])
               /\ FollowOps(a, b) = f[N].out
    BY FollowStates
<1>2. N \in Nat
    BY LenProperties
<1>. HIDE DEF N
<1>. DEFINE S == {i \in 0..N : Following(f[i])}
<1>3. 0 \in S
    <2>1. f[0].a = a /\ f[0].b = b /\ f[0].out = <<>>
        BY <1>1
    <2>2. Following(f[0])
        BY <2>1, EmptyOps DEF Following
    <2>. QED
        BY <2>2, <1>2
<1>4. ASSUME NEW i \in 0..(N - 1), i \in S PROVE i + 1 \in S
    <2>1. i + 1 \in 1..N /\ (i + 1) - 1 = i /\ i + 1 \in 0..N
        BY <1>2
    <2>2. f[i + 1] = FollowRound(f[i])
        BY <2>1, <1>1
    <2>. QED
        BY <1>4, <2>1, <2>2, FollowingRound
<1>5. N \in S
    <2>1. N \in 0..N
        BY <1>2
    <2>. HIDE DEF S
    <2>. QED
        BY <1>2, <1>3, <1>4, <2>1, Induction
<1>. QED
    BY <1>1, <1>5 DEF Following

\* The same for the loop of Compose.
LEMMA ComposingType ==
    ASSUME NEW s, Following(s)
    PROVE  Following(ComposeRound(s))
<1>. DEFINE aDeletes == s.a # <<>> /\ Head(s.a).op = "delete"
            left == Produced(Head(s.a))
            n == IF left < Head(s.b).n THEN left ELSE Head(s.b).n
<1>1. CASE IsInsert(s.b)
    <2>1. ComposeRound(s) = [a |-> s.a, b |-> Tail(s.b), out |-> addOp(s.out, Head(s.b))]
        BY <1>1, ComposeRounds
    <2>2. s.b # <<>>
        BY <1>1 DEF IsInsert
    <2>3. Head(s.b) \in OpSet /\ Tail(s.b) \in Seq(OpSet)
        BY <2>2, HeadTail DEF Following
    <2>4. addOp(s.out, Head(s.b)) \in Seq(OpSet) /\ Normal(addOp(s.out, Head(s.b)))
        BY <2>3, AddOpType, NormalAddOp DEF Following
    <2>. QED
        BY <2>1, <2>3, <2>4 DEF Following
<1>2. CASE ~ IsInsert(s.b) /\ aDeletes
    <2>1. ComposeRound(s) = [a |-> Tail(s.a), b |-> s.b, out |-> addOp(s.out, Head(s.a))]
        BY <1>2, ComposeRounds
    <2>3. Head(s.a) \in OpSet /\ Tail(s.a) \in Seq(OpSet)
        BY <1>2, HeadTail DEF Following
    <2>4. addOp(s.out, Head(s.a)) \in Seq(OpSet) /\ Normal(addOp(s.out, Head(s.a)))
        BY <2>3, AddOpType, NormalAddOp DEF Following
    <2>. QED
        BY <2>1, <2>3, <2>4 DEF Following
<1>3. CASE ~ IsInsert(s.b) /\ ~ aDeletes /\ (s.a = <<>> \/ s.b = <<>>)
    <2>1. ComposeRound(s) = s
        BY <1>3, ComposeRounds
    <2>. QED
        BY <2>1
<1>4. CASE ~ IsInsert(s.b) /\ ~ aDeletes /\ s.a # <<>> /\ s.b # <<>>
    <2>. DEFINE p == Head(s.a)
                q == Head(s.b)
    <2>1. ComposeRound(s) =
              [a |-> consume(s.a, n), b |-> consume(s.b, n),
               out |-> addOps(s.out, Overlap(p, q, n))]
        BY <1>4, ComposeRounds
    <2>2. p \in OpSet /\ q \in OpSet
        BY <1>4, HeadTail DEF Following
    <2>3. p.op # "delete" /\ q.op # "insert"
        BY <1>4 DEF IsInsert
    <2>4. /\ Produced(p) = Size(p) /\ Size(p) \in Nat /\ Size(p) > 0
          /\ q.n \in Nat /\ q.n > 0 /\ q.op \in {"retain", "delete"}
          /\ p.op \in {"retain", "insert"}
        BY <2>2, <2>3, OpFacts DEF Produced, Size
    <2>5. n \in Nat /\ 0 < n /\ n <= Size(p) /\ n <= q.n
        BY <2>4, Lesser
    <2>6. Size(q) = q.n
        BY <2>3 DEF Size
    <2>. HIDE DEF n
    <2>7. consume(s.a, n) \in Seq(OpSet) /\ consume(s.b, n) \in Seq(OpSet)
        BY <1>4, <2>5, <2>6, ConsumeType DEF Following
    <2>8. [op |-> q.op, n |-> n] \in OpSet
        BY <2>4, <2>5 DEF OpSet
    <2>9. p.op = "insert" => Insert(SubSeq(p.chars, 1, n)) \in OpSet
        <3>1. p.op = "insert" => Part(p, n) = Insert(SubSeq(p.chars, 1, n))
            BY DEF Part
        <3>. QED
            BY <3>1, <2>2, <2>5, PartType
    <2>10. \/ Overlap(p, q, n) = <<>>
           \/ \E o \in OpSet : Overlap(p, q, n) = <<o>>
        <3>. HIDE DEF p, q
        <3>1. CASE p.op = "retain"
            <4>1. Overlap(p, q, n) = <<[op |-> q.op, n |-> n]>>
                BY <3>1 DEF Overlap
            <4>. QED
                BY <4>1, <2>8
        <3>2. CASE p.op = "insert" /\ q.op = "retain"
            <4>1. Overlap(p, q, n) = <<Insert(SubSeq(p.chars, 1, n))>>
                BY <3>2 DEF Overlap
            <4>. QED
                BY <3>2, <4>1, <2>9
        <3>3. CASE p.op = "insert" /\ q.op = "delete"
            BY <3>3 DEF Overlap
        <3>. QED
            BY <2>4, <3>1, <3>2, <3>3
    <2>11. addOps(s.out, Overlap(p, q, n)) \in Seq(OpSet)
           /\ Normal(addOps(s.out, Overlap(p, q, n)))
        <3>. DEFINE new == Overlap(p, q, n)
        <3>1. CASE new = <<>>
            BY <3>1 DEF addOps, Following
        <3>2. ASSUME NEW o \in OpSet, new = <<o>>
              PROVE  addOps(s.out, new) \in Seq(OpSet) /\ Normal(addOps(s.out, new))
            <4>1. new # <<>> /\ new[1] = o
                BY <3>2
            <4>2. addOps(s.out, new) = addOp(s.out, o)
                BY <4>1 DEF addOps
            <4>. QED
                BY <4>2, AddOpType, NormalAddOp DEF Following
        <3>. QED
            BY <2>10, <3>1, <3>2
    <2>. QED
        BY <2>1, <2>7, <2>11 DEF Following
<1>. QED
    BY <1>1, <1>2, <1>3, <1>4

LEMMA ComposeOpsType ==
    ASSUME NEW a \in Seq(OpSet), NEW b \in Seq(OpSet)
    PROVE  ComposeOps(a, b) \in Seq(OpSet)
<1>. DEFINE N == Len(a) + Len(b)
<1>1. PICK f : /\ f[0] = [a |-> a, b |-> b, out |-> <<>>]
               /\ \A i \in 1..N : f[i] = ComposeRound(f[i - 1])
               /\ ComposeOps(a, b) = f[N].out
    BY ComposeStates
<1>2. N \in Nat
    BY LenProperties
<1>. HIDE DEF N
<1>. DEFINE S == {i \in 0..N : Following(f[i])}
<1>3. 0 \in S
    <2>1. f[0].a = a /\ f[0].b = b /\ f[0].out = <<>>
        BY <1>1
    <2>2. Following(f[0])
        BY <2>1, EmptyOps DEF Following
    <2>. QED
        BY <2>2, <1>2
<1>4. ASSUME NEW i \in 0..(N - 1), i \in S PROVE i + 1 \in S
    <2>1. i + 1 \in 1..N /\ (i + 1) - 1 = i /\ i + 1 \in 0..N
        BY <1>2
    <2>2. f[i + 1] = ComposeRound(f[i])
        BY <2>1, <1>1
    <2>. QED
        BY <1>4, <2>1, <2>2, ComposingType
<1>5. N \in S
    <2>1. N \in 0..N
        BY <1>2
    <2>. HIDE DEF S
    <2>. QED
        BY <1>2, <1>3, <1>4, <2>1, Induction
<1>. QED
    BY <1>1, <1>5 DEF Following

\* What ops produce in all is a number.
LEMMA ProducedNat ==
    ASSUME NEW ops \in Seq(OpSet)
    PROVE  TotalOf(Produced, ops) \in Nat
<1>. DEFINE m == Len(ops)
            F == [c \in (1..m) \X Nat |-> c[2] + Produced(ops[c[1]])]
            Sum(f) == [i \in 0..m |-> IF i = 0 THEN 0
                                      ELSE f[i - 1] + Produced(ops[i])]
<1>1. m \in Nat
    BY LenProperties
<1>2. TotalOf(Produced, ops) = (CHOOSE f : f = Sum(f))[m]
    BY Zenon DEF TotalOf
<1>. HIDE DEF m
<1>3. ASSUME NEW i \in 1..m PROVE Produced(ops[i]) \in Nat
    <2>1. ops[i] \in OpSet
        BY ElementOfSeq DEF m
    <2>. QED
        BY <2>1, OpFacts DEF Produced
<1>4. StaysIn(m, Nat, F)
    BY <1>3 DEF StaysIn
<1>5. PICK g \in [0..m -> Nat] : g[0] = 0 /\ \A i \in 1..m : g[i] = F[<<i, g[i - 1]>>]
    <2>. HIDE DEF F, Sum
    <2>1. Solvable(m, Nat, 0, F)
        BY <1>1, <1>4, Recursion
    <2>. QED
        BY <2>1 DEF Solvable
<1>6. g = Sum(g)
    <2>1. ASSUME NEW i \in 0..m
          PROVE  g[i] = IF i = 0 THEN 0 ELSE g[i - 1] + Produced(ops[i])
        <3>1. CASE i = 0
            BY <3>1, <1>5
        <3>2. CASE i # 0
            <4>1. i \in 1..m /\ i - 1 \in 0..m /\ g[i - 1] \in Nat
                BY <3>2, <1>1
            <4>2. F[<<i, g[i - 1]>>] = g[i - 1] + Produced(ops[i])
                BY <4>1
            <4>. QED
                BY <3>2, <4>1, <4>2, <1>5
        <3>. QED
            BY <3>1, <3>2
    <2>2. g = [i \in 0..m |-> g[i]]
        BY <1>5
    <2>. QED
        BY <2>1, <2>2
<1>7. PICK z : z = Sum(z) /\ TotalOf(Produced, ops) = z[m]
    <2>. HIDE DEF Sum
    <2>1. (CHOOSE f : f = Sum(f)) = Sum(CHOOSE f : f = Sum(f))
        BY <1>6, Zenon
    <2>. QED
        BY <1>2, <2>1
<1>8. \A i \in 0..m : z[i] = IF i = 0 THEN 0 ELSE z[i - 1] + Produced(ops[i])
    BY <1>7, Zenon
<1>. DEFINE S == {i \in 0..m : z[i] \in Nat}
<1>9. 0 \in S
    BY <1>1, <1>8
<1>10. ASSUME NEW i \in 0..(m - 1), i \in S PROVE i + 1 \in S
    <2>1. i + 1 \in 0..m /\ i + 1 \in 1..m /\ i + 1 # 0 /\ (i + 1) - 1 = i
        BY <1>1
    <2>2. z[i + 1] = z[i] + Produced(ops[i + 1])
        BY <2>1, <1>8
    <2>. QED
        BY <1>10, <2>1, <2>2, <1>3
<1>11. m \in S
    <2>1. m \in 0..m
        BY <1>1
    <2>. HIDE DEF S
    <2>. QED
        BY <1>1, <1>9, <1>10, <2>1, Induction
<1>. QED
    BY <1>7, <1>11

\* Applying a changeset of any length to a text gives a text.
Accs == [ok : BOOLEAN, pos : Nat, out : Text]

LEMMA ApplyOpType ==
    ASSUME NEW t \in Text, NEW acc \in Accs, NEW o \in OpSet
    PROVE  ApplyOp(t, acc, o) \in Accs
<1>1. /\ Consumed(o) \in Nat /\ Len(t) \in Nat /\ acc.pos \in Nat /\ acc.out \in Text
      /\ acc.ok \in BOOLEAN /\ acc.pos + Consumed(o) \in Nat
    BY OpFacts, LenProperties DEF Consumed, Accs, Text
<1>2. CASE ~ acc.ok \/ acc.pos + Consumed(o) > Len(t)
    BY <1>1, <1>2 DEF ApplyOp, Accs
<1>3. CASE ~ (~ acc.ok \/ acc.pos + Consumed(o) > Len(t))
    <2>. DEFINE s == CASE o.op = "retain" -> SubSeq(t, acc.pos + 1, acc.pos + o.n)
                       [] o.op = "insert" -> o.chars
                       [] o.op = "delete" -> <<>>
    <2>1. ApplyOp(t, acc, o) = [ok |-> TRUE, pos |-> acc.pos + Consumed(o),
                                out |-> acc.out \o s]
        BY <1>3 DEF ApplyOp
    <2>2. s \in Text
        <3>1. CASE o.op = "retain"
            <4>1. s = SubSeq(t, acc.pos + 1, acc.pos + o.n)
                BY <3>1
            <4>2. o.n \in Nat /\ Consumed(o) = o.n
                BY <3>1, OpFacts DEF Consumed
            <4>3. acc.pos <= acc.pos + o.n /\ acc.pos + o.n <= Len(t)
                  /\ acc.pos + o.n \in Nat
                BY <1>1, <1>3, <4>2
            <4>. QED
                BY <1>1, <4>1, <4>3, Piece
        <3>2. CASE o.op = "insert"
            BY <3>2, OpFacts
        <3>3. CASE o.op = "delete"
            <4>1. s = <<>>
                BY <3>3
            <4>2. <<>> \in Text
                BY DEF Text
            <4>. HIDE DEF s
            <4>. QED
                BY <4>1, <4>2
        <3>. QED
            BY <3>1, <3>2, <3>3, OpFacts
    <2>. HIDE DEF s
    <2>3. acc.out \o s \in Text
        BY <1>1, <2>2, Longer
    <2>. QED
        BY <1>1, <2>1, <2>3 DEF Accs
<1>. QED
    BY <1>2, <1>3

LEMMA ApplyType ==
    ASSUME NEW t \in Text, NEW c, c.ops \in Seq(OpSet)
    PROVE  ApplyChangeset(t, c) \in [ok : BOOLEAN, text : Text]
<1>. DEFINE ops == c.ops
            m == Len(ops)
            first == [ok |-> c.oldLen = Len(t), pos |-> 0, out |-> <<>>]
            State(f) == [i \in 0..m |-> IF i = 0 THEN first
                                        ELSE ApplyOp(t, f[i - 1], ops[i])]
            end == (CHOOSE f : f = State(f))[m]
            F == [x \in (1..m) \X Accs |-> ApplyOp(t, x[2], ops[x[1]])]
<1>1. ApplyChangeset(t, c) = IF end.ok /\ end.pos = Len(t)
                             THEN [ok |-> TRUE, text |-> end.out]
                             ELSE [ok |-> FALSE, text |-> <<>>]
    BY Zenon DEF ApplyChangeset
<1>2. m \in Nat /\ \A i \in 1..m : ops[i] \in OpSet
    BY LenProperties, ElementOfSeq
<1>3. first \in Accs
    BY DEF Accs, Text
<1>. HIDE DEF ops, m, first
<1>4. StaysIn(m, Accs, F)
    BY <1>2, ApplyOpType DEF StaysIn
<1>5. PICK g \in [0..m -> Accs] :
          g[0] = first /\ \A i \in 1..m : g[i] = F[<<i, g[i - 1]>>]
    <2>. HIDE DEF F, State
    <2>1. Solvable(m, Accs, first, F)
        BY <1>2, <1>3, <1>4, Recursion
    <2>. QED
        BY <2>1 DEF Solvable
<1>6. g = State(g)
    <2>1. ASSUME NEW i \in 0..m
          PROVE  g[i] = IF i = 0 THEN first ELSE ApplyOp(t, g[i - 1], ops[i])
        <3>1. CASE i = 0
            BY <3>1, <1>5
        <3>2. CASE i # 0
            <4>1. i \in 1..m /\ i - 1 \in 0..m /\ g[i - 1] \in Accs
                BY <3>2, <1>2
            <4>2. F[<<i, g[i - 1]>>] = ApplyOp(t, g[i - 1], ops[i])
                BY <4>1
            <4>. QED
                BY <3>2, <4>1, <4>2, <1>5
        <3>. QED
            BY <3>1, <3>2
    <2>2. g = [i \in 0..m |-> g[i]]
        BY <1>5
    <2>. HIDE DEF F
    <2>. QED
        BY <2>1, <2>2
<1>. HIDE DEF F
<1>7. PICK z : z = State(z) /\ end = z[m]
    <2>. HIDE DEF State
    <2>1. (CHOOSE f : f = State(f)) = State(CHOOSE f : f = State(f))
        BY <1>6, Zenon
    <2>. QED
        BY <2>1
<1>. HIDE DEF end
<1>8. \A i \in 0..m : z[i] = IF i = 0 THEN first ELSE ApplyOp(t, z[i - 1], ops[i])
    BY <1>7, Zenon
<1>. HIDE DEF State
<1>. DEFINE S == {i \in 0..m : z[i] \in Accs}
<1>9. 0 \in S
    BY <1>2, <1>3, <1>8
<1>10. ASSUME NEW i \in 0..(m - 1), i \in S PROVE i + 1 \in S
    <2>1. i + 1 \in 0..m /\ i + 1 \in 1..m /\ i + 1 # 0 /\ (i + 1) - 1 = i
        BY <1>2
    <2>2. z[i + 1] = ApplyOp(t, z[i], ops[i + 1])
        BY <2>1, <1>8
    <2>. QED
        BY <1>10, <2>1, <2>2, <1>2, ApplyOpType
<1>11. m \in S
    <2>1. m \in 0..m
        BY <1>2
    <2>. HIDE DEF S
    <2>. QED
        BY <1>2, <1>9, <1>10, <2>1, Induction
<1>12. end \in Accs
    BY <1>7, <1>11
<1>13. <<>> \in Text
    BY DEF Text
<1>. QED
    BY <1>1, <1>12, <1>13 DEF Accs

-----------------------------------------------------------------------------
(* Changesets that keep the text *)

Retains == {o \in OpSet : o.op = "retain"}

LEMMA RetainsSeq ==
    ASSUME NEW ops \in Seq(Retains)
    PROVE  /\ ops \in Seq(OpSet)
           /\ \A i \in 1..Len(ops) : ops[i] \in OpSet /\ ops[i].op = "retain"
           /\ ops # <<>> => Head(ops).op = "retain" /\ Tail(ops) \in Seq(Retains)
           /\ ~ IsInsert(ops)
<1>1. \A i \in 1..Len(ops) : ops[i] \in Retains
    BY ElementOfSeq
<1>2. Len(ops) \in Nat /\ \A i \in 1..Len(ops) : ops[i] \in OpSet
    BY <1>1, LenProperties DEF Retains
<1>3. ops \in Seq(OpSet)
    <2>1. Retains \subseteq OpSet
        BY DEF Retains
    <2>. QED
        BY <2>1
<1>4. ops # <<>> => Head(ops) \in Retains /\ Tail(ops) \in Seq(Retains)
    BY HeadTailProperties
<1>5. ~ IsInsert(ops)
    BY <1>4 DEF IsInsert, Retains
<1>. QED
    BY <1>1, <1>3, <1>4, <1>5 DEF Retains

LEMMA AddRetain ==
    ASSUME NEW ops \in Seq(Retains), NEW n \in Nat, n > 0
    PROVE  addOp(ops, Retain(n)) \in Seq(Retains)
<1>. DEFINE o == Retain(n)
<1>1. o = [op |-> "retain", n |-> n]
    BY DEF Retain
<1>2. o \in OpSet /\ o.op = "retain" /\ o \in Retains
    BY <1>1 DEF OpSet, Retains
<1>. HIDE DEF o
<1>3. CASE addOp(ops, o) = Append(ops, o)
    <2>1. Append(ops, o) \in Seq(Retains)
        BY <1>2, AppendProperties, Zenon
    <2>. QED
        BY <1>3, <2>1, Zenon DEF o
<1>4. CASE /\ ops # <<>> /\ Front(ops) \in Seq(OpSet) /\ Last(ops) \in OpSet
           /\ Last(ops).op = o.op
           /\ addOp(ops, o) = Append(Front(ops), MergedOp(Last(ops), o))
    <2>1. MergedOp(Last(ops), o) \in OpSet /\ MergedOp(Last(ops), o).op = o.op
        BY <1>2, <1>4, MergedOpType
    <2>2. MergedOp(Last(ops), o) \in Retains
        BY <1>2, <2>1 DEF Retains
    <2>3. Front(ops) \in Seq(Retains)
        <3>1. Len(ops) \in Nat /\ Len(ops) > 0 /\ \A i \in 1..Len(ops) : ops[i] \in Retains
            BY <1>4, LenProperties, EmptySeq, ElementOfSeq
        <3>2. /\ \A i \in 1..(Len(ops) - 1) : ops[i] \in Retains
              /\ Len(ops) - 1 \in Int
            BY <3>1
        <3>. QED
            BY <3>2, SubSeqProperties DEF Front
    <2>4. Append(Front(ops), MergedOp(Last(ops), o)) \in Seq(Retains)
        BY <2>2, <2>3, AppendProperties, Zenon
    <2>. QED
        BY <1>4, <2>4, Zenon DEF o
<1>5. ops \in Seq(OpSet)
    BY RetainsSeq
<1>. QED
    BY <1>2, <1>3, <1>4, <1>5, AddOpCases DEF o

LEMMA ConsumeRetains ==
    ASSUME NEW ops \in Seq(Retains), ops # <<>>,
           NEW n \in Nat, 0 < n, n <= Head(ops).n
    PROVE  consume(ops, n) \in Seq(Retains)
<1>. DEFINE o == Head(ops)
<1>1. o \in OpSet /\ Tail(ops) \in Seq(Retains) /\ o.op = "retain"
    BY RetainsSeq, HeadTail
<1>2. Size(o) = o.n
    BY <1>1 DEF Size
<1>3. CASE n = Size(o)
    <2>1. consume(ops, n) = Tail(ops)
        BY <1>3 DEF consume, Size
    <2>. QED
        BY <1>1, <2>1
<1>4. CASE n # Size(o)
    <2>1. consume(ops, n) = <<Remainder(o, n)>> \o Tail(ops)
        BY <1>4 DEF consume, Size, Remainder
    <2>2. Remainder(o, n) \in OpSet /\ Remainder(o, n).op = "retain"
        BY <1>1, <1>2, <1>4, PartType
    <2>3. Remainder(o, n) \in Retains
        BY <2>2 DEF Retains
    <2>4. <<Remainder(o, n)>> \in Seq(Retains)
        BY <2>3
    <2>. QED
        BY <1>1, <2>1, <2>4, ConcatProperties
<1>. QED
    BY <1>3, <1>4

\* Rebasing a changeset of retains gives one.
LEMMA RetainsRound ==
    ASSUME NEW s, Following(s), s.b \in Seq(Retains), s.out \in Seq(Retains)
    PROVE  FollowRound(s).b \in Seq(Retains) /\ FollowRound(s).out \in Seq(Retains)
<1>. DEFINE n == IF Head(s.a).n < Head(s.b).n THEN Head(s.a).n ELSE Head(s.b).n
<1>1. ~ IsInsert(s.b)
    BY RetainsSeq
<1>2. CASE IsInsert(s.a)
    <2>. DEFINE k == Len(Head(s.a).chars)
    <2>1. FollowRound(s) = [a |-> Tail(s.a), b |-> s.b, out |-> addOp(s.out, Retain(k))]
        BY <1>1, <1>2, FollowRounds
    <2>2. Head(s.a).chars \in Text /\ Head(s.a).chars # <<>>
        BY <1>2, InsertFacts DEF Following
    <2>3. k \in Nat /\ k > 0
        BY <2>2, LenProperties, EmptySeq DEF Text
    <2>. HIDE DEF k
    <2>4. addOp(s.out, Retain(k)) \in Seq(Retains)
        BY <2>3, AddRetain
    <2>. QED
        BY <2>1, <2>4
<1>3. CASE ~ IsInsert(s.a) /\ (s.a = <<>> \/ s.b = <<>>)
    <2>1. FollowRound(s) = s
        BY <1>1, <1>3, FollowRounds
    <2>. QED
        BY <2>1
<1>4. CASE ~ IsInsert(s.a) /\ s.a # <<>> /\ s.b # <<>>
    <2>1. FollowRound(s) =
              [a |-> consume(s.a, n), b |-> consume(s.b, n),
               out |-> addOps(s.out, Rebased(Head(s.a), Head(s.b), n))]
        BY <1>1, <1>4, FollowRounds
    <2>2. Head(s.a) \in OpSet /\ Head(s.b) \in OpSet /\ Head(s.b).op = "retain"
        BY <1>4, HeadTail, RetainsSeq DEF Following
    <2>3. Head(s.a).op # "insert"
        BY <1>4 DEF IsInsert
    <2>4. /\ Head(s.a).n \in Nat /\ Head(s.a).n > 0
          /\ Head(s.b).n \in Nat /\ Head(s.b).n > 0
        BY <2>2, <2>3, OpFacts
    <2>5. n \in Nat /\ 0 < n /\ n <= Head(s.a).n /\ n <= Head(s.b).n
        BY <2>4, Lesser
    <2>. HIDE DEF n
    <2>6. consume(s.b, n) \in Seq(Retains)
        BY <1>4, <2>5, ConsumeRetains
    <2>7. addOps(s.out, Rebased(Head(s.a), Head(s.b), n)) \in Seq(Retains)
        <3>. DEFINE new == Rebased(Head(s.a), Head(s.b), n)
        <3>1. new = <<>> \/ new = <<Retain(n)>>
            BY <2>2 DEF Rebased, Retain
        <3>2. <<Retain(n)>> # <<>> /\ <<Retain(n)>>[1] = Retain(n)
            OBVIOUS
        <3>3. addOp(s.out, Retain(n)) \in Seq(Retains)
            BY <2>5, AddRetain
        <3>. HIDE DEF new
        <3>4. addOps(s.out, new) \in Seq(Retains)
            BY <3>1, <3>2, <3>3 DEF addOps
        <3>. QED
            BY <3>4 DEF new
    <2>. QED
        BY <2>1, <2>6, <2>7
<1>. QED
    BY <1>2, <1>3, <1>4

LEMMA FollowRetains ==
    ASSUME NEW a \in Seq(OpSet), NEW b \in Seq(Retains)
    PROVE  FollowOps(a, b) \in Seq(Retains)
<1>. DEFINE N == Len(a) + Len(b)
<1>1. b \in Seq(OpSet)
    BY RetainsSeq
<1>2. PICK f : /\ f[0] = [a |-> a, b |-> b, out |-> <<>>]
               /\ \A i \in 1..N : f[i] = FollowRound(f[i - 1])
               /\ FollowOps(a, b) = f[N].out
    BY <1>1, FollowStates
<1>3. N \in Nat
    BY LenProperties
<1>. HIDE DEF N
<1>. DEFINE S == {i \in 0..N : /\ Following(f[i])
                               /\ f[i].b \in Seq(Retains) /\ f[i].out \in Seq(Retains)}
<1>4. 0 \in S
    <2>1. f[0].a = a /\ f[0].b = b /\ f[0].out = <<>>
        BY <1>2
    <2>2. Following(f[0])
        BY <1>1, <2>1, EmptyOps DEF Following
    <2>3. <<>> \in Seq(Retains) /\ 0 \in 0..N
        BY <1>3
    <2>. QED
        BY <2>1, <2>2, <2>3
<1>5. ASSUME NEW i \in 0..(N - 1), i \in S PROVE i + 1 \in S
    <2>1. i + 1 \in 1..N /\ (i + 1) - 1 = i /\ i + 1 \in 0..N
        BY <1>3
    <2>2. f[i + 1] = FollowRound(f[i])
        BY <2>1, <1>2
    <2>. QED
        BY <1>5, <2>1, <2>2, FollowingRound, RetainsRound
<1>6. N \in S
    <2>1. N \in 0..N
        BY <1>3
    <2>. HIDE DEF S
    <2>. QED
        BY <1>3, <1>4, <1>5, <2>1, Induction
<1>. QED
    BY <1>2, <1>6

LEMMA RetainsKeep ==
    ASSUME NEW t \in Text, NEW u \in Text, NEW c, Leads(t, c, u),
           c.ops \in Seq(Retains)
    PROVE  u = t
<1>. DEFINE ops == c.ops
            m == Len(ops)
<1>1. /\ m \in Nat /\ Len(t) \in Nat /\ Len(u) \in Nat
      /\ \A i \in 1..m : ops[i] \in OpSet /\ ops[i].op = "retain"
    BY LenProperties, RetainsSeq DEF Text
<1>2. PICK P, Q : Marks(P, Q, t, 0, ops, u, 0, Len(t), Len(u))
    BY DEF Leads, Align
<1>3. /\ P \in [0..m -> 0..Len(t)] /\ Q \in [0..m -> 0..Len(u)]
      /\ P[0] = 0 /\ P[m] = Len(t) /\ Q[0] = 0 /\ Q[m] = Len(u)
      /\ \A i \in 1..m : Seg(ops[i], t, P[i - 1], P[i], u, Q[i - 1], Q[i])
    BY <1>2 DEF Marks
<1>. HIDE DEF ops, m
<1>. DEFINE S == {i \in 0..m : P[i] = Q[i] /\ \A j \in 1..P[i] : u[j] = t[j]}
<1>4. 0 \in S
    BY <1>1, <1>3
<1>5. ASSUME NEW i \in 0..(m - 1), i \in S PROVE i + 1 \in S
    <2>1. i + 1 \in 1..m /\ (i + 1) - 1 = i /\ i + 1 \in 0..m /\ i \in 0..m
        BY <1>1
    <2>. DEFINE o == ops[i + 1]
                p == P[i]
    <2>2. o \in OpSet /\ o.op = "retain" /\ Seg(o, t, p, P[i + 1], u, p, Q[i + 1])
        BY <2>1, <1>1, <1>3, <1>5
    <2>3. p \in Nat /\ \A j \in 1..p : u[j] = t[j]
        BY <2>1, <1>1, <1>3, <1>5
    <2>. HIDE DEF o, p
    <2>4. /\ o.n \in Nat /\ P[i + 1] = p + o.n /\ Q[i + 1] = p + o.n
          /\ \A j \in 1..o.n : u[p + j] = t[p + j]
        BY <2>2, OpFacts DEF Seg
    <2>5. ASSUME NEW j \in 1..(p + o.n) PROVE u[j] = t[j]
        <3>1. CASE j \in 1..p
            BY <3>1, <2>3
        <3>2. CASE ~ (j \in 1..p)
            <4>1. j - p \in 1..o.n /\ p + (j - p) = j
                BY <3>2, <2>3, <2>4
            <4>. QED
                BY <4>1, <2>4
        <3>. QED
            BY <3>1, <3>2
    <2>. QED
        BY <2>1, <2>4, <2>5
<1>6. m \in S
    <2>1. m \in 0..m
        BY <1>1
    <2>. HIDE DEF S
    <2>. QED
        BY <1>1, <1>4, <1>5, <2>1, Induction
<1>7. Len(t) = Len(u) /\ \A j \in 1..Len(t) : u[j] = t[j]
    BY <1>3, <1>6
<1>. QED
    BY <1>7, SeqEqual DEF Text

-----------------------------------------------------------------------------
(* An edit *)

\* Changeset c makes text u of text t, and its inserts stand apart.
Edit(t, c, u) ==
    /\ t \in Text /\ u \in Text
    /\ Leads(t, c, u) /\ Normal(c.ops)

LEMMA EditFollow ==
    ASSUME NEW t, NEW x, NEW y, NEW B, NEW C, Edit(t, B, x), Edit(t, C, y)
    PROVE  \E w : Edit(x, Follow(B, C), w) /\ Edit(y, Follow(C, B), w)
<1>1. /\ t \in Text /\ x \in Text /\ y \in Text
      /\ Leads(t, B, x) /\ Leads(t, C, y) /\ Normal(B.ops) /\ Normal(C.ops)
    BY DEF Edit
<1>2. /\ B.ops \in Seq(OpSet) /\ C.ops \in Seq(OpSet)
      /\ B.newLen = Len(x) /\ C.newLen = Len(y)
      /\ Left(t, 0, B.ops, x, 0) /\ Left(t, 0, C.ops, y, 0)
    BY <1>1 DEF Leads, Left
<1>3. PICK w \in Text : /\ Written(x, FollowOps(B.ops, C.ops), w, Len(x))
                        /\ Written(y, FollowOps(C.ops, B.ops), w, Len(y))
    BY <1>1, <1>2, FollowMeets
<1>4. Leads(x, Follow(B, C), w) /\ Leads(y, Follow(C, B), w)
    BY <1>1, <1>2, <1>3, FollowLeads
<1>5. Normal(Follow(B, C).ops) /\ Normal(Follow(C, B).ops)
    BY <1>2, FollowOpsType DEF Follow
<1>. QED
    BY <1>1, <1>3, <1>4, <1>5 DEF Edit

\* What is left of an edit that keeps the text keeps it too.
LEMMA EditFollowRetains ==
    ASSUME NEW t, NEW x, NEW y, NEW B, NEW C, Edit(t, B, x), Edit(t, C, y),
           C.ops \in Seq(Retains)
    PROVE  /\ y = t /\ Follow(B, C).ops \in Seq(Retains)
           /\ Edit(x, Follow(B, C), x)
<1>1. /\ t \in Text /\ x \in Text /\ y \in Text /\ Leads(t, C, y)
      /\ B.ops \in Seq(OpSet)
    BY DEF Edit, Leads
<1>2. Follow(B, C).ops \in Seq(Retains)
    BY <1>1, FollowRetains DEF Follow
<1>3. PICK w : Edit(x, Follow(B, C), w)
    BY EditFollow
<1>4. w = x
    BY <1>2, <1>3, RetainsKeep DEF Edit
<1>. QED
    BY <1>1, <1>2, <1>3, <1>4, RetainsKeep

LEMMA IdentityEdit ==
    ASSUME NEW t \in Text
    PROVE  Edit(t, Identity(Len(t)), t) /\ Identity(Len(t)).ops \in Seq(Retains)
<1>1. Edit(t, Identity(Len(t)), t)
    BY IdentityLeads DEF Edit
<1>2. Identity(Len(t)).ops \in Seq(Retains)
    <2>. DEFINE n == Len(t)
    <2>1. n \in Nat
        BY LenProperties DEF Text
    <2>2. Retain(n) = [op |-> "retain", n |-> n]
        BY DEF Retain
    <2>3. n # 0 => Retain(n) \in OpSet /\ Retain(n).op = "retain"
        BY <2>1, <2>2 DEF OpSet
    <2>4. n # 0 => <<Retain(n)>> \in Seq(Retains)
        BY <2>3 DEF Retains
    <2>5. <<>> \in Seq(Retains)
        OBVIOUS
    <2>. HIDE DEF n
    <2>6. Identity(n).ops = IF n = 0 THEN <<>> ELSE <<Retain(n)>>
        BY DEF Identity
    <2>7. Identity(n).ops \in Seq(Retains)
        BY <2>4, <2>5, <2>6
    <2>. QED
        BY <2>7 DEF n
<1>. QED
    BY <1>1, <1>2

-----------------------------------------------------------------------------
(* Types *)

Changeset == [oldLen : Nat, newLen : Nat, ops : Seq(OpSet)]

LEMMA FollowType ==
    ASSUME NEW B \in Changeset, NEW C \in Changeset
    PROVE  Follow(B, C) \in Changeset /\ Normal(Follow(B, C).ops)
<1>. DEFINE ops == FollowOps(B.ops, C.ops)
<1>1. /\ B.newLen \in Nat /\ B.ops \in Seq(OpSet) /\ C.ops \in Seq(OpSet)
    BY DEF Changeset
<1>2. ops \in Seq(OpSet) /\ Normal(ops)
    BY <1>1, FollowOpsType
<1>3. TotalOf(Produced, ops) \in Nat
    BY <1>2, ProducedNat
<1>4. Follow(B, C) = [oldLen |-> B.newLen, newLen |-> TotalOf(Produced, ops),
                      ops |-> ops]
    BY DEF Follow
<1>. HIDE DEF ops
<1>. DEFINE n == TotalOf(Produced, ops)
<1>. HIDE DEF n
<1>5. n \in Nat
    BY <1>3 DEF n
<1>6. Follow(B, C) = [oldLen |-> B.newLen, newLen |-> n, ops |-> ops]
    BY <1>4, Zenon DEF n
<1>. QED
    BY <1>1, <1>2, <1>5, <1>6 DEF Changeset

LEMMA ComposeType ==
    ASSUME NEW B \in Changeset, NEW C \in Changeset
    PROVE  Compose(B, C) \in Changeset
BY ComposeOpsType DEF Changeset, Compose

LEMMA DiffType ==
    ASSUME NEW old \in Text, NEW new \in Text
    PROVE  DiffToChangeset(old, new) \in Changeset
<1>1. DiffToChangeset(old, new).ops \in Seq(OpSet)
    BY DiffLeads DEF Leads
<1>2. Len(old) \in Nat /\ Len(new) \in Nat
    BY LenProperties DEF Text
<1>. DEFINE ops == Backtrack(old, new, LcsTable(old, new))
<1>3. DiffToChangeset(old, new) =
          [oldLen |-> Len(old), newLen |-> Len(new), ops |-> ops]
    BY DEF DiffToChangeset
<1>. HIDE DEF ops
<1>. QED
    BY <1>1, <1>2, <1>3 DEF Changeset

LEMMA IdentityType ==
    ASSUME NEW n \in Nat
    PROVE  Identity(n) \in Changeset
<1>1. n # 0 => Retain(n) \in OpSet
    BY DEF Retain, OpSet
<1>2. n # 0 => <<Retain(n)>> \in Seq(OpSet)
    BY <1>1
<1>3. <<>> \in Seq(OpSet)
    OBVIOUS
<1>. QED
    BY <1>2, <1>3 DEF Identity, Changeset

\* A loop that stays in V stays there whatever fixpoint it is written as.
Unrolls(n, V, F, z) == \A i \in 1..n : z[i - 1] \in V => z[i] = F[<<i, z[i - 1]>>]

LEMMA Unrolled ==
    ASSUME NEW n \in Nat, NEW V, NEW F, StaysIn(n, V, F), NEW z, z[0] \in V,
           Unrolls(n, V, F, z)
    PROVE  \A i \in 0..n : z[i] \in V
<1>. DEFINE S == {i \in 0..n : z[i] \in V}
<1>1. 0 \in S
    OBVIOUS
<1>2. ASSUME NEW i \in 0..(n - 1), i \in S PROVE i + 1 \in S
    <2>1. i + 1 \in 1..n /\ i + 1 \in 0..n /\ (i + 1) - 1 = i
        OBVIOUS
    <2>2. z[i + 1] = F[<<i + 1, z[i]>>]
        BY <1>2, <2>1 DEF Unrolls
    <2>. QED
        BY <1>2, <2>1, <2>2 DEF StaysIn
<1>3. 0..n \subseteq S
    <2>. HIDE DEF S
    <2>. QED
        BY <1>1, <1>2, Induction
<1>. QED
    BY <1>3

=============================================================================
