------------------------- MODULE EditorSessionProofs -------------------------
(***************************************************************************)
(* Proofs about EditorSession.  Whatever the scenario, every reachable     *)
(* state has its type, the document of a server is what the entries that   *)
(* it has been given amount to, and no submission takes effect twice.  In  *)
(* a behaviour without one of the races, in which no queue is full, the    *)
(* invariant is Core: what a tab holds is an edit of its revision of the   *)
(* document, what is under way from it is its X at an earlier revision,    *)
(* and what is under way to it are the next revisions.                     *)
(***************************************************************************)
EXTENDS EditorSession, OTLemmas

\* A revision, a committed entry and a document.
Revision == [cs : Changeset, source : ClientIds, sub : Nat]
Entry == [no : Nat, client : ClientIds, sub : Nat, base : Nat, cs : Changeset]
Document == [text : Text, revs : Seq(Revision), last : [ClientIds -> Nat]]

-----------------------------------------------------------------------------
(* Moved *)

LEMMA MovedStep ==
    ASSUME NEW revs \in Seq(Revision), NEW cs \in Changeset, NEW base \in Nat,
           NEW i \in 0..Len(revs)
    PROVE  /\ Moved(revs, cs, base, i) \in Changeset
           /\ i <= base => Moved(revs, cs, base, i) = cs
           /\ i > base => Moved(revs, cs, base, i) =
                              Follow(revs[i].cs, Moved(revs, cs, base, i - 1))
<1>. DEFINE m == Len(revs)
            State(f) == [k \in 0..m |-> IF k <= base THEN cs
                                        ELSE Follow(revs[k].cs, f[k - 1])]
            z == CHOOSE f : f = State(f)
            F == [x \in (1..m) \X Changeset |->
                     IF x[1] <= base THEN cs ELSE Follow(revs[x[1]].cs, x[2])]
<1>1. /\ Moved(revs, cs, base, i) = z[i]
      /\ Moved(revs, cs, base, i - 1) = z[i - 1]
    <2>1. Moved(revs, cs, base, i) = z[i]
        BY Zenon DEF Moved
    <2>2. Moved(revs, cs, base, i - 1) = z[i - 1]
        BY Zenon DEF Moved
    <2>. QED
        BY <2>1, <2>2
<1>2. m \in Nat /\ \A k \in 1..m : revs[k].cs \in Changeset
    <2>1. m \in Nat /\ \A k \in 1..m : revs[k] \in Revision
        BY LenProperties, ElementOfSeq
    <2>. QED
        BY <2>1 DEF Revision
<1>. HIDE DEF m
<1>3. StaysIn(m, Changeset, F)
    BY <1>2, FollowType DEF StaysIn
<1>4. PICK g \in [0..m -> Changeset] :
          g[0] = cs /\ \A k \in 1..m : g[k] = F[<<k, g[k - 1]>>]
    <2>. HIDE DEF F, State
    <2>1. Solvable(m, Changeset, cs, F)
        BY <1>2, <1>3, Recursion
    <2>. QED
        BY <2>1 DEF Solvable
<1>5. g = State(g)
    <2>1. ASSUME NEW k \in 0..m
          PROVE  g[k] = IF k <= base THEN cs ELSE Follow(revs[k].cs, g[k - 1])
        <3>1. CASE k = 0
            BY <3>1, <1>4
        <3>2. CASE k # 0
            <4>1. k \in 1..m /\ k - 1 \in 0..m /\ g[k - 1] \in Changeset
                BY <3>2, <1>2
            <4>2. F[<<k, g[k - 1]>>] =
                      IF k <= base THEN cs ELSE Follow(revs[k].cs, g[k - 1])
                BY <4>1
            <4>. QED
                BY <3>2, <4>1, <4>2, <1>4
        <3>. QED
            BY <3>1, <3>2
    <2>2. g = [k \in 0..m |-> g[k]]
        BY <1>4
    <2>. HIDE DEF F
    <2>. QED
        BY <2>1, <2>2
<1>. HIDE DEF F
<1>6. z = State(z)
    <2>. HIDE DEF State
    <2>. QED
        BY <1>5, Zenon
<1>. HIDE DEF z
<1>7. \A k \in 0..m : z[k] = IF k <= base THEN cs ELSE Follow(revs[k].cs, z[k - 1])
    BY <1>6, Zenon
<1>. HIDE DEF State
<1>8. \A k \in 0..m : z[k] \in Changeset
    <2>1. 0 \in 0..m /\ z[0] \in Changeset
        BY <1>2, <1>7
    <2>2. Unrolls(m, Changeset, F, z)
        <3>1. ASSUME NEW k \in 1..m, z[k - 1] \in Changeset
              PROVE  z[k] = F[<<k, z[k - 1]>>]
            <4>1. k \in 0..m
                BY <1>2
            <4>. QED
                BY <3>1, <4>1, <1>7 DEF F
        <3>. QED
            BY <3>1 DEF Unrolls
    <2>. QED
        BY <1>2, <1>3, <2>1, <2>2, Unrolled
<1>9. i \in 0..m
    BY DEF m
<1>. QED
    BY <1>1, <1>2, <1>7, <1>8, <1>9

-----------------------------------------------------------------------------
(* One entry *)

LEMMA RebaseType ==
    ASSUME NEW d \in Document, NEW e \in Entry
    PROVE  Rebase(d, e) \in Changeset
<1>1. d.revs \in Seq(Revision) /\ e.cs \in Changeset /\ e.base \in Nat
    BY DEF Document, Entry
<1>2. Len(d.revs) \in 0..Len(d.revs)
    BY <1>1, LenProperties
<1>. QED
    BY <1>1, <1>2, MovedStep DEF Rebase, headRev

\* What an entry does to a document: nothing, or one more revision.
Appended(d, e, u) ==
    /\ e.sub > d.last[e.client]
    /\ ApplyChangeset(d.text, Rebase(d, e)).ok
    /\ u.text = ApplyChangeset(d.text, Rebase(d, e)).text
    /\ u.revs = Append(d.revs, [cs |-> Rebase(d, e), source |-> e.client,
                                sub |-> e.sub])
    /\ u.last = [d.last EXCEPT ![e.client] = e.sub]

LEMMA AfterEntryCases ==
    ASSUME NEW d \in Document, NEW e \in Entry
    PROVE  /\ AfterEntry(d, e) \in Document
           /\ AfterEntry(d, e) # d => Appended(d, e, AfterEntry(d, e))
           /\ (~ IsDuplicate(d, e) /\ ApplyChangeset(d.text, Rebase(d, e)).ok)
                  => AfterEntry(d, e) # d
           /\ IsDuplicate(d, e) => AfterEntry(d, e) = d
<1>. DEFINE C == Rebase(d, e)
            R == ApplyChangeset(d.text, C)
            v == [cs |-> C, source |-> e.client, sub |-> e.sub]
            u == [text |-> R.text, revs |-> Append(d.revs, v),
                  last |-> [d.last EXCEPT ![e.client] = e.sub]]
<1>1. /\ d.text \in Text /\ d.revs \in Seq(Revision)
      /\ d.last \in [ClientIds -> Nat]
      /\ e.client \in ClientIds /\ e.sub \in Nat
    BY DEF Document, Entry
<1>2. C \in Changeset
    BY RebaseType
<1>3. C.ops \in Seq(OpSet)
    BY <1>2 DEF Changeset
<1>. HIDE DEF C
<1>4. R.ok \in BOOLEAN /\ R.text \in Text
    BY <1>1, <1>3, ApplyType
<1>5. v \in Revision
    BY <1>1, <1>2 DEF Revision
<1>6. IsDuplicate(d, e) <=> ~ (e.sub > d.last[e.client])
    BY <1>1 DEF IsDuplicate
<1>7. AfterEntry(d, e) = IF IsDuplicate(d, e) \/ ~ R.ok THEN d ELSE u
    BY DEF AfterEntry, Applied, C
<1>. HIDE DEF R, v
<1>8. Append(d.revs, v) \in Seq(Revision) /\ Append(d.revs, v) # d.revs
    BY <1>1, <1>5, AppendProperties
<1>9. [d.last EXCEPT ![e.client] = e.sub] \in [ClientIds -> Nat]
    BY <1>1
<1>10. u \in Document
    BY <1>4, <1>8, <1>9 DEF Document
<1>11. u.revs # d.revs
    BY <1>8
<1>12. Appended(d, e, u) \/ IsDuplicate(d, e) \/ ~ R.ok
    BY <1>6 DEF Appended, R, v, C
<1>. HIDE DEF u
<1>13. u # d
    BY <1>11
<1>. QED
    BY <1>7, <1>10, <1>12, <1>13 DEF C, R

\* No client's submission stands twice in a document.
Distinct(d) ==
    /\ \A i \in DOMAIN d.revs : d.revs[i].sub <= d.last[d.revs[i].source]
    /\ \A i, j \in DOMAIN d.revs :
           (i # j /\ d.revs[i].source = d.revs[j].source)
               => d.revs[i].sub # d.revs[j].sub

LEMMA DistinctAfter ==
    ASSUME NEW d \in Document, NEW e \in Entry, Distinct(d)
    PROVE  Distinct(AfterEntry(d, e))
<1>. DEFINE u == AfterEntry(d, e)
            m == Len(d.revs)
<1>1. CASE u = d
    BY <1>1
<1>2. CASE u # d
    <2>1. Appended(d, e, u)
        BY <1>2, AfterEntryCases
    <2>2. /\ d.revs \in Seq(Revision) /\ d.last \in [ClientIds -> Nat]
          /\ e.client \in ClientIds /\ e.sub \in Nat
          /\ u.revs = Append(d.revs, [cs |-> Rebase(d, e), source |-> e.client,
                                      sub |-> e.sub])
          /\ u.last = [d.last EXCEPT ![e.client] = e.sub]
          /\ e.sub > d.last[e.client]
        BY <2>1 DEF Appended, Document, Entry
    <2>. HIDE DEF u
    <2>3. m \in Nat /\ DOMAIN d.revs = 1..m
        BY <2>2, LenProperties
    <2>4. /\ DOMAIN u.revs = 1..(m + 1)
          /\ \A i \in 1..m : u.revs[i] = d.revs[i]
          /\ u.revs[m + 1].source = e.client /\ u.revs[m + 1].sub = e.sub
        <3>1. Len(u.revs) = m + 1
            BY <2>2
        <3>. QED
            BY <2>2, <2>3, <3>1
    <2>5. ASSUME NEW i \in 1..m
          PROVE  d.revs[i].source \in ClientIds /\ d.revs[i].sub \in Nat
        <3>1. d.revs[i] \in Revision
            BY <2>2, ElementOfSeq
        <3>. QED
            BY <3>1 DEF Revision
    <2>6. /\ \A i \in 1..m : d.revs[i].sub <= d.last[d.revs[i].source]
          /\ \A i, j \in 1..m : (i # j /\ d.revs[i].source = d.revs[j].source)
                 => d.revs[i].sub # d.revs[j].sub
        BY <2>3, Zenon DEF Distinct
    <2>7. ASSUME NEW i \in 1..m
          PROVE  /\ u.revs[i].sub <= u.last[u.revs[i].source]
                 /\ u.revs[i].source = e.client => u.revs[i].sub < e.sub
        <3>1. CASE d.revs[i].source = e.client
            <4>1. u.revs[i] = d.revs[i] /\ d.revs[i].sub <= d.last[e.client]
                BY <2>4, <2>6, <3>1
            <4>2. u.last[e.client] = e.sub
                BY <2>2
            <4>. QED
                BY <4>1, <4>2, <2>2, <2>5, <3>1
        <3>2. CASE d.revs[i].source # e.client
            BY <2>2, <2>4, <2>5, <2>6, <3>2
        <3>. QED
            BY <3>1, <3>2
    <2>8. u.revs[m + 1].sub <= u.last[u.revs[m + 1].source]
        BY <2>2, <2>4
    <2>9. \A i \in 1..(m + 1) : i \in 1..m \/ i = m + 1
        BY <2>3
    <2>10. \A i \in DOMAIN u.revs : u.revs[i].sub <= u.last[u.revs[i].source]
        BY <2>4, <2>7, <2>8, <2>9
    <2>11. ASSUME NEW i \in 1..(m + 1), NEW j \in 1..(m + 1), i # j,
                  u.revs[i].source = u.revs[j].source
           PROVE  u.revs[i].sub # u.revs[j].sub
        <3>1. CASE i \in 1..m /\ j \in 1..m
            BY <2>4, <2>6, <2>11, <3>1
        <3>2. CASE i = m + 1 /\ j \in 1..m
            BY <2>2, <2>4, <2>5, <2>7, <2>11, <3>2
        <3>3. CASE i \in 1..m /\ j = m + 1
            BY <2>2, <2>4, <2>5, <2>7, <2>11, <3>3
        <3>. QED
            BY <2>9, <2>11, <3>1, <3>2, <3>3
    <2>12. \A i, j \in DOMAIN u.revs : (i # j /\ u.revs[i].source = u.revs[j].source)
               => u.revs[i].sub # u.revs[j].sub
        BY <2>4, <2>11, Zenon
    <2>. QED
        BY <2>10, <2>12, Zenon DEF Distinct, u
<1>. QED
    BY <1>1, <1>2

-----------------------------------------------------------------------------
(* The document after some entries, and the texts of its revisions *)

LEMMA NewDocumentType == NewDocument \in Document
<1>1. <<>> \in Text /\ <<>> \in Seq(Revision)
    BY DEF Text
<1>. QED
    BY <1>1 DEF NewDocument, Document

LEMMA DocumentAfterStep ==
    ASSUME NEW L \in Seq(Entry), NEW i \in 0..Len(L)
    PROVE  /\ DocumentAfter(L, i) \in Document
           /\ i = 0 => DocumentAfter(L, i) = NewDocument
           /\ i > 0 => DocumentAfter(L, i) =
                           AfterEntry(DocumentAfter(L, i - 1), L[i])
<1>. DEFINE m == Len(L)
            State(f) == [k \in 0..m |-> IF k = 0 THEN NewDocument
                                        ELSE AfterEntry(f[k - 1], L[k])]
            z == CHOOSE f : f = State(f)
            F == [x \in (1..m) \X Document |-> AfterEntry(x[2], L[x[1]])]
<1>1. /\ DocumentAfter(L, i) = z[i]
      /\ DocumentAfter(L, i - 1) = z[i - 1]
    <2>1. DocumentAfter(L, i) = z[i]
        BY Zenon DEF DocumentAfter
    <2>2. DocumentAfter(L, i - 1) = z[i - 1]
        BY Zenon DEF DocumentAfter
    <2>. QED
        BY <2>1, <2>2
<1>2. m \in Nat /\ \A k \in 1..m : L[k] \in Entry
    BY LenProperties, ElementOfSeq
<1>3. i \in 0..m
    BY DEF m
<1>. HIDE DEF m
<1>4. NewDocument \in Document
    BY NewDocumentType
<1>5. StaysIn(m, Document, F)
    BY <1>2, AfterEntryCases DEF StaysIn
<1>6. PICK g \in [0..m -> Document] :
          g[0] = NewDocument /\ \A k \in 1..m : g[k] = F[<<k, g[k - 1]>>]
    <2>. HIDE DEF F, State
    <2>1. Solvable(m, Document, NewDocument, F)
        BY <1>2, <1>4, <1>5, Recursion
    <2>. QED
        BY <2>1 DEF Solvable
<1>7. g = State(g)
    <2>1. ASSUME NEW k \in 0..m
          PROVE  g[k] = IF k = 0 THEN NewDocument ELSE AfterEntry(g[k - 1], L[k])
        <3>1. CASE k = 0
            BY <3>1, <1>6
        <3>2. CASE k # 0
            <4>1. k \in 1..m /\ k - 1 \in 0..m /\ g[k - 1] \in Document
                BY <3>2, <1>2
            <4>2. F[<<k, g[k - 1]>>] = AfterEntry(g[k - 1], L[k])
                BY <4>1
            <4>. QED
                BY <3>2, <4>1, <4>2, <1>6
        <3>. QED
            BY <3>1, <3>2
    <2>2. g = [k \in 0..m |-> g[k]]
        BY <1>6
    <2>. HIDE DEF F
    <2>. QED
        BY <2>1, <2>2
<1>. HIDE DEF F
<1>8. z = State(z)
    <2>. HIDE DEF State
    <2>. QED
        BY <1>7, Zenon
<1>. HIDE DEF z
<1>9. \A k \in 0..m : z[k] = IF k = 0 THEN NewDocument ELSE AfterEntry(z[k - 1], L[k])
    BY <1>8, Zenon
<1>. HIDE DEF State
<1>10. \A k \in 0..m : z[k] \in Document
    <2>1. 0 \in 0..m /\ z[0] \in Document
        BY <1>2, <1>4, <1>9
    <2>2. Unrolls(m, Document, F, z)
        <3>1. ASSUME NEW k \in 1..m, z[k - 1] \in Document
              PROVE  z[k] = F[<<k, z[k - 1]>>]
            <4>1. k \in 0..m /\ k # 0
                BY <1>2
            <4>2. z[k] = AfterEntry(z[k - 1], L[k])
                BY <4>1, <1>9
            <4>. QED
                BY <3>1, <4>2 DEF F
        <3>. QED
            BY <3>1 DEF Unrolls
    <2>. QED
        BY <1>2, <1>5, <2>1, <2>2, Unrolled
<1>. QED
    BY <1>1, <1>2, <1>3, <1>4, <1>9, <1>10

LEMMA ApplyText ==
    ASSUME NEW t \in Text, NEW c, c.ops \in Seq(OpSet)
    PROVE  ApplyChangeset(t, c).text \in Text
BY ApplyType

LEMMA TextAtStep ==
    ASSUME NEW d \in Document, NEW i \in 0..headRev(d)
    PROVE  /\ TextAt(d, i) \in Text
           /\ i = 0 => TextAt(d, i) = <<>>
           /\ i > 0 => TextAt(d, i) =
                           ApplyChangeset(TextAt(d, i - 1), d.revs[i].cs).text
<1>. DEFINE m == headRev(d)
            State(f) == [k \in 0..m |-> IF k = 0 THEN <<>>
                                        ELSE ApplyChangeset(f[k - 1], d.revs[k].cs).text]
            z == CHOOSE f : f = State(f)
            F == [x \in (1..m) \X Text |-> ApplyChangeset(x[2], d.revs[x[1]].cs).text]
<1>1. /\ TextAt(d, i) = z[i]
      /\ TextAt(d, i - 1) = z[i - 1]
    <2>1. TextAt(d, i) = z[i]
        BY Zenon DEF TextAt
    <2>2. TextAt(d, i - 1) = z[i - 1]
        BY Zenon DEF TextAt
    <2>. QED
        BY <2>1, <2>2
<1>2. m \in Nat /\ \A k \in 1..m : d.revs[k].cs.ops \in Seq(OpSet)
    <2>1. d.revs \in Seq(Revision)
        BY DEF Document
    <2>2. m \in Nat /\ \A k \in 1..m : d.revs[k] \in Revision
        BY <2>1, LenProperties, ElementOfSeq DEF headRev
    <2>. QED
        BY <2>2 DEF Revision, Changeset
<1>3. i \in 0..m
    BY DEF m
<1>. HIDE DEF m
<1>4. <<>> \in Text
    BY DEF Text
<1>5. StaysIn(m, Text, F)
    BY <1>2, ApplyText DEF StaysIn
<1>6. PICK g \in [0..m -> Text] :
          g[0] = <<>> /\ \A k \in 1..m : g[k] = F[<<k, g[k - 1]>>]
    <2>. HIDE DEF F, State
    <2>1. Solvable(m, Text, <<>>, F)
        BY <1>2, <1>4, <1>5, Recursion
    <2>. QED
        BY <2>1 DEF Solvable
<1>7. g = State(g)
    <2>1. ASSUME NEW k \in 0..m
          PROVE  g[k] = IF k = 0 THEN <<>> ELSE ApplyChangeset(g[k - 1], d.revs[k].cs).text
        <3>1. CASE k = 0
            BY <3>1, <1>6
        <3>2. CASE k # 0
            <4>1. k \in 1..m /\ k - 1 \in 0..m /\ g[k - 1] \in Text
                BY <3>2, <1>2
            <4>2. F[<<k, g[k - 1]>>] = ApplyChangeset(g[k - 1], d.revs[k].cs).text
                BY <4>1
            <4>. QED
                BY <3>2, <4>1, <4>2, <1>6
        <3>. QED
            BY <3>1, <3>2
    <2>2. g = [k \in 0..m |-> g[k]]
        BY <1>6
    <2>. HIDE DEF F
    <2>. QED
        BY <2>1, <2>2
<1>. HIDE DEF F
<1>8. z = State(z)
    <2>. HIDE DEF State
    <2>. QED
        BY <1>7, Zenon
<1>. HIDE DEF z
<1>9. \A k \in 0..m : z[k] = IF k = 0 THEN <<>> ELSE ApplyChangeset(z[k - 1], d.revs[k].cs).text
    BY <1>8, Zenon
<1>. HIDE DEF State
<1>10. \A k \in 0..m : z[k] \in Text
    <2>1. 0 \in 0..m /\ z[0] \in Text
        BY <1>2, <1>4, <1>9
    <2>2. Unrolls(m, Text, F, z)
        <3>1. ASSUME NEW k \in 1..m, z[k - 1] \in Text
              PROVE  z[k] = F[<<k, z[k - 1]>>]
            <4>1. k \in 0..m /\ k # 0
                BY <1>2
            <4>2. z[k] = ApplyChangeset(z[k - 1], d.revs[k].cs).text
                BY <4>1, <1>9
            <4>. QED
                BY <3>1, <4>2 DEF F
        <3>. QED
            BY <3>1 DEF Unrolls
    <2>. QED
        BY <1>2, <1>5, <2>1, <2>2, Unrolled
<1>. QED
    BY <1>1, <1>2, <1>3, <1>4, <1>9, <1>10

\* One more entry leaves the documents after the others as they are.
LEMMA DocumentAfterAppend ==
    ASSUME NEW L \in Seq(Entry), NEW e \in Entry
    PROVE  /\ Append(L, e) \in Seq(Entry) /\ Len(Append(L, e)) = Len(L) + 1
           /\ \A i \in 0..Len(L) :
                  DocumentAfter(Append(L, e), i) = DocumentAfter(L, i)
           /\ DocumentAfter(Append(L, e), Len(L) + 1) =
                  AfterEntry(DocumentAfter(L, Len(L)), e)
<1>. DEFINE m == Len(L)
            K == Append(L, e)
            S == {i \in 0..m : DocumentAfter(K, i) = DocumentAfter(L, i)}
<1>1. /\ m \in Nat /\ K \in Seq(Entry) /\ Len(K) = m + 1
      /\ \A i \in 1..m : K[i] = L[i]
      /\ K[m + 1] = e
    BY LenProperties, AppendProperties
<1>. HIDE DEF m, K
<1>2. \A i \in 0..(m + 1) : i > 0 =>
          DocumentAfter(K, i) = AfterEntry(DocumentAfter(K, i - 1), K[i])
    BY <1>1, DocumentAfterStep
<1>3. \A i \in 0..m : i > 0 =>
          DocumentAfter(L, i) = AfterEntry(DocumentAfter(L, i - 1), L[i])
    BY DocumentAfterStep DEF m
<1>4. 0 \in S
    <2>1. 0 \in 0..m /\ 0 \in 0..(m + 1)
        BY <1>1
    <2>2. DocumentAfter(K, 0) = NewDocument
        BY <2>1, <1>1, DocumentAfterStep
    <2>3. DocumentAfter(L, 0) = NewDocument
        BY <2>1, DocumentAfterStep DEF m
    <2>. QED
        BY <2>1, <2>2, <2>3
<1>5. ASSUME NEW i \in 0..(m - 1), i \in S PROVE i + 1 \in S
    <2>1. /\ i + 1 \in 0..m /\ i + 1 \in 0..(m + 1) /\ i + 1 > 0
          /\ i + 1 \in 1..m /\ (i + 1) - 1 = i
        BY <1>1
    <2>. QED
        BY <2>1, <1>1, <1>2, <1>3, <1>5
<1>6. \A i \in 0..m : DocumentAfter(K, i) = DocumentAfter(L, i)
    <2>1. 0..m \subseteq S
        <3>. HIDE DEF S
        <3>. QED
            BY <1>1, <1>4, <1>5, Induction
    <2>. QED
        BY <2>1
<1>7. DocumentAfter(K, m + 1) = AfterEntry(DocumentAfter(L, m), e)
    <2>1. m \in 0..m /\ m + 1 \in 0..(m + 1) /\ m + 1 > 0 /\ (m + 1) - 1 = m
        BY <1>1
    <2>. QED
        BY <2>1, <1>1, <1>2, <1>6
<1>. QED
    BY <1>1, <1>6, <1>7 DEF m, K

\* Document u has the revisions of d and perhaps more.
Grown(d, u) ==
    /\ Len(d.revs) <= Len(u.revs)
    /\ \A i \in 1..Len(d.revs) : u.revs[i] = d.revs[i]

LEMMA GrownAfter ==
    ASSUME NEW d \in Document, NEW e \in Entry
    PROVE  Grown(d, AfterEntry(d, e))
<1>1. d.revs \in Seq(Revision) /\ Len(d.revs) \in Nat
    BY LenProperties DEF Document
<1>2. CASE AfterEntry(d, e) = d
    BY <1>1, <1>2 DEF Grown
<1>3. CASE AfterEntry(d, e) # d
    <2>1. Appended(d, e, AfterEntry(d, e))
        BY <1>3, AfterEntryCases
    <2>2. PICK v : AfterEntry(d, e).revs = Append(d.revs, v)
        BY <2>1 DEF Appended
    <2>. QED
        BY <1>1, <2>2 DEF Grown
<1>. QED
    BY <1>2, <1>3

LEMMA GrownTransitive ==
    ASSUME NEW d \in Document, NEW u \in Document, NEW w \in Document,
           Grown(d, u), Grown(u, w)
    PROVE  Grown(d, w)
<1>1. Len(d.revs) \in Nat /\ Len(u.revs) \in Nat /\ Len(w.revs) \in Nat
    BY LenProperties DEF Document
<1>. QED
    BY <1>1 DEF Grown

\* The documents along a log grow.
LEMMA DocumentGrows ==
    ASSUME NEW L \in Seq(Entry), NEW i \in 0..Len(L), NEW j \in i..Len(L)
    PROVE  Grown(DocumentAfter(L, i), DocumentAfter(L, j))
<1>. DEFINE m == Len(L) - i
            S == {k \in 0..m : Grown(DocumentAfter(L, i), DocumentAfter(L, i + k))}
<1>1. m \in Nat /\ Len(L) \in Nat /\ i + 0 = i
    BY LenProperties
<1>2. DocumentAfter(L, i) \in Document /\ Len(DocumentAfter(L, i).revs) \in Nat
    <2>1. DocumentAfter(L, i) \in Document
        BY DocumentAfterStep
    <2>. QED
        BY <2>1, LenProperties DEF Document
<1>3. 0 \in S
    <2>1. Grown(DocumentAfter(L, i), DocumentAfter(L, i))
        BY <1>2 DEF Grown
    <2>. QED
        BY <1>1, <2>1
<1>4. ASSUME NEW k \in 0..(m - 1), k \in S PROVE k + 1 \in S
    <2>1. /\ k + 1 \in 0..m /\ i + k \in 0..Len(L) /\ i + (k + 1) \in 0..Len(L)
          /\ i + (k + 1) > 0 /\ (i + (k + 1)) - 1 = i + k /\ i + (k + 1) \in 1..Len(L)
        BY <1>1
    <2>2. DocumentAfter(L, i + k) \in Document /\ L[i + (k + 1)] \in Entry
        BY <2>1, DocumentAfterStep, ElementOfSeq
    <2>3. DocumentAfter(L, i + (k + 1)) =
              AfterEntry(DocumentAfter(L, i + k), L[i + (k + 1)])
        BY <2>1, DocumentAfterStep
    <2>4. DocumentAfter(L, i + (k + 1)) \in Document
        BY <2>1, DocumentAfterStep
    <2>5. Grown(DocumentAfter(L, i + k), DocumentAfter(L, i + (k + 1)))
        BY <2>2, <2>3, GrownAfter
    <2>6. Grown(DocumentAfter(L, i), DocumentAfter(L, i + k))
        BY <1>4
    <2>. QED
        BY <1>2, <2>1, <2>2, <2>4, <2>5, <2>6, GrownTransitive
<1>5. j - i \in 0..m /\ i + (j - i) = j
    BY <1>1
<1>6. 0..m \subseteq S
    <2>. HIDE DEF S, m
    <2>. QED
        BY <1>1, <1>3, <1>4, Induction
<1>. QED
    BY <1>5, <1>6

\* Texts of revisions only depend on the revisions before them.
LEMMA TextAtGrown ==
    ASSUME NEW d \in Document, NEW u \in Document, Grown(d, u),
           NEW r \in 0..headRev(d)
    PROVE  r \in 0..headRev(u) /\ TextAt(u, r) = TextAt(d, r)
<1>. DEFINE m == headRev(d)
            S == {i \in 0..m : TextAt(u, i) = TextAt(d, i)}
<1>1. /\ m \in Nat /\ headRev(u) \in Nat /\ m <= headRev(u)
      /\ \A i \in 1..m : u.revs[i] = d.revs[i]
    BY LenProperties DEF Document, headRev, Grown
<1>2. 0 \in S
    <2>1. 0 \in 0..headRev(d) /\ 0 \in 0..headRev(u)
        BY <1>1
    <2>2. TextAt(d, 0) = <<>> /\ TextAt(u, 0) = <<>>
        BY <2>1, TextAtStep
    <2>. QED
        BY <2>1, <2>2
<1>3. ASSUME NEW i \in 0..(m - 1), i \in S PROVE i + 1 \in S
    <2>1. /\ i + 1 \in 0..headRev(d) /\ i + 1 \in 0..headRev(u) /\ i + 1 > 0
          /\ i + 1 \in 1..m /\ (i + 1) - 1 = i
        BY <1>1
    <2>2. TextAt(d, i + 1) = ApplyChangeset(TextAt(d, i), d.revs[i + 1].cs).text
        BY <2>1, TextAtStep
    <2>3. TextAt(u, i + 1) = ApplyChangeset(TextAt(u, i), u.revs[i + 1].cs).text
        BY <2>1, TextAtStep
    <2>. QED
        BY <2>1, <2>2, <2>3, <1>1, <1>3
<1>4. 0..m \subseteq S
    <2>. HIDE DEF S, m
    <2>. QED
        BY <1>1, <1>2, <1>3, Induction
<1>. QED
    BY <1>1, <1>4

-----------------------------------------------------------------------------
(* Rebasing over the revisions of a document *)

LEMMA RevsFacts ==
    ASSUME NEW d \in Document
    PROVE  /\ d.revs \in Seq(Revision) /\ headRev(d) = Len(d.revs)
           /\ headRev(d) \in Nat /\ DOMAIN d.revs = 1..headRev(d)
           /\ \A i \in 1..headRev(d) :
                  /\ d.revs[i] \in Revision /\ d.revs[i].cs \in Changeset
                  /\ d.revs[i].source \in ClientIds /\ d.revs[i].sub \in Nat
<1>1. d.revs \in Seq(Revision)
    BY DEF Document
<1>2. /\ headRev(d) = Len(d.revs) /\ headRev(d) \in Nat
      /\ DOMAIN d.revs = 1..headRev(d)
    BY <1>1, LenProperties DEF headRev
<1>3. \A i \in 1..headRev(d) : d.revs[i] \in Revision
    BY <1>1, <1>2, ElementOfSeq
<1>. QED
    BY <1>1, <1>2, <1>3 DEF Revision

LEMMA MovedGrown ==
    ASSUME NEW d \in Document, NEW u \in Document, Grown(d, u),
           NEW cs \in Changeset, NEW base \in Nat, NEW r \in 0..headRev(d)
    PROVE  Moved(u.revs, cs, base, r) = Moved(d.revs, cs, base, r)
<1>. DEFINE m == headRev(d)
            S == {i \in 0..m : Moved(u.revs, cs, base, i) = Moved(d.revs, cs, base, i)}
<1>1. /\ m \in Nat /\ m <= Len(u.revs) /\ m = Len(d.revs) /\ Len(u.revs) \in Nat
      /\ u.revs \in Seq(Revision) /\ d.revs \in Seq(Revision)
      /\ \A i \in 1..m : u.revs[i] = d.revs[i]
    BY RevsFacts DEF Grown
<1>. HIDE DEF m
<1>2. 0 \in S
    <2>1. 0 \in 0..Len(d.revs) /\ 0 \in 0..Len(u.revs) /\ 0 <= base /\ 0 \in 0..m
        BY <1>1
    <2>2. Moved(d.revs, cs, base, 0) = cs
        BY <2>1, <1>1, MovedStep
    <2>3. Moved(u.revs, cs, base, 0) = cs
        BY <2>1, <1>1, MovedStep
    <2>. QED
        BY <2>1, <2>2, <2>3
<1>3. ASSUME NEW i \in 0..(m - 1), i \in S PROVE i + 1 \in S
    <2>1. /\ i + 1 \in 0..Len(d.revs) /\ i + 1 \in 0..Len(u.revs)
          /\ i + 1 \in 1..m /\ (i + 1) - 1 = i /\ i + 1 \in 0..m
        BY <1>1
    <2>2. CASE i + 1 <= base
        <3>1. Moved(d.revs, cs, base, i + 1) = cs
            BY <2>1, <2>2, <1>1, MovedStep
        <3>2. Moved(u.revs, cs, base, i + 1) = cs
            BY <2>1, <2>2, <1>1, MovedStep
        <3>. QED
            BY <2>1, <3>1, <3>2
    <2>3. CASE i + 1 > base
        <3>1. Moved(d.revs, cs, base, i + 1) =
                  Follow(d.revs[i + 1].cs, Moved(d.revs, cs, base, i))
            <4>1. d.revs \in Seq(Revision) /\ i + 1 \in 0..Len(d.revs)
                BY <2>1, <1>1
            <4>2. Moved(d.revs, cs, base, i + 1) =
                      Follow(d.revs[i + 1].cs, Moved(d.revs, cs, base, (i + 1) - 1))
                BY <4>1, <2>3, MovedStep
            <4>. QED
                BY <2>1, <4>2
        <3>2. Moved(u.revs, cs, base, i + 1) =
                  Follow(u.revs[i + 1].cs, Moved(u.revs, cs, base, i))
            <4>1. u.revs \in Seq(Revision) /\ i + 1 \in 0..Len(u.revs)
                BY <2>1, <1>1
            <4>2. Moved(u.revs, cs, base, i + 1) =
                      Follow(u.revs[i + 1].cs, Moved(u.revs, cs, base, (i + 1) - 1))
                BY <4>1, <2>3, MovedStep
            <4>. QED
                BY <2>1, <4>2
        <3>. QED
            BY <2>1, <3>1, <3>2, <1>1, <1>3
    <2>. QED
        BY <2>1, <2>2, <2>3
<1>4. 0..m \subseteq S
    <2>. HIDE DEF S
    <2>. QED
        BY <1>1, <1>2, <1>3, Induction
<1>. QED
    BY <1>4 DEF m

\* Moving in two stages.
LEMMA MovedTwice ==
    ASSUME NEW revs \in Seq(Revision), NEW cs \in Changeset, NEW base \in Nat,
           NEW b \in base..Len(revs), NEW r \in b..Len(revs)
    PROVE  Moved(revs, Moved(revs, cs, base, b), b, r) = Moved(revs, cs, base, r)
<1>. DEFINE D == Moved(revs, cs, base, b)
            m == r - b
            S == {k \in 0..m : Moved(revs, D, b, b + k) = Moved(revs, cs, base, b + k)}
<1>1. Len(revs) \in Nat /\ m \in Nat /\ b \in Nat /\ b \in 0..Len(revs)
      /\ b + 0 = b /\ b + m = r
    BY LenProperties
<1>2. D \in Changeset
    BY <1>1, MovedStep
<1>. HIDE DEF D
<1>3. 0 \in S
    <2>1. Moved(revs, D, b, b) = D
        BY <1>1, <1>2, MovedStep
    <2>. QED
        BY <2>1, <1>1 DEF D
<1>4. ASSUME NEW k \in 0..(m - 1), k \in S PROVE k + 1 \in S
    <2>1. /\ b + (k + 1) \in 0..Len(revs) /\ b + (k + 1) > b
          /\ b + (k + 1) > base /\ (b + (k + 1)) - 1 = b + k /\ k + 1 \in 0..m
        BY <1>1
    <2>2. Moved(revs, D, b, b + (k + 1)) =
              Follow(revs[b + (k + 1)].cs, Moved(revs, D, b, b + k))
        BY <2>1, <1>1, <1>2, MovedStep
    <2>3. Moved(revs, cs, base, b + (k + 1)) =
              Follow(revs[b + (k + 1)].cs, Moved(revs, cs, base, b + k))
        BY <2>1, MovedStep
    <2>. QED
        BY <2>1, <2>2, <2>3, <1>4
<1>5. 0..m \subseteq S
    <2>. HIDE DEF S, m
    <2>. QED
        BY <1>1, <1>3, <1>4, Induction
<1>6. m \in 0..m
    BY <1>1
<1>. QED
    BY <1>1, <1>5, <1>6 DEF D

\* Every revision of the document leads from one text to the next.
History(d) ==
    /\ \A i \in 1..headRev(d) :
           Edit(TextAt(d, i - 1), d.revs[i].cs, TextAt(d, i))
    /\ d.text = TextAt(d, headRev(d))

\* What fits the text of one revision fits, moved, the texts of all later ones.
LEMMA MovedFits ==
    ASSUME NEW d \in Document, History(d), NEW cs \in Changeset,
           NEW base \in 0..headRev(d), NEW y, Edit(TextAt(d, base), cs, y),
           NEW r \in base..headRev(d)
    PROVE  /\ \E w : Edit(TextAt(d, r), Moved(d.revs, cs, base, r), w)
           /\ cs.ops \in Seq(Retains) =>
                  Moved(d.revs, cs, base, r).ops \in Seq(Retains)
<1>. DEFINE m == r - base
            M(k) == Moved(d.revs, cs, base, base + k)
            S == {k \in 0..m :
                     /\ \E w : Edit(TextAt(d, base + k), M(k), w)
                     /\ cs.ops \in Seq(Retains) => M(k).ops \in Seq(Retains)}
<1>1. /\ d.revs \in Seq(Revision) /\ headRev(d) = Len(d.revs) /\ headRev(d) \in Nat
    BY RevsFacts
<1>2. m \in Nat /\ base \in Nat /\ base + 0 = base /\ base + m = r
    BY <1>1
<1>3. 0 \in S
    <2>1. base \in 0..Len(d.revs)
        BY <1>1
    <2>2. Moved(d.revs, cs, base, base) = cs
        BY <2>1, <1>1, <1>2, MovedStep
    <2>. QED
        BY <2>2, <1>2
<1>4. ASSUME NEW k \in 0..(m - 1), k \in S PROVE k + 1 \in S
    <2>1. /\ base + (k + 1) \in 0..Len(d.revs) /\ base + (k + 1) > base
          /\ base + (k + 1) \in 1..headRev(d)
          /\ (base + (k + 1)) - 1 = base + k /\ k + 1 \in 0..m
        BY <1>1, <1>2
    <2>. DEFINE c == d.revs[base + (k + 1)].cs
                t == TextAt(d, base + k)
                x == TextAt(d, base + (k + 1))
    <2>2. M(k + 1) = Follow(c, M(k))
        <3>1. PICK i : i = base + (k + 1)
            OBVIOUS
        <3>2. /\ i \in 0..Len(d.revs) /\ i > base /\ d.revs \in Seq(Revision)
              /\ base \in Nat /\ i - 1 = base + k
            BY <3>1, <2>1, <1>1, <1>2
        <3>3. Moved(d.revs, cs, base, i) =
                  Follow(d.revs[i].cs, Moved(d.revs, cs, base, i - 1))
            BY <3>2, MovedStep
        <3>. QED
            BY <3>1, <3>2, <3>3
    <2>3. Edit(t, c, x)
        BY <2>1 DEF History
    <2>4. PICK w : Edit(t, M(k), w)
        BY <1>4
    <2>5. c.ops \in Seq(OpSet)
        BY <2>3 DEF Edit, Leads
    <2>6. cs.ops \in Seq(Retains) => M(k).ops \in Seq(Retains)
        BY <1>4
    <2>. HIDE DEF M, c, t, x
    <2>7. \E v : Edit(x, Follow(c, M(k)), v)
        BY <2>3, <2>4, EditFollow
    <2>8. M(k).ops \in Seq(Retains) => Follow(c, M(k)).ops \in Seq(Retains)
        BY <2>3, <2>4, EditFollowRetains
    <2>. QED
        BY <2>1, <2>2, <2>6, <2>7, <2>8 DEF x
<1>5. 0..m \subseteq S
    <2>. HIDE DEF S, m
    <2>. QED
        BY <1>2, <1>3, <1>4, Induction
<1>6. m \in 0..m
    BY <1>2
<1>. QED
    BY <1>2, <1>5, <1>6

\* An entry whose changeset fits the text it was made on takes effect.
LEMMA Effective ==
    ASSUME NEW d \in Document, History(d), NEW e \in Entry,
           ~ IsDuplicate(d, e), e.base \in 0..headRev(d),
           NEW y, Edit(TextAt(d, e.base), e.cs, y)
    PROVE  /\ AfterEntry(d, e) # d /\ Appended(d, e, AfterEntry(d, e))
           /\ headRev(AfterEntry(d, e)) = headRev(d) + 1
           /\ History(AfterEntry(d, e))
<1>. DEFINE u == AfterEntry(d, e)
            m == headRev(d)
            t == TextAt(d, m)
            R == Rebase(d, e)
<1>1. /\ m \in Nat /\ m = Len(d.revs) /\ d.revs \in Seq(Revision)
      /\ e.cs \in Changeset /\ u \in Document /\ d.text = t
    BY RevsFacts, AfterEntryCases DEF Entry, History
<1>2. PICK w : Edit(t, R, w)
    <2>1. m \in e.base..m
        BY <1>1
    <2>. QED
        BY <2>1, <1>1, MovedFits DEF Rebase
<1>3. /\ t \in Text /\ w \in Text /\ Leads(t, R, w)
    BY <1>2 DEF Edit
<1>4. ApplyChangeset(t, R) = [ok |-> TRUE, text |-> w]
    BY <1>3, ApplyAligned
<1>5. u # d /\ Appended(d, e, u)
    BY <1>1, <1>4, AfterEntryCases
<1>6. /\ u.text = w
      /\ u.revs = Append(d.revs, [cs |-> R, source |-> e.client, sub |-> e.sub])
    BY <1>1, <1>4, <1>5 DEF Appended
<1>7. Grown(d, u)
    BY GrownAfter
<1>. HIDE DEF u, R
<1>8. headRev(u) = m + 1 /\ u.revs[m + 1].cs = R
    BY <1>1, <1>6 DEF headRev
<1>. HIDE DEF m, t
<1>9. ASSUME NEW i \in 0..m PROVE TextAt(u, i) = TextAt(d, i)
    BY <1>1, <1>7, TextAtGrown DEF m
<1>10. TextAt(u, m + 1) = w
    <2>1. m + 1 \in 0..headRev(u) /\ m + 1 > 0 /\ (m + 1) - 1 = m /\ m \in 0..m
        BY <1>1, <1>8
    <2>2. TextAt(u, m + 1) = ApplyChangeset(TextAt(u, m), R).text
        BY <2>1, <1>1, <1>8, TextAtStep
    <2>. QED
        BY <2>1, <2>2, <1>4, <1>9 DEF t
<1>11. ASSUME NEW i \in 1..(m + 1)
       PROVE  Edit(TextAt(u, i - 1), u.revs[i].cs, TextAt(u, i))
    <2>1. CASE i \in 1..m
        <3>1. i - 1 \in 0..m /\ i \in 0..m
            BY <2>1, <1>1
        <3>2. u.revs[i] = d.revs[i]
            BY <2>1, <1>1, <1>7 DEF Grown
        <3>3. Edit(TextAt(d, i - 1), d.revs[i].cs, TextAt(d, i))
            BY <2>1 DEF History, m
        <3>. QED
            BY <3>1, <3>2, <3>3, <1>9
    <2>2. CASE i = m + 1
        <3>1. (m + 1) - 1 = m /\ m \in 0..m
            BY <1>1
        <3>2. TextAt(u, m) = t
            BY <3>1, <1>9 DEF t
        <3>. QED
            BY <2>2, <3>1, <3>2, <1>2, <1>8, <1>10
    <2>. QED
        BY <2>1, <2>2, <1>1
<1>12. History(u)
    BY <1>6, <1>8, <1>10, <1>11 DEF History
<1>. QED
    BY <1>5, <1>8, <1>12 DEF u, m

-----------------------------------------------------------------------------
(* applyChangeset of the client *)

JsAccs == [pos : Nat, out : Text]

LEMMA JsApplyOpType ==
    ASSUME NEW t \in Text, NEW acc \in JsAccs, NEW o \in OpSet
    PROVE  JsApplyOp(t, acc, o) \in JsAccs
<1>. DEFINE Upto(n) == IF n < Len(t) THEN n ELSE Len(t)
            s == CASE o.op = "retain" -> SubSeq(t, acc.pos + 1, Upto(acc.pos + o.n))
                   [] o.op = "insert" -> o.chars
                   [] o.op = "delete" -> <<>>
<1>1. /\ Consumed(o) \in Nat /\ Len(t) \in Nat /\ acc.pos \in Nat /\ acc.out \in Text
      /\ acc.pos + Consumed(o) \in Nat
    BY OpFacts, LenProperties DEF Consumed, JsAccs, Text
<1>2. JsApplyOp(t, acc, o) = [pos |-> acc.pos + Consumed(o), out |-> acc.out \o s]
    BY DEF JsApplyOp
<1>3. s \in Text
    <2>1. CASE o.op = "retain"
        <3>1. s = SubSeq(t, acc.pos + 1, Upto(acc.pos + o.n))
            BY <2>1
        <3>2. o.n \in Nat
            BY <2>1, OpFacts
        <3>3. /\ Upto(acc.pos + o.n) \in Nat /\ Upto(acc.pos + o.n) <= Len(t)
            BY <1>1, <3>2
        <3>. DEFINE e == Upto(acc.pos + o.n)
        <3>. HIDE DEF s, e
        <3>4. CASE acc.pos <= e
            BY <3>1, <3>3, <3>4, <1>1, Piece DEF e
        <3>5. CASE acc.pos > e
            <4>1. acc.pos + 1 > e /\ acc.pos + 1 \in Int /\ e \in Int
                BY <3>5, <3>3, <1>1 DEF e
            <4>2. SubSeq(t, acc.pos + 1, e) = <<>>
                BY <4>1, SubSeqEmpty DEF Text
            <4>3. <<>> \in Text
                BY DEF Text
            <4>. QED
                BY <4>2, <4>3, <3>1 DEF e
        <3>. QED
            BY <3>3, <3>4, <3>5, <1>1 DEF e
    <2>2. CASE o.op = "insert"
        BY <2>2, OpFacts
    <2>3. CASE o.op = "delete"
        <3>1. s = <<>>
            BY <2>3
        <3>2. <<>> \in Text
            BY DEF Text
        <3>. HIDE DEF s
        <3>. QED
            BY <3>1, <3>2
    <2>. QED
        BY <2>1, <2>2, <2>3, OpFacts
<1>. HIDE DEF s
<1>4. acc.out \o s \in Text
    BY <1>1, <1>3, Longer
<1>. QED
    BY <1>1, <1>2, <1>4 DEF JsAccs

\* The loop, as a sequence of states.
JsStates(t, c, z) ==
    /\ JsApply(t, c) = [ok |-> c.oldLen = Len(t), text |-> z[Len(c.ops)].out]
    /\ z[0] = [pos |-> 0, out |-> <<>>]
    /\ \A k \in 1..Len(c.ops) : z[k] = JsApplyOp(t, z[k - 1], c.ops[k])
    /\ \A k \in 0..Len(c.ops) : z[k] \in JsAccs

LEMMA JsApplyStates ==
    ASSUME NEW t \in Text, NEW c, c.ops \in Seq(OpSet)
    PROVE  \E z : JsStates(t, c, z)
<1>. DEFINE m == Len(c.ops)
            State(f) == [k \in 0..m |-> IF k = 0 THEN [pos |-> 0, out |-> <<>>]
                                        ELSE JsApplyOp(t, f[k - 1], c.ops[k])]
            z == CHOOSE f : f = State(f)
            F == [x \in (1..m) \X JsAccs |-> JsApplyOp(t, x[2], c.ops[x[1]])]
<1>1. JsApply(t, c) = [ok |-> c.oldLen = Len(t), text |-> z[m].out]
    BY Zenon DEF JsApply
<1>2. m \in Nat /\ \A k \in 1..m : c.ops[k] \in OpSet
    BY LenProperties, ElementOfSeq
<1>. HIDE DEF m
<1>4. [pos |-> 0, out |-> <<>>] \in JsAccs
    BY DEF Text, JsAccs
<1>5. StaysIn(m, JsAccs, F)
    BY <1>2, JsApplyOpType DEF StaysIn
<1>6. PICK g \in [0..m -> JsAccs] :
          g[0] = [pos |-> 0, out |-> <<>>] /\ \A k \in 1..m : g[k] = F[<<k, g[k - 1]>>]
    <2>. HIDE DEF F, State
    <2>1. Solvable(m, JsAccs, [pos |-> 0, out |-> <<>>], F)
        BY <1>2, <1>4, <1>5, Recursion
    <2>. QED
        BY <2>1 DEF Solvable
<1>7. g = State(g)
    <2>1. ASSUME NEW k \in 0..m
          PROVE  g[k] = IF k = 0 THEN [pos |-> 0, out |-> <<>>] ELSE JsApplyOp(t, g[k - 1], c.ops[k])
        <3>1. CASE k = 0
            BY <3>1, <1>6
        <3>2. CASE k # 0
            <4>1. k \in 1..m /\ k - 1 \in 0..m /\ g[k - 1] \in JsAccs
                BY <3>2, <1>2
            <4>2. F[<<k, g[k - 1]>>] = JsApplyOp(t, g[k - 1], c.ops[k])
                BY <4>1
            <4>. QED
                BY <3>2, <4>1, <4>2, <1>6
        <3>. QED
            BY <3>1, <3>2
    <2>2. g = [k \in 0..m |-> g[k]]
        BY <1>6
    <2>. HIDE DEF F
    <2>. QED
        BY <2>1, <2>2
<1>. HIDE DEF F
<1>8. z = State(z)
    <2>. HIDE DEF State
    <2>. QED
        BY <1>7, Zenon
<1>. HIDE DEF z
<1>9. \A k \in 0..m : z[k] = IF k = 0 THEN [pos |-> 0, out |-> <<>>] ELSE JsApplyOp(t, z[k - 1], c.ops[k])
    BY <1>8, Zenon
<1>. HIDE DEF State
<1>10. \A k \in 0..m : z[k] \in JsAccs
    <2>1. 0 \in 0..m /\ z[0] \in JsAccs
        BY <1>2, <1>4, <1>9
    <2>2. Unrolls(m, JsAccs, F, z)
        <3>1. ASSUME NEW k \in 1..m, z[k - 1] \in JsAccs
              PROVE  z[k] = F[<<k, z[k - 1]>>]
            <4>1. k \in 0..m /\ k # 0
                BY <1>2
            <4>2. z[k] = JsApplyOp(t, z[k - 1], c.ops[k])
                BY <4>1, <1>9
            <4>. QED
                BY <3>1, <4>2 DEF F
        <3>. QED
            BY <3>1 DEF Unrolls
    <2>. QED
        BY <1>2, <1>5, <2>1, <2>2, Unrolled
<1>11. \A k \in 1..m : z[k] = JsApplyOp(t, z[k - 1], c.ops[k])
    <2>1. \A k \in 1..m : k \in 0..m /\ k # 0
        BY <1>2
    <2>. QED
        BY <2>1, <1>9
<1>12. z[0] = [pos |-> 0, out |-> <<>>]
    <2>1. 0 \in 0..m
        BY <1>2
    <2>. QED
        BY <2>1, <1>9
<1>13. JsStates(t, c, z)
    BY <1>1, <1>10, <1>11, <1>12, Zenon DEF JsStates, m
<1>. QED
    BY <1>13

LEMMA JsApplyType ==
    ASSUME NEW t \in Text, NEW c, c.ops \in Seq(OpSet)
    PROVE  JsApply(t, c) \in [ok : BOOLEAN, text : Text]
<1>1. PICK z : JsStates(t, c, z)
    BY JsApplyStates
<1>2. Len(c.ops) \in 0..Len(c.ops)
    BY LenProperties
<1>3. z[Len(c.ops)] \in JsAccs
    BY <1>1, <1>2, Zenon DEF JsStates
<1>4. z[Len(c.ops)].out \in Text
    BY <1>3 DEF JsAccs
<1>5. JsApply(t, c) = [ok |-> c.oldLen = Len(t), text |-> z[Len(c.ops)].out]
    BY <1>1, Zenon DEF JsStates
<1>. QED
    BY <1>4, <1>5

\* On ops that lie within the texts it does what the server does.
LEMMA JsApplySeg ==
    ASSUME NEW t \in Text, NEW u \in Text, NEW o \in OpSet,
           NEW p \in Nat, NEW q \in Nat, NEW p1 \in Nat, NEW q1 \in Nat,
           p1 <= Len(t), q1 <= Len(u), Seg(o, t, p, p1, u, q, q1)
    PROVE  JsApplyOp(t, [pos |-> p, out |-> SubSeq(u, 1, q)], o) =
               [pos |-> p1, out |-> SubSeq(u, 1, q1)]
<1>. DEFINE w == SubSeq(u, 1, q)
            new == CASE o.op = "retain" -> SubSeq(t, p + 1, p + o.n)
                     [] o.op = "insert" -> o.chars
                     [] o.op = "delete" -> <<>>
            Upto(n) == IF n < Len(t) THEN n ELSE Len(t)
            js == CASE o.op = "retain" -> SubSeq(t, p + 1, Upto(p + o.n))
                    [] o.op = "insert" -> o.chars
                    [] o.op = "delete" -> <<>>
<1>1. p1 = p + Consumed(o) /\ p <= p1 /\ q <= q1
    BY SegForward
<1>2. /\ Len(t) \in Nat /\ Len(u) \in Nat /\ ~ (p + Consumed(o) > Len(t))
    BY <1>1, LenProperties DEF Text
<1>3. ApplyOp(t, [ok |-> TRUE, pos |-> p, out |-> w], o) =
          [ok |-> TRUE, pos |-> p1, out |-> w \o new]
    BY <1>1, <1>2 DEF ApplyOp
<1>4. ApplyOp(t, [ok |-> TRUE, pos |-> p, out |-> w], o) =
          [ok |-> TRUE, pos |-> p1, out |-> SubSeq(u, 1, q1)]
    <2>1. ApplyOp(t, Acc(u, p, q), o) = Acc(u, p1, q1)
        BY ApplySeg
    <2>. QED
        BY <2>1 DEF Acc
<1>5. JsApplyOp(t, [pos |-> p, out |-> w], o) =
          [pos |-> p + Consumed(o), out |-> w \o js]
    BY DEF JsApplyOp
<1>6. js = new
    <2>1. CASE o.op = "retain"
        <3>1. o.n \in Nat /\ p + o.n \in Nat /\ p + o.n <= Len(t)
            BY <2>1, <1>1, <1>2, OpFacts DEF Consumed
        <3>2. Upto(p + o.n) = p + o.n
            BY <3>1, <1>2
        <3>. QED
            BY <2>1, <3>2
    <2>2. CASE o.op = "insert"
        BY <2>2
    <2>3. CASE o.op = "delete"
        BY <2>3
    <2>. QED
        BY <2>1, <2>2, <2>3, OpFacts
<1>. HIDE DEF js, new, w
<1>7. w \o new = SubSeq(u, 1, q1)
    <2>1. [ok |-> TRUE, pos |-> p1, out |-> w \o new] =
              [ok |-> TRUE, pos |-> p1, out |-> SubSeq(u, 1, q1)]
        BY <1>3, <1>4, Zenon
    <2>. QED
        BY <2>1
<1>. QED
    BY <1>1, <1>5, <1>6, <1>7 DEF w

LEMMA JsApplyLeads ==
    ASSUME NEW t \in Text, NEW u \in Text, NEW c, Leads(t, c, u)
    PROVE  JsApply(t, c) = [ok |-> TRUE, text |-> u]
<1>. DEFINE ops == c.ops
            m == Len(ops)
<1>1. /\ ops \in Seq(OpSet) /\ c.oldLen = Len(t)
      /\ Align(t, 0, ops, u, 0, Len(t), Len(u))
    BY DEF Leads
<1>2. PICK z : JsStates(t, c, z)
    BY <1>1, JsApplyStates
<1>3. /\ JsApply(t, c) = [ok |-> c.oldLen = Len(t), text |-> z[m].out]
      /\ z[0] = [pos |-> 0, out |-> <<>>]
      /\ \A k \in 1..m : z[k] = JsApplyOp(t, z[k - 1], ops[k])
    BY <1>2, Zenon DEF JsStates
<1>4. /\ m \in Nat /\ Len(t) \in Nat /\ Len(u) \in Nat
      /\ \A i \in 1..m : ops[i] \in OpSet
    BY <1>1, LenProperties, ElementOfSeq DEF Text
<1>5. PICK P, Q : Marks(P, Q, t, 0, ops, u, 0, Len(t), Len(u))
    BY <1>1 DEF Align
<1>6. /\ P \in [0..m -> 0..Len(t)] /\ Q \in [0..m -> 0..Len(u)]
      /\ P[0] = 0 /\ P[m] = Len(t) /\ Q[0] = 0 /\ Q[m] = Len(u)
      /\ \A i \in 1..m : Seg(ops[i], t, P[i - 1], P[i], u, Q[i - 1], Q[i])
    BY <1>5 DEF Marks
<1>. HIDE DEF m, ops
<1>. DEFINE G(i) == [pos |-> P[i], out |-> SubSeq(u, 1, Q[i])]
            S == {i \in 0..m : z[i] = G(i)}
<1>7. 0 \in S
    <2>1. SubSeq(u, 1, 0) = <<>>
        BY SubSeqEmpty DEF Text
    <2>. QED
        BY <2>1, <1>3, <1>4, <1>6
<1>8. ASSUME NEW i \in 0..(m - 1), i \in S PROVE i + 1 \in S
    <2>1. i + 1 \in 0..m /\ i \in 0..m /\ i + 1 \in 1..m /\ (i + 1) - 1 = i
        BY <1>4
    <2>2. z[i + 1] = JsApplyOp(t, G(i), ops[i + 1])
        BY <2>1, <1>3, <1>8
    <2>3. /\ P[i] \in Nat /\ P[i + 1] \in Nat /\ P[i + 1] <= Len(t)
          /\ Q[i] \in Nat /\ Q[i + 1] \in Nat /\ Q[i + 1] <= Len(u)
        BY <2>1, <1>4, <1>6
    <2>4. Seg(ops[i + 1], t, P[i], P[i + 1], u, Q[i], Q[i + 1])
        BY <2>1, <1>6
    <2>5. JsApplyOp(t, G(i), ops[i + 1]) = G(i + 1)
        <3>1. ops[i + 1] \in OpSet
            BY <2>1, <1>4
        <3>. DEFINE o == ops[i + 1]
                    p == P[i]
                    q == Q[i]
                    p1 == P[i + 1]
                    q1 == Q[i + 1]
        <3>2. /\ p \in Nat /\ q \in Nat /\ p1 \in Nat /\ q1 \in Nat
              /\ p1 <= Len(t) /\ q1 <= Len(u) /\ o \in OpSet
              /\ Seg(o, t, p, p1, u, q, q1)
            BY <3>1, <2>3, <2>4
        <3>. HIDE DEF o, p, q, p1, q1
        <3>3. JsApplyOp(t, [pos |-> p, out |-> SubSeq(u, 1, q)], o) =
                  [pos |-> p1, out |-> SubSeq(u, 1, q1)]
            BY <3>2, JsApplySeg
        <3>. QED
            BY <3>3 DEF o, p, q, p1, q1
    <2>. QED
        BY <2>1, <2>2, <2>5
<1>9. m \in S
    <2>1. m \in 0..m
        BY <1>4
    <2>. HIDE DEF S
    <2>. QED
        BY <2>1, <1>4, <1>7, <1>8, Induction
<1>10. SubSeq(u, 1, Len(u)) = u
    BY SubSeqFull DEF Text
<1>11. z[m].out = u
    <2>1. z[m] = G(m)
        BY <1>9
    <2>2. G(m).out = SubSeq(u, 1, Len(u))
        BY <1>6
    <2>. HIDE DEF G
    <2>. QED
        BY <2>1, <2>2, <1>10
<1>. QED
    BY <1>1, <1>3, <1>11 DEF m, ops

-----------------------------------------------------------------------------
(* The tab *)

TabStates == [joined : BOOLEAN, A : Changeset, X : Changeset, Y : Changeset,
              rev : Nat, sub : Nat, waiting : BOOLEAN, screen : Text,
              editing : BOOLEAN]

LEMMA EmptyText == <<>> \in Text /\ Len(<<>>) = 0
BY DEF Text

LEMMA NewTabType == NewTab \in TabStates
<1>1. Identity(0) \in Changeset
    BY IdentityType
<1>. QED
    BY <1>1, EmptyText DEF NewTab, TabStates, identity

LEMMA SnapshotEdit ==
    ASSUME NEW t \in Text
    PROVE  Snapshot(t) \in Changeset /\ Edit(<<>>, Snapshot(t), t)
<1>. DEFINE n == Len(t)
            ops == IF t = <<>> THEN <<>> ELSE <<Insert(t)>>
            none == <<>>
<1>1. n \in Nat /\ (t = <<>> => n = 0) /\ (t # <<>> => n > 0)
    BY LenProperties, EmptySeq DEF Text
<1>2. Snapshot(t) = [oldLen |-> 0, newLen |-> n, ops |-> ops]
    BY DEF Snapshot
<1>3. <<>> \in Seq(OpSet) /\ Normal(<<>>) /\ Align(none, 0, <<>>, t, 0, 0, 0)
    BY EmptyOps, AlignEmpty
<1>4. ops \in Seq(OpSet) /\ Normal(ops) /\ Align(none, 0, ops, t, 0, 0, n)
    <2>1. CASE t = <<>>
        BY <2>1, <1>1, <1>3
    <2>2. CASE t # <<>>
        <3>. DEFINE o == Insert(t)
        <3>1. o = [op |-> "insert", chars |-> t]
            BY DEF Insert
        <3>2. o \in OpSet
            BY <2>2, <3>1 DEF OpSet
        <3>3. Seg(o, none, 0, 0, t, 0, n)
            BY <1>1, <3>1 DEF Seg
        <3>. HIDE DEF o, n, none
        <3>4. Align(none, 0, addOp(<<>>, o), t, 0, 0, n)
            BY <1>1, <1>3, <3>2, <3>3, AlignAddOp
        <3>5. addOp(<<>>, o) = <<o>> /\ ops = <<o>>
            BY <2>2 DEF addOp, o
        <3>6. <<o>> \in Seq(OpSet) /\ Len(<<o>>) = 1
            BY <3>2
        <3>7. Normal(<<o>>)
            BY <3>6 DEF Normal
        <3>. QED
            BY <3>4, <3>5, <3>6, <3>7
    <2>. QED
        BY <2>1, <2>2
<1>. HIDE DEF ops
<1>5. Leads(none, Snapshot(t), t)
    <2>1. none \in Text /\ Len(none) = 0
        BY EmptyText
    <2>. HIDE DEF none
    <2>. QED
        BY <1>1, <1>2, <1>4, <2>1 DEF Leads
<1>. QED
    BY <1>1, <1>2, <1>4, <1>5, EmptyText DEF Edit, Changeset

LEMMA BaseTextType ==
    ASSUME NEW s, s.A \in Changeset
    PROVE  baseText(s) \in Text
<1>1. s.A.ops \in Seq(OpSet)
    BY DEF Changeset
<1>2. JsApply(<<>>, s.A) \in [ok : BOOLEAN, text : Text]
    BY <1>1, EmptyText, JsApplyType
<1>. QED
    BY <1>2 DEF baseText

LEMMA JsApplyText ==
    ASSUME NEW t \in Text, NEW c \in Changeset
    PROVE  JsApply(t, c).text \in Text /\ JsApply(t, c).ok \in BOOLEAN
<1>1. c.ops \in Seq(OpSet)
    BY DEF Changeset
<1>. QED
    BY <1>1, JsApplyType

LEMMA CatchUpType ==
    ASSUME NEW s \in TabStates, NEW v \in Revision
    PROVE  CatchUp(s, v) \in TabStates
<1>. DEFINE text == JsApply(baseText(s), v.cs)
            X == Follow(v.cs, s.X)
            Y == Follow(Follow(X, v.cs), s.Y)
            a == Snapshot(text.text)
<1>1. v.cs \in Changeset /\ s.X \in Changeset /\ s.Y \in Changeset /\ s.A \in Changeset
    BY DEF Revision, TabStates
<1>2. text.text \in Text
    BY <1>1, BaseTextType, JsApplyText
<1>3. X \in Changeset
    BY <1>1, FollowType
<1>. HIDE DEF X, text
<1>4. Y \in Changeset
    <2>1. Follow(X, v.cs) \in Changeset
        BY <1>1, <1>3, FollowType
    <2>. QED
        BY <2>1, <1>1, FollowType
<1>5. a \in Changeset
    BY <1>2, SnapshotEdit
<1>. HIDE DEF Y, a
<1>6. CatchUp(s, v) = IF ~ text.ok THEN s
                      ELSE [s EXCEPT !.A = a, !.X = X, !.Y = Y]
    BY DEF CatchUp, follow, text, X, Y, a
<1>. QED
    BY <1>3, <1>4, <1>5, <1>6 DEF TabStates

\* The missed revisions, one after the other.
Resynchronised(s, m, z) ==
    /\ Resynchronise(s, m) = IF s.rev = 0 THEN [s EXCEPT !.A = Snapshot(m.text)]
                             ELSE z[Len(m.catchUp)]
    /\ z[0] = s
    /\ \A k \in 1..Len(m.catchUp) : z[k] = CatchUp(z[k - 1], m.catchUp[k])
    /\ \A k \in 0..Len(m.catchUp) : z[k] \in TabStates

LEMMA ResynchroniseStates ==
    ASSUME NEW s \in TabStates, NEW m, m.catchUp \in Seq(Revision)
    PROVE  \E z : Resynchronised(s, m, z)
<1>. DEFINE n == Len(m.catchUp)
            State(f) == [k \in 0..n |-> IF k = 0 THEN s
                                        ELSE CatchUp(f[k - 1], m.catchUp[k])]
            z == CHOOSE f : f = State(f)
            F == [x \in (1..n) \X TabStates |-> CatchUp(x[2], m.catchUp[x[1]])]
<1>1. Resynchronise(s, m) = IF s.rev = 0 THEN [s EXCEPT !.A = Snapshot(m.text)]
                          ELSE z[n]
    BY Zenon DEF Resynchronise
<1>2. n \in Nat /\ \A k \in 1..n : m.catchUp[k] \in Revision
    BY LenProperties, ElementOfSeq
<1>. HIDE DEF n
<1>4. s \in TabStates
    OBVIOUS
<1>5. StaysIn(n, TabStates, F)
    BY <1>2, CatchUpType DEF StaysIn
<1>6. PICK g \in [0..n -> TabStates] :
          g[0] = s /\ \A k \in 1..n : g[k] = F[<<k, g[k - 1]>>]
    <2>. HIDE DEF F, State
    <2>1. Solvable(n, TabStates, s, F)
        BY <1>2, <1>4, <1>5, Recursion
    <2>. QED
        BY <2>1 DEF Solvable
<1>7. g = State(g)
    <2>1. ASSUME NEW k \in 0..n
          PROVE  g[k] = IF k = 0 THEN s ELSE CatchUp(g[k - 1], m.catchUp[k])
        <3>1. CASE k = 0
            BY <3>1, <1>6
        <3>2. CASE k # 0
            <4>1. k \in 1..n /\ k - 1 \in 0..n /\ g[k - 1] \in TabStates
                BY <3>2, <1>2
            <4>2. F[<<k, g[k - 1]>>] = CatchUp(g[k - 1], m.catchUp[k])
                BY <4>1
            <4>. QED
                BY <3>2, <4>1, <4>2, <1>6
        <3>. QED
            BY <3>1, <3>2
    <2>2. g = [k \in 0..n |-> g[k]]
        BY <1>6
    <2>. HIDE DEF F
    <2>. QED
        BY <2>1, <2>2
<1>. HIDE DEF F
<1>8. z = State(z)
    <2>. HIDE DEF State
    <2>. QED
        BY <1>7, Zenon
<1>. HIDE DEF z
<1>9. \A k \in 0..n : z[k] = IF k = 0 THEN s ELSE CatchUp(z[k - 1], m.catchUp[k])
    BY <1>8, Zenon
<1>. HIDE DEF State
<1>10. \A k \in 0..n : z[k] \in TabStates
    <2>1. 0 \in 0..n /\ z[0] \in TabStates
        BY <1>2, <1>4, <1>9
    <2>2. Unrolls(n, TabStates, F, z)
        <3>1. ASSUME NEW k \in 1..n, z[k - 1] \in TabStates
              PROVE  z[k] = F[<<k, z[k - 1]>>]
            <4>1. k \in 0..n /\ k # 0
                BY <1>2
            <4>2. z[k] = CatchUp(z[k - 1], m.catchUp[k])
                BY <4>1, <1>9
            <4>. QED
                BY <3>1, <4>2 DEF F
        <3>. QED
            BY <3>1 DEF Unrolls
    <2>. QED
        BY <1>2, <1>5, <2>1, <2>2, Unrolled
<1>11. \A k \in 1..n : z[k] = CatchUp(z[k - 1], m.catchUp[k])
    <2>1. \A k \in 1..n : k \in 0..n /\ k # 0
        BY <1>2
    <2>. QED
        BY <2>1, <1>9
<1>12. z[0] = s
    <2>1. 0 \in 0..n
        BY <1>2
    <2>. QED
        BY <2>1, <1>9
<1>13. Resynchronised(s, m, z)
    BY <1>1, <1>10, <1>11, <1>12, Zenon DEF Resynchronised, n
<1>. QED
    BY <1>13

-----------------------------------------------------------------------------
(* The handlers keep the types *)

AckMessage == [type : {"ACK"}, rev : Nat]
BroadcastMessage == [type : {"BROADCAST"}, rev : Nat, cs : Changeset]
Greeting == [type : {"CONNECT_ACK"}, text : Text, rev : Nat,
             catchUp : Seq(Revision)]

LEMMA ResynchroniseType ==
    ASSUME NEW s \in TabStates, NEW m \in Greeting
    PROVE  Resynchronise(s, m) \in TabStates
<1>1. m.catchUp \in Seq(Revision) /\ m.text \in Text
    BY DEF Greeting
<1>2. PICK z : Resynchronised(s, m, z)
    BY <1>1, ResynchroniseStates
<1>3. Len(m.catchUp) \in 0..Len(m.catchUp)
    BY <1>1, LenProperties
<1>4. z[Len(m.catchUp)] \in TabStates
    BY <1>2, <1>3, Zenon DEF Resynchronised
<1>5. Snapshot(m.text) \in Changeset
    BY <1>1, SnapshotEdit
<1>6. [s EXCEPT !.A = Snapshot(m.text)] \in TabStates
    BY <1>5 DEF TabStates
<1>7. Resynchronise(s, m) = IF s.rev = 0 THEN [s EXCEPT !.A = Snapshot(m.text)]
                            ELSE z[Len(m.catchUp)]
    BY <1>2, Zenon DEF Resynchronised
<1>. QED
    BY <1>4, <1>6, <1>7

LEMMA RedrawnType ==
    ASSUME NEW s \in TabStates, NEW r \in Nat
    PROVE  Redrawn(s, r) \in TabStates
<1>. DEFINE base == baseText(s)
            afterX == JsApply(base, s.X)
            afterY == JsApply(afterX.text, s.Y)
            a == Snapshot(base)
            i == Identity(Len(base))
            common == [s EXCEPT !.joined = TRUE, !.rev = r, !.editing = TRUE,
                                !.A = a]
<1>1. s.A \in Changeset /\ s.X \in Changeset /\ s.Y \in Changeset
    BY DEF TabStates
<1>2. base \in Text
    BY <1>1, BaseTextType
<1>. HIDE DEF base
<1>3. afterX.text \in Text
    BY <1>1, <1>2, JsApplyText
<1>. HIDE DEF afterX
<1>4. afterY.text \in Text
    BY <1>1, <1>3, JsApplyText
<1>5. a \in Changeset
    BY <1>2, SnapshotEdit
<1>6. i \in Changeset
    <2>1. Len(base) \in Nat
        BY <1>2, LenProperties DEF Text
    <2>. QED
        BY <2>1, IdentityType
<1>. HIDE DEF afterY, a, i
<1>7. common \in TabStates
    BY <1>5 DEF TabStates
<1>. HIDE DEF common
<1>8. Redrawn(s, r) = IF s.joined /\ afterX.ok /\ afterY.ok
                      THEN [common EXCEPT !.screen = afterY.text]
                      ELSE [common EXCEPT !.screen = base, !.X = i, !.Y = i]
    BY Zenon DEF Redrawn, identity, base, afterX, afterY, a, i, common
<1>9. [common EXCEPT !.screen = afterY.text] \in TabStates
    BY <1>4, <1>7 DEF TabStates
<1>10. [common EXCEPT !.screen = base, !.X = i, !.Y = i] \in TabStates
    BY <1>2, <1>6, <1>7 DEF TabStates
<1>. QED
    BY <1>8, <1>9, <1>10

LEMMA HandleConnectAckType ==
    ASSUME NEW s \in TabStates, NEW m \in Greeting
    PROVE  HandleConnectAck(s, m) \in TabStates
<1>1. m.rev \in Nat
    BY DEF Greeting
<1>. QED
    BY <1>1, ResynchroniseType, RedrawnType DEF HandleConnectAck

LEMMA HandleAckType ==
    ASSUME NEW s \in TabStates, NEW m \in AckMessage
    PROVE  HandleAck(s, m) \in TabStates
<1>. DEFINE A == Compose(s.A, s.X)
            i == Identity(A.newLen)
<1>1. s.A \in Changeset /\ s.X \in Changeset /\ m.rev \in Nat
    BY DEF TabStates, AckMessage
<1>2. A \in Changeset
    BY <1>1, ComposeType
<1>. HIDE DEF A
<1>3. i \in Changeset
    <2>1. A.newLen \in Nat
        BY <1>2 DEF Changeset
    <2>. QED
        BY <2>1, IdentityType
<1>. HIDE DEF i
<1>4. HandleAck(s, m) = IF ~ s.joined THEN s
                        ELSE [s EXCEPT !.A = A, !.X = i, !.rev = m.rev,
                                       !.waiting = FALSE]
    BY DEF HandleAck, compose, identity, A, i
<1>. QED
    BY <1>1, <1>2, <1>3, <1>4 DEF TabStates

LEMMA HandleBroadcastType ==
    ASSUME NEW s \in TabStates, NEW m \in BroadcastMessage
    PROVE  HandleBroadcast(s, m) \in TabStates
<1>. DEFINE afterX == JsApply(baseText(s), s.X)
            Y == DiffToChangeset(afterX.text, s.screen)
            XB == Follow(s.X, m.cs)
            A1 == Compose(s.A, m.cs)
            X1 == Follow(m.cs, s.X)
            Y1 == Follow(XB, Y)
            YB == Follow(Y, XB)
            t == JsApply(s.screen, YB).text
<1>1. /\ s.A \in Changeset /\ s.X \in Changeset /\ s.Y \in Changeset
      /\ m.rev \in Nat /\ m.cs \in Changeset /\ s.screen \in Text
    BY DEF TabStates, BroadcastMessage
<1>2. afterX.text \in Text
    BY <1>1, BaseTextType, JsApplyText
<1>. HIDE DEF afterX
<1>3. Y \in Changeset /\ XB \in Changeset
    BY <1>1, <1>2, DiffType, FollowType
<1>. HIDE DEF Y, XB
<1>4. A1 \in Changeset /\ X1 \in Changeset
    BY <1>1, ComposeType, FollowType
<1>5. Y1 \in Changeset /\ YB \in Changeset
    BY <1>3, FollowType
<1>. HIDE DEF A1, X1, Y1, YB
<1>6. t \in Text
    BY <1>1, <1>5, JsApplyText
<1>. HIDE DEF t
<1>7. HandleBroadcast(s, m) =
          IF ~ s.joined \/ ~ afterX.ok THEN s
          ELSE [s EXCEPT !.A = A1, !.X = X1, !.Y = Y1, !.rev = m.rev,
                         !.screen = t]
    BY DEF HandleBroadcast, compose, follow, diffToChangeset, afterX, Y, XB, A1,
           X1, Y1, YB, t
<1>. QED
    BY <1>1, <1>4, <1>5, <1>6, <1>7 DEF TabStates

LEMMA UnsentType ==
    ASSUME NEW s \in TabStates
    PROVE  Unsent(s) \in Changeset
<1>. DEFINE afterX == JsApply(baseText(s), s.X)
            t == IF ~ IsIdentity(s.X) /\ afterX.ok THEN afterX.text
                 ELSE baseText(s)
<1>1. s.A \in Changeset /\ s.X \in Changeset /\ s.screen \in Text
    BY DEF TabStates
<1>2. baseText(s) \in Text /\ afterX.text \in Text
    BY <1>1, BaseTextType, JsApplyText
<1>. HIDE DEF afterX
<1>3. t \in Text
    BY <1>2
<1>4. Unsent(s) = DiffToChangeset(t, s.screen)
    BY Zenon DEF Unsent, diffToChangeset, t, afterX
<1>. QED
    BY <1>1, <1>3, <1>4, DiffType

LEMMA MoveToXType ==
    ASSUME NEW s \in TabStates
    PROVE  MoveToX(s) \in TabStates
<1>. DEFINE i == Identity(Len(s.screen))
            X == Unsent(s)
<1>1. s.screen \in Text /\ s.sub + 1 \in Nat
    BY DEF TabStates
<1>2. i \in Changeset
    <2>1. Len(s.screen) \in Nat
        BY <1>1, LenProperties DEF Text
    <2>. QED
        BY <2>1, IdentityType
<1>3. X \in Changeset
    BY UnsentType
<1>. HIDE DEF i, X
<1>4. MoveToX(s) = [s EXCEPT !.X = X, !.Y = i, !.waiting = TRUE, !.sub = @ + 1]
    BY DEF MoveToX, identity, i, X
<1>. QED
    BY <1>1, <1>2, <1>3, <1>4 DEF TabStates

-----------------------------------------------------------------------------
(* Types of the composition *)

ConnectMessage == [type : {"CONNECT"}, rev : Nat]
SubmitMessage == [type : {"SUBMIT"}, client : ClientIds, sub : Nat, base : Nat,
                  cs : Changeset]
RedirectMessage(N) == [type : {"REDIRECT"}, address : N \cup {Nobody}]
UpMessage == ConnectMessage \cup SubmitMessage
DownMessage(N) == AckMessage \cup BroadcastMessage \cup Greeting
                      \cup RedirectMessage(N)
Parts == {"revisions", "text", "rev"}
Phases == Parts \cup {"reading", "gone"}
\* While handleConnect reads, CONNECT has not been taken off yet.
Connection(N) ==
    {c \in [tab : Tab, node : N, open : BOOLEAN, pc : Phases,
            up : Seq(UpMessage), down : Seq(DownMessage(N)),
            ack : Greeting, future : Nat] :
        c.pc \in Parts => c.up # <<>> /\ Head(c.up).type = "CONNECT"}
Outcome == [client : ClientIds, rev : Nat, dup : BOOLEAN, cs : Changeset]

LogTypes ==
    /\ log \in Seq(Entry) /\ proposals \subseteq Entry /\ proposed \in Nat
    /\ leader \in Node
DocTypes ==
    /\ doc \in [Node -> Document] /\ applied \in [Node -> Nat]
    /\ results \in [Node -> Seq(Outcome)]
    /\ clients \in [Node -> [ClientIds -> Nat]]
TabTypes ==
    /\ tab \in [Tab -> TabStates] /\ home \in [Tab -> Node]
    /\ current \in [Tab -> Nat] /\ \A t \in Tab : current[t] \in 0..Len(conns)
    /\ author \in Seq(Tab)
TypeOK ==
    /\ scenario \in Scenarios
    /\ LogTypes /\ DocTypes /\ TabTypes
    /\ conns \in Seq(Connection(Node))

LEMMA ScenarioFacts ==
    ASSUME scenario \in Scenarios
    PROVE  Node # {} /\ Nobody \notin Node /\ InitText \in Text
BY ScenarioAssumption DEF Node, InitText, Text

LEMMA IdOfType ==
    ASSUME NEW t \in Tab
    PROVE  IdOf(t) \in ClientIds
BY IdAssumption DEF IdOf

LEMMA HeadOfSeq ==
    ASSUME NEW S, NEW s \in Seq(S), s # <<>>
    PROVE  Head(s) \in S /\ Tail(s) \in Seq(S) /\ Len(s) > 0 /\ Len(s) \in Nat
           /\ Head(s) = s[1]
BY HeadTailProperties, EmptySeq, LenProperties

LEMMA QueueType ==
    ASSUME NEW N, NEW c \in Connection(N), NEW m \in DownMessage(N)
    PROVE  Queue(c, m) \in Connection(N)
<1>1. c.down \in Seq(DownMessage(N))
    BY DEF Connection
<1>2. Append(c.down, m) \in Seq(DownMessage(N))
    BY <1>1, AppendProperties, Zenon
<1>. DEFINE w == Append(c.down, m)
<1>. HIDE DEF w
<1>3. Queue(c, m) = IF c.open /\ Len(c.down) < QueueCap THEN [c EXCEPT !.down = w]
                    ELSE c
    BY DEF Queue, w
<1>4. w \in Seq(DownMessage(N))
    BY <1>2 DEF w
<1>5. [c EXCEPT !.down = w] \in Connection(N)
    BY <1>4 DEF Connection
<1>. QED
    BY <1>3, <1>5

LEMMA RevisionsSinceType ==
    ASSUME NEW d \in Document, NEW r \in Nat
    PROVE  RevisionsSince(d, r) \in Seq(Revision)
<1>1. headRev(d) \in Nat /\ \A i \in 1..headRev(d) : d.revs[i] \in Revision
    BY RevsFacts
<1>2. \A i \in (r + 1)..headRev(d) : d.revs[i] \in Revision
    BY <1>1
<1>3. r + 1 \in Int /\ headRev(d) \in Int
    BY <1>1
<1>. HIDE DEF headRev
<1>. QED
    BY <1>2, <1>3, SubSeqProperties, Zenon DEF RevisionsSince

LEMMA ReadPartType ==
    ASSUME NEW N, NEW c \in Connection(N), NEW d \in Document,
           NEW part \in Parts,
           Head(c.up).rev \in Nat
    PROVE  /\ ReadPart(c, d, part) \in Connection(N)
           /\ ReadPart(c, d, part).up = c.up
<1>1. c.ack \in Greeting /\ d.text \in Text /\ headRev(d) \in Nat
    BY RevsFacts DEF Connection, Document
<1>2. RevisionsSince(d, Head(c.up).rev) \in Seq(Revision)
    BY RevisionsSinceType
<1>. DEFINE rs == RevisionsSince(d, Head(c.up).rev)
            h == headRev(d)
            txt == d.text
<1>3. ReadPart(c, d, part) =
          CASE part = "revisions" -> [c EXCEPT !.ack.catchUp = rs]
            [] part = "text" -> [c EXCEPT !.ack.text = txt]
            [] part = "rev" -> [c EXCEPT !.ack.rev = h]
    BY DEF ReadPart
<1>4. rs \in Seq(Revision) /\ h \in Nat /\ txt \in Text
    BY <1>1, <1>2
<1>. HIDE DEF rs, h, txt
<1>5. /\ [c.ack EXCEPT !.catchUp = rs] \in Greeting
      /\ [c.ack EXCEPT !.text = txt] \in Greeting
      /\ [c.ack EXCEPT !.rev = h] \in Greeting
    BY <1>1, <1>4 DEF Greeting
<1>6. \A a \in Greeting : /\ [c EXCEPT !.ack = a] \in Connection(N)
                          /\ [c EXCEPT !.ack = a].up = c.up
    BY DEF Connection
<1>7. /\ [c EXCEPT !.ack.catchUp = rs] = [c EXCEPT !.ack = [c.ack EXCEPT !.catchUp = rs]]
      /\ [c EXCEPT !.ack.text = txt] = [c EXCEPT !.ack = [c.ack EXCEPT !.text = txt]]
      /\ [c EXCEPT !.ack.rev = h] = [c EXCEPT !.ack = [c.ack EXCEPT !.rev = h]]
    BY DEF Connection
<1>. QED
    BY <1>3, <1>5, <1>6, <1>7 DEF Parts

LEMMA GreetedType ==
    ASSUME NEW N, NEW c \in Connection(N), c.up # <<>>
    PROVE  Greeted(c) \in Connection(N)
<1>1. c.ack \in DownMessage(N)
    BY DEF Connection, DownMessage
<1>. DEFINE q == Queue(c, c.ack)
<1>2. q \in Connection(N)
    BY <1>1, QueueType
<1>3. q.up = c.up
    BY DEF Queue, Connection
<1>4. q.up \in Seq(UpMessage)
    BY <1>2 DEF Connection
<1>5. Tail(q.up) \in Seq(UpMessage)
    BY <1>3, <1>4, HeadOfSeq
<1>6. Greeted(c) = [q EXCEPT !.up = Tail(q.up), !.pc = "reading"]
    BY DEF Greeted
<1>. HIDE DEF q
<1>. QED
    BY <1>2, <1>5, <1>6 DEF Connection, Phases, Parts

LEMMA DeliveredType ==
    ASSUME NEW N, NEW cs \in Seq(Connection(N)), NEW n, NEW r \in Outcome
    PROVE  Delivered(cs, n, r) \in Seq(Connection(N))
           /\ Len(Delivered(cs, n, r)) = Len(cs)
<1>. DEFINE a == [type |-> "ACK", rev |-> r.rev]
            b == [type |-> "BROADCAST", rev |-> r.rev, cs |-> r.cs]
            z == Delivered(cs, n, r)
<1>1. r.rev \in Nat /\ r.cs \in Changeset
    BY DEF Outcome
<1>2. a \in DownMessage(N) /\ b \in DownMessage(N)
    BY <1>1 DEF DownMessage, AckMessage, BroadcastMessage
<1>3. Len(cs) \in Nat /\ DOMAIN cs = 1..Len(cs)
    BY LenProperties
<1>4. ASSUME NEW k \in 1..Len(cs)
      PROVE  z[k] \in {cs[k], Queue(cs[k], a), Queue(cs[k], b)}
    <2>1. z[k] = CASE clients[n][r.client] = k -> Queue(cs[k], a)
                   [] /\ ~ r.dup
                      /\ \E i \in ClientIds \ {r.client} : clients[n][i] = k ->
                          Queue(cs[k], b)
                   [] OTHER -> cs[k]
        BY <1>3, Zenon DEF Delivered
    <2>. HIDE DEF z
    <2>. QED
        BY <2>1
<1>. HIDE DEF a, b
<1>5. ASSUME NEW k \in 1..Len(cs) PROVE z[k] \in Connection(N)
    <2>1. cs[k] \in Connection(N)
        BY ElementOfSeq
    <2>2. Queue(cs[k], a) \in Connection(N) /\ Queue(cs[k], b) \in Connection(N)
        BY <2>1, <1>2, QueueType
    <2>. HIDE DEF z
    <2>. QED
        BY <2>1, <2>2, <1>4
<1>6. z = [k \in 1..Len(cs) |-> z[k]]
    BY <1>3 DEF Delivered
<1>. HIDE DEF z
<1>7. z \in [1..Len(cs) -> Connection(N)]
    BY <1>5, <1>6
<1>8. z \in Seq(Connection(N)) /\ Len(z) = Len(cs)
    BY <1>3, <1>7
<1>. QED
    BY <1>8 DEF z

LEMMA ResultsType ==
    ASSUME NEW d \in Document, NEW e \in Entry
    PROVE  /\ Results(d, e, AfterEntry(d, e)) \in Seq(Outcome)
           /\ Results(d, e, AfterEntry(d, e)) # <<>> =>
                  Results(d, e, AfterEntry(d, e))[1] \in Outcome
<1>. DEFINE u == AfterEntry(d, e)
            v1 == [client |-> e.client, rev |-> headRev(d), dup |-> TRUE,
                   cs |-> Identity(0)]
            v2 == [client |-> e.client, rev |-> headRev(u), dup |-> FALSE,
                   cs |-> Last(u.revs).cs]
            z == Results(d, e, u)
<1>1. u \in Document /\ headRev(u) \in Nat /\ headRev(d) \in Nat
    BY AfterEntryCases, RevsFacts
<1>2. e.client \in ClientIds
    BY DEF Entry
<1>3. v1 \in Outcome
    BY <1>1, <1>2, IdentityType DEF Outcome
<1>4. u # d => v2 \in Outcome
    <2>1. u # d => Appended(d, e, u)
        BY AfterEntryCases
    <2>2. d.revs \in Seq(Revision) /\ Len(d.revs) \in Nat
        BY RevsFacts, LenProperties
    <2>3. u # d => Len(u.revs) = Len(d.revs) + 1
        BY <2>1, <2>2 DEF Appended
    <2>4. u # d => Last(u.revs) = u.revs[Len(u.revs)] /\ Len(u.revs) \in 1..headRev(u)
        BY <1>1, <2>2, <2>3, RevsFacts DEF Last
    <2>5. u # d => Last(u.revs).cs \in Changeset
        BY <1>1, <2>4, RevsFacts
    <2>. QED
        BY <2>5, <1>1, <1>2 DEF Outcome
<1>5. z = <<v1>> \/ (u # d /\ z = <<v2>>) \/ z = <<>>
    BY DEF Results
<1>. HIDE DEF v1, v2, z, u
<1>6. z \in Seq(Outcome) /\ (z # <<>> => z[1] \in Outcome)
    <2>1. ASSUME NEW v \in Outcome PROVE <<v>> \in Seq(Outcome) /\ <<v>>[1] \in Outcome
        OBVIOUS
    <2>2. <<>> \in Seq(Outcome)
        OBVIOUS
    <2>3. CASE z = <<v1>>
        BY <2>1, <2>3, <1>3
    <2>4. CASE u # d /\ z = <<v2>>
        BY <2>1, <2>4, <1>4
    <2>5. CASE z = <<>>
        BY <2>2, <2>5
    <2>. QED
        BY <2>3, <2>4, <2>5, <1>5
<1>. QED
    BY <1>6 DEF z, u

-----------------------------------------------------------------------------
(* Every action keeps the types *)

LEMMA KeepLog ==
    ASSUME LogTypes, UNCHANGED raftVars, scenario' = scenario
    PROVE  LogTypes'
BY DEF LogTypes, raftVars, Node

LEMMA KeepDocs ==
    ASSUME DocTypes, UNCHANGED <<docVars, clients>>, scenario' = scenario
    PROVE  DocTypes'
BY DEF DocTypes, docVars, Node

LEMMA KeepTabs ==
    ASSUME TabTypes, UNCHANGED <<tabVars, author>>, scenario' = scenario,
           Len(conns') = Len(conns)
    PROVE  TabTypes'
BY DEF TabTypes, tabVars, Node

LEMMA KeepConns ==
    ASSUME conns \in Seq(Connection(Node)), UNCHANGED conns, scenario' = scenario
    PROVE  (conns \in Seq(Connection(Node)))' /\ Len(conns') = Len(conns)
BY DEF Node

LEMMA FunctionSeq ==
    ASSUME NEW S, NEW n \in Nat, NEW f \in [1..n -> S]
    PROVE  f \in Seq(S) /\ Len(f) = n
OBVIOUS

\* One connection changes.
LEMMA OneConn ==
    ASSUME conns \in Seq(Connection(Node)), scenario' = scenario,
           NEW k, NEW c, k \in DOMAIN conns => c \in Connection(Node),
           conns' = [conns EXCEPT ![k] = c]
    PROVE  (conns \in Seq(Connection(Node)))' /\ Len(conns') = Len(conns)
<1>1. /\ Len(conns) \in Nat /\ DOMAIN conns = 1..Len(conns)
      /\ conns \in [1..Len(conns) -> Connection(Node)]
    BY LenProperties
<1>. DEFINE N == Node
<1>. HIDE DEF N
<1>2. conns \in [1..Len(conns) -> Connection(N)] /\ (k \in 1..Len(conns) => c \in Connection(N))
    BY <1>1 DEF N
<1>3. conns' \in [1..Len(conns) -> Connection(N)]
    BY <1>2
<1>4. conns' \in Seq(Connection(N)) /\ Len(conns') = Len(conns)
    BY <1>1, <1>3, FunctionSeq
<1>5. N = Node'
    BY DEF N, Node
<1>. QED
    BY <1>4, <1>5

LEMMA ConnFacts ==
    ASSUME TypeOK, NEW k \in DOMAIN conns
    PROVE  /\ conns[k] \in Connection(Node)
           /\ conns[k].tab \in Tab /\ conns[k].node \in Node
           /\ conns[k].open \in BOOLEAN /\ conns[k].pc \in Phases
           /\ conns[k].up \in Seq(UpMessage)
           /\ conns[k].down \in Seq(DownMessage(Node))
           /\ conns[k].ack \in Greeting /\ conns[k].future \in Nat
           /\ k \in Nat /\ k \in 1..Len(conns) /\ Len(conns) \in Nat
<1>1. /\ Len(conns) \in Nat /\ DOMAIN conns = 1..Len(conns)
      /\ conns \in Seq(Connection(Node))
    BY LenProperties DEF TypeOK
<1>2. conns[k] \in Connection(Node)
    BY <1>1, ElementOfSeq
<1>. QED
    BY <1>1, <1>2 DEF Connection

LEMMA TypeConnect ==
    ASSUME TypeOK, NEW t \in Tab, Connect(t)
    PROVE  TypeOK'
<1>. DEFINE m == [type |-> "CONNECT", rev |-> tab[t].rev]
            a == [type |-> "CONNECT_ACK", text |-> <<>>, rev |-> 0, catchUp |-> <<>>]
            c == [tab |-> t, node |-> home[t], open |-> TRUE, pc |-> "reading",
                  up |-> <<m>>, down |-> <<>>, ack |-> a, future |-> 0]
<1>1. /\ LogTypes /\ DocTypes /\ TabTypes /\ scenario \in Scenarios
      /\ conns \in Seq(Connection(Node)) /\ Len(conns) \in Nat
    BY LenProperties DEF TypeOK
<1>2. /\ scenario' = scenario /\ conns' = Append(conns, c)
      /\ UNCHANGED <<raftVars, docVars, clients, tab, home, author>>
      /\ current' = [current EXCEPT ![t] = Len(conns')]
    BY DEF Connect, bounds, history
<1>3. /\ tab \in [Tab -> TabStates] /\ home \in [Tab -> Node]
      /\ current \in [Tab -> Nat] /\ \A v \in Tab : current[v] \in 0..Len(conns)
      /\ author \in Seq(Tab)
    BY <1>1 DEF TabTypes
<1>4. c \in Connection(Node)
    <2>1. tab[t].rev \in Nat /\ home[t] \in Node
        BY <1>3 DEF TabStates
    <2>2. m \in UpMessage
        BY <2>1 DEF UpMessage, ConnectMessage
    <2>3. a \in Greeting
        <3>1. <<>> \in Seq(Revision)
            OBVIOUS
        <3>. QED
            BY <3>1, EmptyText DEF Greeting
    <2>. HIDE DEF m, a
    <2>4. <<m>> \in Seq(UpMessage) /\ <<>> \in Seq(DownMessage(Node))
        BY <2>2
    <2>. QED
        BY <2>1, <2>3, <2>4 DEF Connection, Phases, Parts
<1>. HIDE DEF c
<1>5. Node' = Node
    BY <1>2 DEF Node
<1>6. conns' \in Seq(Connection(Node)) /\ Len(conns') = Len(conns) + 1
    BY <1>1, <1>2, <1>4, AppendProperties
<1>7. TabTypes'
    BY <1>1, <1>2, <1>3, <1>5, <1>6 DEF TabTypes
<1>8. LogTypes' /\ DocTypes'
    BY <1>1, <1>2, KeepLog, KeepDocs
<1>. QED
    BY <1>1, <1>2, <1>5, <1>6, <1>7, <1>8 DEF TypeOK

LEMMA HangupConns ==
    ASSUME TypeOK, NEW t \in Tab, NEW h, Hangup(t, h), current[t] # 0
    PROVE  /\ current[t] \in DOMAIN conns
           /\ conns' = [conns EXCEPT ![current[t]] =
                           [conns[current[t]] EXCEPT !.open = FALSE, !.down = <<>>]]
<1>1. /\ conns \in Seq(Connection(Node)) /\ Len(conns) \in Nat
      /\ current[t] \in 0..Len(conns) /\ DOMAIN conns = 1..Len(conns)
    BY LenProperties DEF TypeOK, TabTypes
<1>. DEFINE k == current[t]
<1>2. conns' = [conns EXCEPT ![k].open = FALSE, ![k].down = <<>>]
    BY DEF Hangup
<1>3. k \in 1..Len(conns)
    BY <1>1
<1>. HIDE DEF k
<1>4. conns' = [conns EXCEPT ![k] = [conns[k] EXCEPT !.open = FALSE, !.down = <<>>]]
    BY <1>1, <1>2, <1>3
<1>. QED
    BY <1>1, <1>3, <1>4 DEF k

LEMMA TypeHangup ==
    ASSUME TypeOK, NEW t \in Tab, NEW h \in Node, Hangup(t, h), current[t] # 0,
           UNCHANGED <<raftVars, docVars, clients, author, scenario>>
    PROVE  TypeOK'
<1>1. /\ LogTypes /\ DocTypes /\ TabTypes /\ scenario \in Scenarios
      /\ conns \in Seq(Connection(Node)) /\ Len(conns) \in Nat
    BY LenProperties DEF TypeOK
<1>2. /\ tab' = [tab EXCEPT ![t] = Closed(tab[t])]
      /\ current' = [current EXCEPT ![t] = 0]
      /\ home' = [home EXCEPT ![t] = h]
    BY DEF Hangup
<1>3. /\ tab \in [Tab -> TabStates] /\ home \in [Tab -> Node]
      /\ current \in [Tab -> Nat] /\ \A v \in Tab : current[v] \in 0..Len(conns)
      /\ author \in Seq(Tab)
    BY <1>1 DEF TabTypes
<1>4. Closed(tab[t]) \in TabStates
    BY <1>3 DEF Closed, TabStates
<1>. DEFINE k == current[t]
            c == [conns[k] EXCEPT !.open = FALSE, !.down = <<>>]
<1>5. k \in DOMAIN conns /\ conns' = [conns EXCEPT ![k] = c]
    BY HangupConns
<1>6. c \in Connection(Node)
    <2>1. conns[k] \in Connection(Node)
        BY <1>5, ConnFacts
    <2>2. <<>> \in Seq(DownMessage(Node))
        OBVIOUS
    <2>. HIDE DEF k
    <2>. QED
        BY <2>1, <2>2 DEF Connection
<1>. HIDE DEF c, k
<1>7. (conns \in Seq(Connection(Node)))' /\ Len(conns') = Len(conns)
    BY <1>1, <1>5, <1>6, OneConn
<1>8. Node' = Node
    BY DEF Node
<1>9. TabTypes'
    BY <1>1, <1>2, <1>3, <1>4, <1>7, <1>8 DEF TabTypes
<1>10. LogTypes' /\ DocTypes'
    BY <1>1, KeepLog, KeepDocs
<1>. QED
    BY <1>1, <1>7, <1>9, <1>10 DEF TypeOK

LEMMA TypeDisconnect ==
    ASSUME TypeOK, NEW t \in Tab, Disconnect(t)
    PROVE  TypeOK'
<1>1. home[t] \in Node
    BY DEF TypeOK, TabTypes
<1>2. /\ Hangup(t, home[t]) /\ current[t] # 0
      /\ UNCHANGED <<raftVars, docVars, clients, author, scenario>>
    BY DEF Disconnect, history, bounds
<1>. QED
    BY <1>1, <1>2, TypeHangup

LEMMA TypeType ==
    ASSUME TypeOK, NEW t \in Tab, Type(t)
    PROVE  TypeOK'
<1>. DEFINE s == tab[t].screen
            c == Len(author) + 1
<1>1. /\ LogTypes /\ DocTypes /\ TabTypes /\ scenario \in Scenarios
      /\ conns \in Seq(Connection(Node))
    BY DEF TypeOK
<1>2. /\ scenario' = scenario /\ conns' = conns
      /\ UNCHANGED <<raftVars, docVars, clients, current, home>>
    BY DEF Type, bounds
<1>3. /\ tab \in [Tab -> TabStates] /\ home \in [Tab -> Node]
      /\ current \in [Tab -> Nat] /\ \A v \in Tab : current[v] \in 0..Len(conns)
      /\ author \in Seq(Tab)
    BY <1>1 DEF TabTypes
<1>4. s \in Text /\ Len(s) \in Nat /\ Len(author) \in Nat
    BY <1>3, LenProperties DEF TabStates, Text
<1>5. \A w \in Text : [tab EXCEPT ![t].screen = w] \in [Tab -> TabStates]
    BY <1>3 DEF TabStates
<1>6. (author' = Append(author, t) \/ author' = author)
      /\ \E w \in Text : tab' = [tab EXCEPT ![t].screen = w]
    <2>1. CASE /\ author' = Append(author, t)
               /\ \E p \in 0..Len(s) : tab' = [tab EXCEPT ![t].screen =
                     SubSeq(s, 1, p) \o <<c>> \o SubSeq(s, p + 1, Len(s))]
        <3>1. PICK p \in 0..Len(s) : tab' = [tab EXCEPT ![t].screen =
                     SubSeq(s, 1, p) \o <<c>> \o SubSeq(s, p + 1, Len(s))]
            BY <2>1
        <3>2. SubSeq(s, 1, p) \in Text
            BY <1>4, Beginning
        <3>3. SubSeq(s, p + 1, Len(s)) \in Text
            BY <1>4, Piece
        <3>4. <<c>> \in Text
            BY <1>4 DEF Text
        <3>. HIDE DEF s, c
        <3>5. SubSeq(s, 1, p) \o <<c>> \in Text
            BY <3>2, <3>4, Longer
        <3>6. SubSeq(s, 1, p) \o <<c>> \o SubSeq(s, p + 1, Len(s)) \in Text
            BY <3>3, <3>5, Longer
        <3>. QED
            BY <2>1, <3>1, <3>6
    <2>2. CASE /\ author' = author
               /\ \E p \in DOMAIN s : tab' = [tab EXCEPT ![t].screen =
                     SubSeq(s, 1, p - 1) \o SubSeq(s, p + 1, Len(s))]
        <3>1. PICK p \in DOMAIN s : tab' = [tab EXCEPT ![t].screen =
                     SubSeq(s, 1, p - 1) \o SubSeq(s, p + 1, Len(s))]
            BY <2>2
        <3>2. p \in 1..Len(s)
            BY <1>4, <3>1 DEF Text
        <3>. HIDE DEF s
        <3>3. SubSeq(s, 1, p - 1) \in Text
            BY <3>2, <1>4, Beginning
        <3>4. SubSeq(s, p + 1, Len(s)) \in Text
            BY <3>2, <1>4, Piece
        <3>5. SubSeq(s, 1, p - 1) \o SubSeq(s, p + 1, Len(s)) \in Text
            BY <3>3, <3>4, Longer
        <3>. QED
            BY <2>2, <3>1, <3>5
    <2>. QED
        BY <2>1, <2>2, Zenon DEF Type
<1>7. tab' \in [Tab -> TabStates]
    BY <1>5, <1>6
<1>8. author' \in Seq(Tab)
    <2>1. Append(author, t) \in Seq(Tab)
        BY <1>3, AppendProperties
    <2>. QED
        BY <1>3, <1>6, <2>1
<1>9. TabTypes'
    BY <1>2, <1>3, <1>7, <1>8 DEF TabTypes, Node
<1>10. LogTypes' /\ DocTypes'
    BY <1>1, <1>2, KeepLog, KeepDocs
<1>. QED
    BY <1>1, <1>2, <1>9, <1>10 DEF TypeOK, Node

LEMMA SubmissionType ==
    ASSUME NEW s \in TabStates, NEW i \in ClientIds
    PROVE  Submission(s, i) \in UpMessage
BY DEF TabStates, Submission, UpMessage, SubmitMessage

LEMMA HeadAppend ==
    ASSUME NEW S, NEW s \in Seq(S), NEW m \in S, s # <<>>
    PROVE  Append(s, m) # <<>> /\ Head(Append(s, m)) = Head(s)
<1>1. Len(s) \in Nat /\ Len(s) > 0
    BY HeadOfSeq
<1>. QED
    BY <1>1

LEMMA TypeTransmit ==
    ASSUME TypeOK, NEW t \in Tab, NEW s \in TabStates, Transmit(t, s),
           scenario' = scenario
    PROVE  (conns \in Seq(Connection(Node)))' /\ Len(conns') = Len(conns)
<1>. DEFINE k == current[t]
            m == Submission(s, IdOf(t))
            c == [conns[k] EXCEPT !.up = Append(conns[k].up, m)]
<1>1. conns \in Seq(Connection(Node))
    BY DEF TypeOK
<1>2. m \in UpMessage
    BY IdOfType, SubmissionType
<1>3. conns' = [conns EXCEPT ![k].up = Append(@, m)]
    BY Zenon DEF Transmit
<1>. HIDE DEF m, k
<1>4. k \in DOMAIN conns => c \in Connection(Node)
    <2>1. ASSUME k \in DOMAIN conns PROVE c \in Connection(Node)
        <3>1. conns[k] \in Connection(Node) /\ conns[k].up \in Seq(UpMessage)
            BY <2>1, ConnFacts
        <3>2. Append(conns[k].up, m) \in Seq(UpMessage)
            BY <3>1, <1>2, AppendProperties, Zenon
        <3>3. conns[k].up # <<>> => /\ Append(conns[k].up, m) # <<>>
                                    /\ Head(Append(conns[k].up, m)) = Head(conns[k].up)
            BY <3>1, <1>2, HeadAppend
        <3>. DEFINE w == Append(conns[k].up, m)
                    b == conns[k]
        <3>4. /\ w \in Seq(UpMessage) /\ b \in Connection(Node)
              /\ b.up # <<>> => w # <<>> /\ Head(w) = Head(b.up)
            BY <3>1, <3>2, <3>3
        <3>5. c = [b EXCEPT !.up = w]
            OBVIOUS
        <3>. HIDE DEF w, b
        <3>6. [b EXCEPT !.up = w] \in Connection(Node)
            BY <3>4 DEF Connection
        <3>. QED
            BY <3>5, <3>6
    <2>. QED
        BY <2>1
<1>5. conns' = [conns EXCEPT ![k] = c]
    BY <1>3
<1>. HIDE DEF c
<1>. QED
    BY <1>1, <1>4, <1>5, OneConn

LEMMA TypeSubmitTick ==
    ASSUME TypeOK, NEW t \in Tab, SubmitTick(t)
    PROVE  TypeOK'
<1>1. /\ LogTypes /\ DocTypes /\ TabTypes /\ scenario \in Scenarios
      /\ tab \in [Tab -> TabStates]
    BY DEF TypeOK, TabTypes
<1>2. /\ scenario' = scenario /\ tab' = [tab EXCEPT ![t] = MoveToX(tab[t])]
      /\ Transmit(t, tab'[t])
      /\ UNCHANGED <<raftVars, docVars, clients, current, home, author>>
    BY DEF SubmitTick, bounds, history
<1>3. tab' \in [Tab -> TabStates]
    BY <1>1, <1>2, MoveToXType
<1>4. (conns \in Seq(Connection(Node)))' /\ Len(conns') = Len(conns)
    BY <1>2, <1>3, TypeTransmit
<1>5. TabTypes'
    BY <1>1, <1>2, <1>3, <1>4 DEF TabTypes, Node
<1>6. LogTypes' /\ DocTypes'
    BY <1>1, <1>2, KeepLog, KeepDocs
<1>. QED
    BY <1>1, <1>2, <1>4, <1>5, <1>6 DEF TypeOK

LEMMA TypeResend ==
    ASSUME TypeOK, NEW t \in Tab, Resend(t)
    PROVE  TypeOK'
<1>1. /\ LogTypes /\ DocTypes /\ TabTypes /\ scenario \in Scenarios
      /\ tab[t] \in TabStates
    BY DEF TypeOK, TabTypes
<1>2. /\ scenario' = scenario /\ Transmit(t, tab[t])
      /\ UNCHANGED <<raftVars, docVars, clients, tabVars, author>>
    BY DEF Resend, history
<1>4. (conns \in Seq(Connection(Node)))' /\ Len(conns') = Len(conns)
    BY <1>1, <1>2, TypeTransmit
<1>5. LogTypes' /\ DocTypes' /\ TabTypes'
    BY <1>1, <1>2, <1>4, KeepLog, KeepDocs, KeepTabs
<1>. QED
    BY <1>1, <1>2, <1>4, <1>5 DEF TypeOK

LEMMA IncomingFacts ==
    ASSUME TypeOK, NEW t \in Tab, Incoming(t)
    PROVE  /\ current[t] \in DOMAIN conns /\ current[t] # 0
           /\ conns[current[t]].down # <<>>
           /\ Head(conns[current[t]].down) \in DownMessage(Node)
           /\ Tail(conns[current[t]].down) \in Seq(DownMessage(Node))
<1>1. /\ current[t] \in 0..Len(conns) /\ current[t] # 0
      /\ conns[current[t]].down # <<>> /\ conns \in Seq(Connection(Node))
    BY DEF TypeOK, TabTypes, Incoming
<1>2. current[t] \in DOMAIN conns
    BY <1>1, LenProperties
<1>3. conns[current[t]].down \in Seq(DownMessage(Node))
    BY <1>2, ConnFacts
<1>. QED
    BY <1>1, <1>2, <1>3, HeadOfSeq

LEMMA MessageKinds ==
    ASSUME NEW N, NEW m \in DownMessage(N)
    PROVE  /\ m.type = "REDIRECT" => m.address \in N \cup {Nobody}
           /\ m.type = "CONNECT_ACK" => m \in Greeting
           /\ m.type = "ACK" => m \in AckMessage
           /\ m.type = "BROADCAST" => m \in BroadcastMessage
           /\ m.type \in {"REDIRECT", "CONNECT_ACK", "ACK", "BROADCAST"}
BY DEF DownMessage, AckMessage, BroadcastMessage, Greeting, RedirectMessage

LEMMA HandledType ==
    ASSUME TypeOK, NEW t \in Tab, NEW m \in DownMessage(Node), m.type # "REDIRECT"
    PROVE  Handled(t, m) \in TabStates
<1>1. tab[t] \in TabStates
    BY DEF TypeOK, TabTypes
<1>2. CASE m.type = "CONNECT_ACK"
    <2>1. Handled(t, m) = HandleConnectAck(tab[t], m)
        BY <1>2 DEF Handled
    <2>. QED
        BY <1>1, <1>2, <2>1, MessageKinds, HandleConnectAckType
<1>3. CASE m.type = "ACK"
    <2>1. Handled(t, m) = HandleAck(tab[t], m)
        BY <1>3 DEF Handled
    <2>. QED
        BY <1>1, <1>3, <2>1, MessageKinds, HandleAckType
<1>4. CASE m.type = "BROADCAST"
    <2>1. Handled(t, m) = HandleBroadcast(tab[t], m)
        BY <1>4 DEF Handled
    <2>. QED
        BY <1>1, <1>4, <2>1, MessageKinds, HandleBroadcastType
<1>. QED
    BY <1>2, <1>3, <1>4, MessageKinds

LEMMA TypeReceive ==
    ASSUME TypeOK, NEW t \in Tab, Receive(t)
    PROVE  TypeOK'
<1>. DEFINE k == current[t]
            m == Head(conns[k].down)
            rest == Tail(conns[k].down)
<1>1. /\ k \in DOMAIN conns /\ k # 0 /\ m \in DownMessage(Node)
      /\ rest \in Seq(DownMessage(Node))
    BY IncomingFacts DEF Receive
<1>2. UNCHANGED <<raftVars, docVars, clients, author, scenario>>
    BY DEF Receive, history, bounds
<1>3. CASE /\ m.type = "REDIRECT"
           /\ Hangup(t, IF m.address = Nobody THEN home[t] ELSE m.address)
    <2>1. (IF m.address = Nobody THEN home[t] ELSE m.address) \in Node
        <3>1. home[t] \in Node
            BY DEF TypeOK, TabTypes
        <3>2. m.address \in Node \cup {Nobody}
            BY <1>1, <1>3, MessageKinds
        <3>. HIDE DEF m
        <3>. QED
            BY <3>1, <3>2
    <2>. HIDE DEF m
    <2>. QED
        BY <1>1, <1>2, <1>3, <2>1, TypeHangup
<1>4. CASE /\ m.type # "REDIRECT"
           /\ tab' = [tab EXCEPT ![t] = Handled(t, m)]
           /\ conns' = [conns EXCEPT ![k].down = Tail(@)]
           /\ UNCHANGED <<current, home>>
    <2>1. /\ LogTypes /\ DocTypes /\ TabTypes /\ scenario \in Scenarios
          /\ tab \in [Tab -> TabStates] /\ conns \in Seq(Connection(Node))
        BY DEF TypeOK, TabTypes
    <2>2. Handled(t, m) \in TabStates
        BY <1>1, <1>4, HandledType
    <2>. DEFINE c == [conns[k] EXCEPT !.down = rest]
    <2>3. conns' = [conns EXCEPT ![k] = c]
        BY <1>4
    <2>4. conns[k] \in Connection(Node)
        BY <1>1, ConnFacts
    <2>. HIDE DEF m, k, rest
    <2>5. c \in Connection(Node)
        BY <2>4, <1>1 DEF Connection
    <2>. HIDE DEF c
    <2>6. (conns \in Seq(Connection(Node)))' /\ Len(conns') = Len(conns)
        BY <1>2, <2>1, <2>3, <2>5, OneConn
    <2>7. TabTypes'
        BY <1>2, <1>4, <2>1, <2>2, <2>6 DEF TabTypes, Node
    <2>8. LogTypes' /\ DocTypes'
        BY <1>2, <2>1, KeepLog, KeepDocs
    <2>. QED
        BY <1>2, <2>1, <2>6, <2>7, <2>8 DEF TypeOK
<1>. QED
    BY <1>3, <1>4, Zenon DEF Receive

\* Most steps of a server change one of its connections only.
LEMMA TypeOneConn ==
    ASSUME TypeOK, NEW k \in DOMAIN conns, NEW c \in Connection(Node),
           conns' = [conns EXCEPT ![k] = c],
           LogTypes', UNCHANGED <<docVars, tabVars, author, scenario>>,
           clients' \in [Node -> [ClientIds -> Nat]]
    PROVE  TypeOK'
<1>1. (conns \in Seq(Connection(Node)))' /\ Len(conns') = Len(conns)
    BY OneConn DEF TypeOK
<1>2. DocTypes' /\ TabTypes'
    BY <1>1, KeepTabs DEF TypeOK, DocTypes, docVars, Node
<1>. QED
    BY <1>1, <1>2 DEF TypeOK

LEMMA UpKinds ==
    ASSUME NEW m \in UpMessage
    PROVE  /\ m.type = "CONNECT" => m.rev \in Nat
           /\ m.type = "SUBMIT" => m \in SubmitMessage
           /\ m.type \in {"CONNECT", "SUBMIT"}
BY DEF UpMessage, ConnectMessage, SubmitMessage

LEMMA TypeRegistry ==
    ASSUME TypeOK, NEW n \in Node, NEW i \in ClientIds, NEW k \in Nat,
           clients' = [clients EXCEPT ![n][i] = k]
    PROVE  clients' \in [Node -> [ClientIds -> Nat]]
<1>1. clients \in [Node -> [ClientIds -> Nat]]
    BY DEF TypeOK, DocTypes
<1>2. [clients[n] EXCEPT ![i] = k] \in [ClientIds -> Nat]
    BY <1>1
<1>. QED
    BY <1>1, <1>2

\* All three reads, one after the other.
AllParts(c, d) ==
    ReadPart(ReadPart(ReadPart(c, d, "revisions"), d, "text"), d, "rev")

LEMMA AllPartsType ==
    ASSUME NEW N, NEW c \in Connection(N), NEW d \in Document,
           Head(c.up).rev \in Nat
    PROVE  AllParts(c, d) \in Connection(N) /\ AllParts(c, d).up = c.up
<1>. DEFINE c1 == ReadPart(c, d, "revisions")
            c2 == ReadPart(c1, d, "text")
<1>0. {"revisions", "text", "rev"} \subseteq Parts
    BY DEF Parts
<1>1. c1 \in Connection(N) /\ c1.up = c.up
    BY <1>0, ReadPartType
<1>. HIDE DEF c1
<1>2. c2 \in Connection(N) /\ c2.up = c.up
    BY <1>0, <1>1, ReadPartType
<1>. HIDE DEF c2
<1>3. ReadPart(c2, d, "rev") \in Connection(N) /\ ReadPart(c2, d, "rev").up = c.up
    BY <1>0, <1>2, ReadPartType
<1>. QED
    BY <1>3 DEF AllParts, c1, c2

LEMMA TypeHandleConnect ==
    ASSUME TypeOK, NEW k \in DOMAIN conns, HandleConnect(k) \/ ConnectAtOnce(k)
    PROVE  TypeOK'
<1>. DEFINE c == conns[k]
            n == c.node
            m == Head(c.up)
<1>1. /\ c \in Connection(Node) /\ c.tab \in Tab /\ n \in Node /\ k \in Nat
      /\ c.up \in Seq(UpMessage) /\ doc[n] \in Document
    BY ConnFacts DEF TypeOK, DocTypes
<1>2. /\ c.up # <<>> /\ m.type = "CONNECT" /\ c.pc = "reading"
      /\ clients' = [clients EXCEPT ![n][IdOf(c.tab)] = k]
      /\ UNCHANGED <<raftVars, docVars, tabVars, author, scenario>>
    BY DEF HandleConnect, ConnectAtOnce, Admit, history, bounds
<1>3. m \in UpMessage /\ Tail(c.up) \in Seq(UpMessage)
    BY <1>1, <1>2, HeadOfSeq
<1>4. m.rev \in Nat
    BY <1>2, <1>3, UpKinds
<1>5. clients' \in [Node -> [ClientIds -> Nat]]
    <2>1. IdOf(c.tab) \in ClientIds
        BY <1>1, IdOfType
    <2>. HIDE DEF c, n
    <2>. QED
        BY <1>1, <1>2, <2>1, TypeRegistry
<1>6. LogTypes'
    BY <1>2, KeepLog DEF TypeOK
<1>7. \E v \in Connection(Node) : conns' = [conns EXCEPT ![k] = v]
    <2>1. CASE \E h \in Hints(n) \ {Nobody} :
                   conns' = [conns EXCEPT ![k] =
                         Queue([c EXCEPT !.up = Tail(@)],
                               [type |-> "REDIRECT", address |-> h])]
        <3>1. PICK h \in Hints(n) \ {Nobody} :
                   conns' = [conns EXCEPT ![k] =
                         Queue([c EXCEPT !.up = Tail(@)],
                               [type |-> "REDIRECT", address |-> h])]
            BY <2>1
        <3>2. h \in Node
            BY <3>1 DEF Hints, TypeOK, LogTypes
        <3>3. [type |-> "REDIRECT", address |-> h] \in DownMessage(Node)
            BY <3>2 DEF DownMessage, RedirectMessage
        <3>4. [c EXCEPT !.up = Tail(c.up)] \in Connection(Node)
            BY <1>1, <1>2, <1>3 DEF Connection, Parts
        <3>5. Queue([c EXCEPT !.up = Tail(c.up)],
                    [type |-> "REDIRECT", address |-> h]) \in Connection(Node)
            BY <3>3, <3>4, QueueType
        <3>. QED
            BY <3>1, <3>5
    <2>2. CASE conns' = [conns EXCEPT ![k] = [c EXCEPT !.pc = "revisions"]]
        <3>1. [c EXCEPT !.pc = "revisions"] \in Connection(Node)
            BY <1>1, <1>2 DEF Connection, Phases, Parts
        <3>. QED
            BY <2>2, <3>1
    <2>3. CASE conns' = [conns EXCEPT ![k] = Greeted(AllParts(c, doc[n]))]
        <3>1. AllParts(c, doc[n]) \in Connection(Node) /\ AllParts(c, doc[n]).up # <<>>
            BY <1>1, <1>2, <1>4, AllPartsType
        <3>2. Greeted(AllParts(c, doc[n])) \in Connection(Node)
            BY <3>1, GreetedType
        <3>. QED
            BY <2>3, <3>2
    <2>. QED
        BY <2>1, <2>2, <2>3, Zenon DEF HandleConnect, ConnectAtOnce, Admit, AllParts
<1>. QED
    BY <1>2, <1>5, <1>6, <1>7, TypeOneConn

LEMMA TypeReadNext ==
    ASSUME TypeOK, NEW k \in DOMAIN conns, ReadNext(k)
    PROVE  TypeOK'
<1>. DEFINE c == conns[k]
            n == c.node
            next == [revisions |-> "text", text |-> "rev", rev |-> "reading"]
            read == ReadPart(c, doc[n], c.pc)
<1>1. /\ c \in Connection(Node) /\ n \in Node /\ doc[n] \in Document
      /\ c.up \in Seq(UpMessage)
    BY ConnFacts DEF TypeOK, DocTypes
<1>2. /\ c.pc \in Parts
      /\ conns' = [conns EXCEPT ![k] = IF c.pc = "rev" THEN Greeted(read)
                                       ELSE [read EXCEPT !.pc = next[c.pc]]]
      /\ UNCHANGED <<raftVars, docVars, clients, tabVars, author, scenario>>
    BY DEF ReadNext, history, bounds, Parts
<1>3. c.up # <<>> /\ Head(c.up).type = "CONNECT"
    BY <1>1, <1>2 DEF Connection
<1>4. Head(c.up).rev \in Nat
    BY <1>1, <1>3, HeadOfSeq, UpKinds
<1>5. read \in Connection(Node) /\ read.up = c.up
    BY <1>1, <1>2, <1>4, ReadPartType
<1>. HIDE DEF read
<1>6. Greeted(read) \in Connection(Node)
    BY <1>3, <1>5, GreetedType
<1>7. c.pc # "rev" => [read EXCEPT !.pc = next[c.pc]] \in Connection(Node)
    <2>1. c.pc # "rev" => next[c.pc] \in Phases
        BY <1>2 DEF Phases, Parts
    <2>. DEFINE p == next[c.pc]
    <2>. HIDE DEF next, p, c
    <2>2. p \in Phases => [read EXCEPT !.pc = p] \in Connection(Node)
        BY <1>3, <1>5 DEF Connection
    <2>. QED
        BY <2>1, <2>2 DEF p
<1>. DEFINE v == IF c.pc = "rev" THEN Greeted(read)
                 ELSE [read EXCEPT !.pc = next[c.pc]]
<1>8. v \in Connection(Node) /\ conns' = [conns EXCEPT ![k] = v]
    BY <1>2, <1>6, <1>7
<1>9. LogTypes' /\ clients' \in [Node -> [ClientIds -> Nat]]
    BY <1>2, KeepLog DEF TypeOK, DocTypes
<1>. HIDE DEF v
<1>. QED
    BY <1>2, <1>8, <1>9, TypeOneConn

LEMMA ProposeTypes ==
    ASSUME LogTypes, NEW i \in ClientIds, NEW sub \in Nat, NEW base \in Nat,
           NEW cs \in Changeset, Propose(i, sub, base, cs),
           UNCHANGED <<log, leader, scenario>>
    PROVE  LogTypes' /\ proposed' \in Nat
<1>1. proposed' = proposed + 1 /\ proposed \in Nat
    BY DEF Propose, LogTypes
<1>2. [no |-> proposed', client |-> i, sub |-> sub, base |-> base, cs |-> cs]
          \in Entry
    BY <1>1 DEF Entry
<1>. QED
    BY <1>1, <1>2 DEF Propose, LogTypes, Node

LEMMA TypeHandleSubmit ==
    ASSUME TypeOK, NEW k \in DOMAIN conns, HandleSubmit(k)
    PROVE  TypeOK'
<1>. DEFINE c == conns[k]
            m == Head(c.up)
            rest == [c EXCEPT !.up = Tail(c.up)]
<1>1. /\ c \in Connection(Node) /\ c.up \in Seq(UpMessage) /\ LogTypes
    BY ConnFacts DEF TypeOK
<1>2. /\ c.up # <<>> /\ m.type = "SUBMIT" /\ c.pc = "reading"
      /\ UNCHANGED <<log, leader, booted, docVars, clients, tabVars, author,
                     scenario>>
    BY DEF HandleSubmit, history, bounds
<1>3. m \in UpMessage /\ Tail(c.up) \in Seq(UpMessage)
    BY <1>1, <1>2, HeadOfSeq
<1>4. m \in SubmitMessage
    BY <1>2, <1>3, UpKinds
<1>5. rest \in Connection(Node)
    BY <1>1, <1>2, <1>3 DEF Connection, Parts
<1>6. clients' \in [Node -> [ClientIds -> Nat]]
    BY <1>2 DEF TypeOK, DocTypes
<1>7. CASE /\ \E answered \in Refused(rest) : conns' = [conns EXCEPT ![k] = answered]
           /\ UNCHANGED <<proposals, proposed>>
    <2>1. PICK v \in Refused(rest) : conns' = [conns EXCEPT ![k] = v]
        BY <1>7
    <2>. HIDE DEF rest
    <2>2. v \in Connection(Node)
        <3>1. CASE rest.node = leader
            BY <1>5, <2>1, <3>1 DEF Refused
        <3>2. CASE rest.node # leader
            <4>1. PICK h \in Hints(rest.node) :
                      v = Queue(rest, [type |-> "REDIRECT", address |-> h])
                BY <2>1, <3>2 DEF Refused
            <4>2. h \in Node \cup {Nobody}
                BY <1>1, <4>1 DEF Hints, LogTypes
            <4>3. [type |-> "REDIRECT", address |-> h] \in DownMessage(Node)
                BY <4>2 DEF DownMessage, RedirectMessage
            <4>. QED
                BY <1>5, <4>1, <4>3, QueueType
        <3>. QED
            BY <3>1, <3>2
    <2>3. LogTypes'
        BY <1>1, <1>2, <1>7 DEF LogTypes, Node
    <2>. QED
        BY <1>2, <1>6, <2>1, <2>2, <2>3, TypeOneConn
<1>8. CASE /\ Propose(m.client, m.sub, m.base, m.cs)
           /\ conns' = [conns EXCEPT ![k] = [rest EXCEPT !.future = proposed']]
    <2>1. LogTypes' /\ proposed' \in Nat
        <3>1. m.client \in ClientIds /\ m.sub \in Nat /\ m.base \in Nat /\ m.cs \in Changeset
            BY <1>4 DEF SubmitMessage
        <3>. HIDE DEF m
        <3>. QED
            BY <1>1, <1>2, <1>8, <3>1, ProposeTypes
    <2>. HIDE DEF rest
    <2>2. [rest EXCEPT !.future = proposed'] \in Connection(Node)
        BY <1>5, <2>1 DEF Connection
    <2>. QED
        BY <1>2, <1>6, <1>8, <2>1, <2>2, TypeOneConn
<1>. QED
    BY <1>7, <1>8, Zenon DEF HandleSubmit

LEMMA FutureEnds ==
    ASSUME TypeOK, NEW k \in DOMAIN conns,
           conns' = [conns EXCEPT ![k].future = 0],
           UNCHANGED <<raftVars, docVars, clients, tabVars, author, scenario>>
    PROVE  TypeOK'
<1>. DEFINE c == [conns[k] EXCEPT !.future = 0]
<1>1. conns[k] \in Connection(Node)
    BY ConnFacts
<1>2. c \in Connection(Node)
    BY <1>1 DEF Connection
<1>3. conns' = [conns EXCEPT ![k] = c]
    OBVIOUS
<1>4. LogTypes' /\ clients' \in [Node -> [ClientIds -> Nat]]
    BY KeepLog DEF TypeOK, DocTypes
<1>. HIDE DEF c
<1>. QED
    BY <1>2, <1>3, <1>4, TypeOneConn

LEMMA TypeFutureAnswered ==
    ASSUME TypeOK, NEW k \in DOMAIN conns, FutureAnswered(k)
    PROVE  TypeOK'
BY FutureEnds DEF FutureAnswered, history, bounds

LEMMA TypeFutureFails ==
    ASSUME TypeOK, NEW k \in DOMAIN conns, FutureFails(k)
    PROVE  TypeOK'
BY FutureEnds DEF FutureFails, history

LEMMA TypePumpExit ==
    ASSUME TypeOK, NEW k \in DOMAIN conns, PumpExit(k)
    PROVE  TypeOK'
<1>. DEFINE c == [conns[k] EXCEPT !.pc = "gone", !.up = <<>>]
<1>1. conns[k] \in Connection(Node) /\ conns[k].node \in Node /\ conns[k].tab \in Tab
    BY ConnFacts
<1>2. /\ conns' = [conns EXCEPT ![k].pc = "gone", ![k].up = <<>>]
      /\ UNCHANGED <<raftVars, docVars, tabVars, author, scenario>>
      /\ clients' = clients \/ RemoveClient(k)
    BY DEF PumpExit, history, bounds
<1>3. c \in Connection(Node)
    <2>1. <<>> \in Seq(UpMessage)
        OBVIOUS
    <2>. QED
        BY <1>1, <2>1 DEF Connection, Phases, Parts
<1>4. conns' = [conns EXCEPT ![k] = c]
    BY <1>2
<1>5. LogTypes'
    BY <1>2, KeepLog DEF TypeOK
<1>6. clients' \in [Node -> [ClientIds -> Nat]]
    <2>1. CASE clients' = clients
        BY <2>1 DEF TypeOK, DocTypes
    <2>2. CASE RemoveClient(k)
        <3>1. clients' = [clients EXCEPT ![conns[k].node][IdOf(conns[k].tab)] = 0]
            BY <2>2 DEF RemoveClient
        <3>2. IdOf(conns[k].tab) \in ClientIds
            BY <1>1, IdOfType
        <3>. QED
            BY <1>1, <3>1, <3>2, TypeRegistry
    <2>. QED
        BY <1>2, <2>1, <2>2
<1>. HIDE DEF c
<1>. QED
    BY <1>2, <1>3, <1>4, <1>5, <1>6, TypeOneConn

LEMMA TypeApplyNext ==
    ASSUME TypeOK, NEW n \in Node, ApplyNext(n) \/ ApplyAtOnce(n)
    PROVE  TypeOK'
<1>. DEFINE e == log[applied[n] + 1]
            d == AfterEntry(doc[n], e)
            rs == Results(doc[n], e, d)
<1>1. /\ LogTypes /\ DocTypes /\ TabTypes /\ scenario \in Scenarios
      /\ conns \in Seq(Connection(Node)) /\ log \in Seq(Entry)
      /\ doc \in [Node -> Document] /\ applied \in [Node -> Nat]
      /\ results \in [Node -> Seq(Outcome)]
      /\ clients \in [Node -> [ClientIds -> Nat]]
    BY DEF TypeOK, LogTypes, DocTypes
<1>2. /\ applied[n] < Len(log)
      /\ doc' = [doc EXCEPT ![n] = d]
      /\ applied' = [applied EXCEPT ![n] = applied[n] + 1]
      /\ UNCHANGED <<raftVars, clients, tabVars, author, scenario>>
    BY DEF ApplyNext, ApplyAtOnce, ApplyEntry, history, bounds
<1>3. e \in Entry
    <2>1. Len(log) \in Nat /\ applied[n] \in Nat
        BY <1>1, LenProperties
    <2>2. applied[n] + 1 \in 1..Len(log)
        BY <2>1, <1>2
    <2>. QED
        BY <1>1, <2>2, ElementOfSeq
<1>. HIDE DEF e
<1>4. d \in Document
    BY <1>1, <1>3, AfterEntryCases
<1>5. rs \in Seq(Outcome) /\ (rs # <<>> => rs[1] \in Outcome)
    BY <1>1, <1>3, ResultsType
<1>6. Results(doc[n], e, doc'[n]) = rs
    BY <1>1, <1>2
<1>. HIDE DEF d
<1>7. \/ results' = [results EXCEPT ![n] = @ \o rs] /\ conns' = conns
      \/ /\ conns' = IF rs = <<>> THEN conns ELSE Delivered(conns, n, rs[1])
         /\ results' = results
    BY <1>6, Zenon DEF ApplyNext, ApplyAtOnce, News, e
<1>. HIDE DEF rs
<1>8. doc' \in [Node -> Document] /\ applied' \in [Node -> Nat]
    BY <1>1, <1>2, <1>4
<1>9. results' \in [Node -> Seq(Outcome)]
    <2>1. results[n] \o rs \in Seq(Outcome)
        BY <1>1, <1>5, ConcatProperties
    <2>. QED
        BY <2>1, <1>1, <1>7
<1>10. conns' \in Seq(Connection(Node)) /\ Len(conns') = Len(conns)
    BY <1>1, <1>5, <1>7, DeliveredType
<1>11. Node' = Node
    BY <1>2 DEF Node
<1>12. LogTypes' /\ TabTypes'
    BY <1>1, <1>2, <1>10, KeepLog, KeepTabs
<1>13. DocTypes'
    BY <1>1, <1>2, <1>8, <1>9, <1>11 DEF DocTypes
<1>. QED
    BY <1>1, <1>2, <1>10, <1>11, <1>12, <1>13 DEF TypeOK

LEMMA RemoveAtType ==
    ASSUME NEW S, NEW s \in Seq(S), NEW j \in DOMAIN s
    PROVE  RemoveAt(s, j) \in Seq(S)
<1>1. Len(s) \in Nat /\ j \in 1..Len(s) /\ \A i \in 1..Len(s) : s[i] \in S
    BY LenProperties, ElementOfSeq
<1>2. SubSeq(s, 1, j - 1) \in Seq(S) /\ SubSeq(s, j + 1, Len(s)) \in Seq(S)
    <2>1. \A i \in 1..(j - 1) : s[i] \in S
        BY <1>1
    <2>2. \A i \in (j + 1)..Len(s) : s[i] \in S
        BY <1>1
    <2>3. 1 \in Int /\ j - 1 \in Int /\ j + 1 \in Int /\ Len(s) \in Int
        BY <1>1
    <2>4. SubSeq(s, 1, j - 1) \in Seq(S)
        BY <2>1, <2>3, SubSeqProperties, Zenon
    <2>5. SubSeq(s, j + 1, Len(s)) \in Seq(S)
        BY <2>2, <2>3, SubSeqProperties, Zenon
    <2>. QED
        BY <2>4, <2>5
<1>. QED
    BY <1>2, ConcatProperties DEF RemoveAt

LEMMA TypeOnCommit ==
    ASSUME TypeOK, NEW n \in Node, OnCommit(n)
    PROVE  TypeOK'
<1>1. /\ LogTypes /\ DocTypes /\ TabTypes /\ scenario \in Scenarios
      /\ conns \in Seq(Connection(Node)) /\ results \in [Node -> Seq(Outcome)]
    BY DEF TypeOK, DocTypes
<1>2. PICK j \in DOMAIN results[n] :
          /\ conns' = Delivered(conns, n, results[n][j])
          /\ results' = [results EXCEPT ![n] = RemoveAt(results[n], j)]
    BY DEF OnCommit
<1>3. /\ UNCHANGED <<raftVars, doc, applied, clients, tabVars, author, scenario>>
    BY DEF OnCommit, history, bounds
<1>4. results[n] \in Seq(Outcome) /\ results[n][j] \in Outcome
    BY <1>1, <1>2, ElementOfSeq, LenProperties
<1>5. conns' \in Seq(Connection(Node)) /\ Len(conns') = Len(conns)
    BY <1>1, <1>2, <1>4, DeliveredType
<1>6. results' \in [Node -> Seq(Outcome)]
    BY <1>1, <1>2, <1>4, RemoveAtType
<1>7. Node' = Node
    BY <1>3 DEF Node
<1>8. LogTypes' /\ TabTypes' /\ DocTypes'
    BY <1>1, <1>3, <1>5, <1>6, <1>7, KeepLog, KeepTabs DEF DocTypes
<1>. QED
    BY <1>1, <1>3, <1>5, <1>7, <1>8 DEF TypeOK

LEMMA TypeRestart ==
    ASSUME TypeOK, NEW n \in Node, Restart(n)
    PROVE  TypeOK'
<1>1. /\ LogTypes /\ DocTypes /\ TabTypes /\ scenario \in Scenarios
      /\ conns \in Seq(Connection(Node)) /\ Len(conns) \in Nat
      /\ DOMAIN conns = 1..Len(conns)
      /\ doc \in [Node -> Document] /\ applied \in [Node -> Nat]
      /\ results \in [Node -> Seq(Outcome)]
      /\ clients \in [Node -> [ClientIds -> Nat]]
      /\ tab \in [Tab -> TabStates] /\ home \in [Tab -> Node]
      /\ current \in [Tab -> Nat] /\ \A v \in Tab : current[v] \in 0..Len(conns)
      /\ author \in Seq(Tab)
    BY LenProperties DEF TypeOK, DocTypes, TabTypes
<1>2. /\ doc' = [doc EXCEPT ![n] = NewDocument]
      /\ applied' = [applied EXCEPT ![n] = 0]
      /\ results' = [results EXCEPT ![n] = <<>>]
      /\ clients' = [clients EXCEPT ![n] = [i \in ClientIds |-> 0]]
      /\ UNCHANGED <<log, proposals, leader, proposed, home, author, scenario>>
    BY DEF Restart, history
<1>. DEFINE c(k) == IF conns[k].node = n
                    THEN [conns[k] EXCEPT !.open = FALSE, !.pc = "gone",
                             !.up = <<>>, !.down = <<>>, !.future = 0]
                    ELSE conns[k]
            hit(t) == current[t] # 0 /\ conns[current[t]].node = n
<1>3. /\ conns' = [k \in DOMAIN conns |-> c(k)]
      /\ tab' = [t \in Tab |-> IF hit(t) THEN Closed(tab[t]) ELSE tab[t]]
      /\ current' = [t \in Tab |-> IF hit(t) THEN 0 ELSE current[t]]
    BY DEF Restart
<1>4. ASSUME NEW k \in 1..Len(conns) PROVE c(k) \in Connection(Node)
    <2>1. conns[k] \in Connection(Node)
        BY <1>1, ElementOfSeq
    <2>2. <<>> \in Seq(UpMessage) /\ <<>> \in Seq(DownMessage(Node))
        OBVIOUS
    <2>. QED
        BY <2>1, <2>2 DEF Connection, Phases, Parts
<1>. HIDE DEF c, hit
<1>5. conns' \in Seq(Connection(Node)) /\ Len(conns') = Len(conns)
    <2>1. conns' \in [1..Len(conns) -> Connection(Node)]
        BY <1>1, <1>3, <1>4
    <2>. QED
        BY <2>1, <1>1, FunctionSeq
<1>6. tab' \in [Tab -> TabStates]
    <2>1. \A t \in Tab : Closed(tab[t]) \in TabStates
        BY <1>1 DEF Closed, TabStates
    <2>. QED
        BY <1>1, <1>3, <2>1
<1>7. current' \in [Tab -> Nat] /\ \A v \in Tab : current'[v] \in 0..Len(conns)
    BY <1>1, <1>3
<1>8. Node' = Node
    BY <1>2 DEF Node
<1>9. TabTypes'
    BY <1>1, <1>2, <1>5, <1>6, <1>7, <1>8 DEF TabTypes
<1>10. DocTypes'
    <2>1. <<>> \in Seq(Outcome)
        OBVIOUS
    <2>2. [i \in ClientIds |-> 0] \in [ClientIds -> Nat]
        OBVIOUS
    <2>. QED
        BY <1>1, <1>2, <1>8, <2>1, <2>2, NewDocumentType DEF DocTypes
<1>11. LogTypes'
    BY <1>1, <1>2, <1>8 DEF LogTypes
<1>. QED
    BY <1>1, <1>2, <1>5, <1>8, <1>9, <1>10, <1>11 DEF TypeOK

\* Steps of the log and of main.go.
LEMMA TypeLogStep ==
    ASSUME TypeOK, LogTypes',
           UNCHANGED <<docVars, clients, conns, tabVars, author, scenario>>
    PROVE  TypeOK'
BY KeepDocs, KeepTabs, KeepConns DEF TypeOK

LEMMA TypeCommit ==
    ASSUME TypeOK, Commit
    PROVE  TypeOK'
<1>1. LogTypes /\ log \in Seq(Entry) /\ proposals \subseteq Entry
    BY DEF TypeOK, LogTypes
<1>2. PICK p \in proposals : log' = Append(log, p) /\ proposals' = proposals \ {p}
    BY DEF Commit
<1>3. UNCHANGED <<leader, proposed, docVars, clients, conns, tabVars, author, scenario>>
    BY DEF Commit, history, bounds
<1>4. Append(log, p) \in Seq(Entry)
    BY <1>1, <1>2, AppendProperties
<1>5. LogTypes'
    BY <1>1, <1>2, <1>3, <1>4 DEF LogTypes, Node
<1>. QED
    BY <1>3, <1>5, TypeLogStep

LEMMA TypeLoseProposal ==
    ASSUME TypeOK, LoseProposal
    PROVE  TypeOK'
<1>1. LogTypes
    BY DEF TypeOK
<1>2. UNCHANGED <<log, leader, proposed, docVars, clients, conns, tabVars, author, scenario>>
    BY DEF LoseProposal, history
<1>3. LogTypes'
    BY <1>1, <1>2 DEF LoseProposal, LogTypes, Node
<1>. QED
    BY <1>2, <1>3, TypeLogStep

LEMMA TypeFailover ==
    ASSUME TypeOK, Failover
    PROVE  TypeOK'
<1>1. LogTypes
    BY DEF TypeOK
<1>2. UNCHANGED <<log, proposals, proposed, docVars, clients, conns, tabVars, author, scenario>>
    BY DEF Failover, history
<1>3. LogTypes'
    BY <1>1, <1>2 DEF Failover, LogTypes, Node
<1>. QED
    BY <1>2, <1>3, TypeLogStep

LEMMA TypeBootstrap ==
    ASSUME TypeOK, Bootstrap
    PROVE  TypeOK'
<1>1. LogTypes /\ InitText \in Text
    BY ScenarioFacts DEF TypeOK
<1>2. UNCHANGED <<log, leader, docVars, clients, conns, tabVars, author, scenario>>
    BY DEF Bootstrap, history, bounds
<1>3. LogTypes'
    <2>1. System \in ClientIds /\ Snapshot(InitText) \in Changeset
        BY <1>1, IdAssumption, SnapshotEdit
    <2>. QED
        BY <1>1, <1>2, <2>1, ProposeTypes DEF Bootstrap
<1>. QED
    BY <1>2, <1>3, TypeLogStep

LEMMA InitTypes == Init => TypeOK
<1>. SUFFICES ASSUME Init PROVE TypeOK
    OBVIOUS
<1>1. scenario \in Scenarios /\ leader \in Node
    BY DEF Init
<1>2. LogTypes
    BY <1>1 DEF Init, LogTypes
<1>3. DocTypes
    <2>1. <<>> \in Seq(Outcome)
        OBVIOUS
    <2>. QED
        BY <2>1, NewDocumentType DEF Init, DocTypes
<1>4. Len(conns) = 0 /\ conns \in Seq(Connection(Node))
    BY DEF Init
<1>5. TabTypes
    <2>1. <<>> \in Seq(Tab)
        OBVIOUS
    <2>. QED
        BY <1>1, <1>4, <2>1, NewTabType DEF Init, TabTypes
<1>. QED
    BY <1>1, <1>2, <1>3, <1>4, <1>5 DEF TypeOK

LEMMA TypesKept == TypeOK /\ [Next]_vars => TypeOK'
<1>. SUFFICES ASSUME TypeOK, [Next]_vars PROVE TypeOK'
    OBVIOUS
<1>1. ASSUME NEW t \in Tab, TabStep(t) PROVE TypeOK'
    BY <1>1, TypeConnect, TypeDisconnect, TypeType, TypeSubmitTick, TypeResend,
       TypeReceive DEF TabStep
<1>2. ASSUME NEW k \in DOMAIN conns, ServerStep(k) PROVE TypeOK'
    BY <1>2, TypeHandleConnect, TypeReadNext, TypeHandleSubmit,
       TypeFutureAnswered, TypeFutureFails, TypePumpExit DEF ServerStep, Enters
<1>3. ASSUME NEW n \in Node, NodeStep(n) PROVE TypeOK'
    BY <1>3, TypeApplyNext, TypeOnCommit, TypeRestart DEF NodeStep, Applies
<1>4. CASE Commit \/ LoseProposal \/ Failover \/ Bootstrap
    BY <1>4, TypeCommit, TypeLoseProposal, TypeFailover, TypeBootstrap
<1>5. CASE UNCHANGED vars
    <2>1. UNCHANGED <<raftVars, docVars, clients, conns, tabVars, author, scenario>>
        BY <1>5 DEF vars, raftVars, docVars, tabVars
    <2>2. LogTypes'
        BY <2>1, KeepLog DEF TypeOK
    <2>. QED
        BY <2>1, <2>2, TypeLogStep
<1>. QED
    BY <1>1, <1>2, <1>3, <1>4, <1>5 DEF Next

(***************************************************************************)
(* Types, whatever the scenario.                                           *)
(***************************************************************************)
THEOREM SessionTypes == Spec => []TypeOK
BY InitTypes, TypesKept, PTL DEF Spec

-----------------------------------------------------------------------------
(* Documents and the log, whatever the scenario *)

\* Every document is the one that the log amounts to as far as it has been fed.
DocsInv ==
    \A n \in Node : /\ applied[n] \in 0..Len(log)
                    /\ doc[n] = DocumentAfter(log, applied[n])

LEMMA KeepDocsInv ==
    ASSUME DocsInv, UNCHANGED <<doc, applied, log, scenario>>
    PROVE  DocsInv'
BY DEF DocsInv, Node

LEMMA DocsApplyNext ==
    ASSUME TypeOK, DocsInv, NEW n \in Node, ApplyEntry(n)
    PROVE  DocsInv'
<1>. DEFINE a == applied[n]
            e == log[a + 1]
<1>1. /\ log \in Seq(Entry) /\ doc \in [Node -> Document]
      /\ applied \in [Node -> Nat] /\ Len(log) \in Nat
    BY LenProperties DEF TypeOK, LogTypes, DocTypes
<1>2. /\ a < Len(log)
      /\ doc' = [doc EXCEPT ![n] = AfterEntry(doc[n], e)]
      /\ applied' = [applied EXCEPT ![n] = a + 1]
      /\ log' = log /\ scenario' = scenario
    BY DEF ApplyEntry, raftVars, bounds
<1>3. /\ a \in Nat /\ a + 1 \in 0..Len(log) /\ a + 1 > 0 /\ (a + 1) - 1 = a
    BY <1>1, <1>2
<1>4. DocumentAfter(log, a + 1) = AfterEntry(DocumentAfter(log, a), e)
    BY <1>1, <1>3, DocumentAfterStep
<1>5. DocumentAfter(log, a) = doc[n]
    BY DEF DocsInv
<1>. HIDE DEF a, e
<1>6. ASSUME NEW v \in Node
      PROVE  applied'[v] \in 0..Len(log) /\ doc'[v] = DocumentAfter(log, applied'[v])
    <2>1. CASE v = n
        BY <2>1, <1>1, <1>2, <1>3, <1>4, <1>5
    <2>2. CASE v # n
        <3>1. applied'[v] = applied[v] /\ doc'[v] = doc[v]
            BY <2>2, <1>1, <1>2
        <3>. QED
            BY <3>1 DEF DocsInv
    <2>. QED
        BY <2>1, <2>2
<1>7. Node' = Node
    BY <1>2 DEF Node
<1>. QED
    BY <1>2, <1>6, <1>7 DEF DocsInv

LEMMA DocsRestart ==
    ASSUME TypeOK, DocsInv, NEW n \in Node, Restart(n)
    PROVE  DocsInv'
<1>1. /\ log \in Seq(Entry) /\ doc \in [Node -> Document]
      /\ applied \in [Node -> Nat] /\ Len(log) \in Nat
    BY LenProperties DEF TypeOK, LogTypes, DocTypes
<1>2. /\ doc' = [doc EXCEPT ![n] = NewDocument]
      /\ applied' = [applied EXCEPT ![n] = 0]
      /\ log' = log /\ scenario' = scenario
    BY DEF Restart
<1>3. 0 \in 0..Len(log) /\ DocumentAfter(log, 0) = NewDocument
    BY <1>1, DocumentAfterStep
<1>4. ASSUME NEW v \in Node
      PROVE  applied'[v] \in 0..Len(log) /\ doc'[v] = DocumentAfter(log, applied'[v])
    <2>1. CASE v = n
        BY <2>1, <1>1, <1>2, <1>3
    <2>2. CASE v # n
        <3>1. applied'[v] = applied[v] /\ doc'[v] = doc[v]
            BY <2>2, <1>1, <1>2
        <3>. QED
            BY <3>1 DEF DocsInv
    <2>. QED
        BY <2>1, <2>2
<1>5. Node' = Node
    BY <1>2 DEF Node
<1>. QED
    BY <1>2, <1>4, <1>5 DEF DocsInv

LEMMA DocsCommit ==
    ASSUME TypeOK, DocsInv, Commit
    PROVE  DocsInv'
<1>1. /\ log \in Seq(Entry) /\ proposals \subseteq Entry /\ Len(log) \in Nat
    BY LenProperties DEF TypeOK, LogTypes
<1>2. PICK p \in proposals : log' = Append(log, p)
    BY DEF Commit
<1>3. UNCHANGED <<doc, applied, scenario>>
    BY DEF Commit, docVars, bounds
<1>4. /\ Len(log') = Len(log) + 1
      /\ \A i \in 0..Len(log) : DocumentAfter(log', i) = DocumentAfter(log, i)
    BY <1>1, <1>2, DocumentAfterAppend
<1>5. Node' = Node
    BY <1>3 DEF Node
<1>6. 0..Len(log) \subseteq 0..Len(log')
    BY <1>1, <1>4
<1>. QED
    BY <1>3, <1>4, <1>5, <1>6 DEF DocsInv

LEMMA DocsKept == TypeOK /\ DocsInv /\ [Next]_vars => DocsInv'
<1>. SUFFICES ASSUME TypeOK, DocsInv, [Next]_vars PROVE DocsInv'
    OBVIOUS
<1>1. ASSUME NEW t \in Tab, TabStep(t) PROVE DocsInv'
    <2>1. UNCHANGED <<doc, applied, log, scenario>>
        BY <1>1 DEF TabStep, Connect, Disconnect, Type, SubmitTick, Resend,
           Receive, raftVars, docVars, bounds
    <2>. QED
        BY <2>1, KeepDocsInv
<1>2. ASSUME NEW k \in DOMAIN conns, ServerStep(k) PROVE DocsInv'
    <2>1. UNCHANGED <<doc, applied, log, scenario>>
        BY <1>2 DEF ServerStep, Enters, HandleConnect, ConnectAtOnce, Admit,
           ReadNext, HandleSubmit, FutureAnswered, FutureFails, PumpExit, raftVars,
           docVars, bounds
    <2>. QED
        BY <2>1, KeepDocsInv
<1>3. ASSUME NEW n \in Node, NodeStep(n) PROVE DocsInv'
    <2>1. CASE OnCommit(n)
        BY <2>1, KeepDocsInv DEF OnCommit, raftVars, bounds
    <2>. QED
        BY <1>3, <2>1, DocsApplyNext, DocsRestart
           DEF NodeStep, Applies, ApplyNext, ApplyAtOnce
<1>4. CASE LoseProposal \/ Failover \/ Bootstrap \/ UNCHANGED vars
    BY <1>4, KeepDocsInv DEF LoseProposal, Failover, Bootstrap, docVars, bounds, vars
<1>5. CASE Commit
    BY <1>5, DocsCommit
<1>. QED
    BY <1>1, <1>2, <1>3, <1>4, <1>5 DEF Next

LEMMA InitDocs == Init => DocsInv
<1>. SUFFICES ASSUME Init PROVE DocsInv
    OBVIOUS
<1>1. log \in Seq(Entry) /\ 0 \in 0..Len(log)
    BY DEF Init
<1>2. DocumentAfter(log, 0) = NewDocument
    BY <1>1, DocumentAfterStep
<1>. QED
    BY <1>1, <1>2 DEF Init, DocsInv

LEMMA DistinctAlong ==
    ASSUME NEW L \in Seq(Entry), NEW n \in 0..Len(L)
    PROVE  Distinct(DocumentAfter(L, n))
<1>. DEFINE S == {i \in 0..Len(L) : Distinct(DocumentAfter(L, i))}
<1>1. Len(L) \in Nat /\ \A i \in 1..Len(L) : L[i] \in Entry
    BY LenProperties, ElementOfSeq
<1>2. 0 \in S
    <2>1. 0 \in 0..Len(L) /\ DocumentAfter(L, 0) = NewDocument
        BY <1>1, DocumentAfterStep
    <2>2. Distinct(NewDocument)
        <3>1. DOMAIN NewDocument.revs = {}
            BY DEF NewDocument
        <3>. QED
            BY <3>1 DEF Distinct
    <2>. QED
        BY <2>1, <2>2
<1>3. ASSUME NEW i \in 0..(Len(L) - 1), i \in S PROVE i + 1 \in S
    <2>1. i + 1 \in 0..Len(L) /\ i + 1 > 0 /\ (i + 1) - 1 = i /\ i + 1 \in 1..Len(L)
          /\ i \in 0..Len(L)
        BY <1>1
    <2>2. DocumentAfter(L, i + 1) = AfterEntry(DocumentAfter(L, i), L[i + 1])
        BY <2>1, DocumentAfterStep
    <2>3. DocumentAfter(L, i) \in Document /\ L[i + 1] \in Entry
        BY <1>1, <2>1, DocumentAfterStep
    <2>. QED
        BY <1>3, <2>1, <2>2, <2>3, DistinctAfter
<1>. HIDE DEF S
<1>4. 0..Len(L) \subseteq S
    BY <1>1, <1>2, <1>3, Induction
<1>. QED
    BY <1>4 DEF S

LEMMA OnceInDocs == TypeOK /\ DocsInv => SubmissionOnce
<1>. SUFFICES ASSUME TypeOK, DocsInv, NEW n \in Node,
                     NEW i \in DOMAIN doc[n].revs, NEW j \in DOMAIN doc[n].revs,
                     i # j, doc[n].revs[i].source = doc[n].revs[j].source
              PROVE  doc[n].revs[i].sub # doc[n].revs[j].sub
    BY DEF SubmissionOnce
<1>1. log \in Seq(Entry)
    BY DEF TypeOK, LogTypes
<1>2. Distinct(doc[n])
    BY <1>1, DistinctAlong DEF DocsInv
<1>. QED
    BY <1>2, Zenon DEF Distinct

(***************************************************************************)
(* No submission takes effect twice on any server, in any scenario.        *)
(***************************************************************************)
THEOREM OnlyOnce == Spec => []SubmissionOnce
<1>1. Init => TypeOK /\ DocsInv
    BY InitTypes, InitDocs
<1>2. TypeOK /\ DocsInv /\ [Next]_vars => (TypeOK /\ DocsInv)'
    BY TypesKept, DocsKept
<1>3. TypeOK /\ DocsInv => SubmissionOnce
    BY OnceInDocs
<1>. QED
    BY <1>1, <1>2, <1>3, PTL DEF Spec

-----------------------------------------------------------------------------
(* A tab and the document that the log amounts to *)

Fits(t, c) == \E w : Edit(t, c, w)

\* A leads to the text of the tab's revision, X can be done to it, and changes
\* nothing when nothing is under way.
TextOK(s, D) ==
    /\ s.rev \in 0..headRev(D)
    /\ Leads(<<>>, s.A, TextAt(D, s.rev))
    /\ Fits(TextAt(D, s.rev), s.X)
    /\ ~ s.waiting => s.X.ops \in Seq(Retains)

LEMMA TextFacts ==
    ASSUME NEW s \in TabStates, NEW D \in Document, TextOK(s, D)
    PROVE  /\ TextAt(D, s.rev) \in Text /\ baseText(s) = TextAt(D, s.rev)
           /\ s.rev \in Nat /\ s.X \in Changeset /\ s.A \in Changeset
           /\ s.Y \in Changeset /\ s.screen \in Text
<1>1. TextAt(D, s.rev) \in Text /\ Leads(<<>>, s.A, TextAt(D, s.rev))
    BY TextAtStep DEF TextOK
<1>2. JsApply(<<>>, s.A) = [ok |-> TRUE, text |-> TextAt(D, s.rev)]
    BY <1>1, EmptyText, JsApplyLeads
<1>3. baseText(s) = TextAt(D, s.rev)
    BY <1>2 DEF baseText
<1>. QED
    BY <1>1, <1>3 DEF TabStates

LEMMA DiffEdit ==
    ASSUME NEW old \in Text, NEW new \in Text
    PROVE  Edit(old, DiffToChangeset(old, new), new)
BY DiffLeads, DiffNormal DEF Edit

LEMMA EditJs ==
    ASSUME NEW t, NEW c, NEW u, Edit(t, c, u)
    PROVE  t \in Text /\ u \in Text /\ JsApply(t, c) = [ok |-> TRUE, text |-> u]
BY JsApplyLeads DEF Edit

LEMMA UnsentEdit ==
    ASSUME NEW s \in TabStates, NEW D \in Document, TextOK(s, D), ~ s.waiting
    PROVE  Edit(TextAt(D, s.rev), Unsent(s), s.screen)
<1>. DEFINE t == TextAt(D, s.rev)
<1>1. t \in Text /\ baseText(s) = t /\ s.screen \in Text
    BY TextFacts
<1>2. PICK w : Edit(t, s.X, w)
    BY Zenon DEF TextOK, Fits
<1>3. w = t
    BY <1>2, RetainsKeep DEF TextOK, Edit
<1>4. JsApply(t, s.X) = [ok |-> TRUE, text |-> t]
    BY <1>2, <1>3, EditJs
<1>. DEFINE x == JsApply(t, s.X)
<1>5. Unsent(s) = DiffToChangeset(IF ~ IsIdentity(s.X) /\ x.ok
                                  THEN x.text ELSE t, s.screen)
    BY <1>1, Zenon DEF Unsent, diffToChangeset
<1>6. Unsent(s) = DiffToChangeset(t, s.screen)
    <2>. HIDE DEF t
    <2>. QED
        BY <1>4, <1>5
<1>. QED
    BY <1>1, <1>6, DiffEdit

LEMMA MoveToXText ==
    ASSUME NEW s \in TabStates, NEW D \in Document, TextOK(s, D), ~ s.waiting
    PROVE  TextOK(MoveToX(s), D)
<1>1. MoveToX(s).rev = s.rev /\ MoveToX(s).A = s.A /\ MoveToX(s).waiting
      /\ MoveToX(s).X = Unsent(s)
    BY DEF MoveToX, TabStates
<1>2. Fits(TextAt(D, s.rev), Unsent(s))
    BY UnsentEdit DEF Fits
<1>. QED
    BY <1>1, <1>2 DEF TextOK

LEMMA TextGrown ==
    ASSUME NEW s, NEW D \in Document, NEW U \in Document, Grown(D, U),
           TextOK(s, D)
    PROVE  TextOK(s, U)
<1>1. s.rev \in 0..headRev(U) /\ TextAt(U, s.rev) = TextAt(D, s.rev)
    BY TextAtGrown DEF TextOK
<1>. QED
    BY <1>1 DEF TextOK

\* Revision r + 1 as an edit.
LEMMA NextEdit ==
    ASSUME NEW D \in Document, History(D), NEW r \in Nat, r < headRev(D)
    PROVE  /\ r + 1 \in 1..headRev(D) /\ r + 1 \in 0..headRev(D) /\ r \in 0..headRev(D)
           /\ Edit(TextAt(D, r), D.revs[r + 1].cs, TextAt(D, r + 1))
           /\ D.revs[r + 1].cs \in Changeset
<1>1. headRev(D) \in Nat
    BY RevsFacts
<1>2. r + 1 \in 1..headRev(D) /\ r + 1 \in 0..headRev(D) /\ r \in 0..headRev(D)
      /\ (r + 1) - 1 = r
    BY <1>1
<1>. QED
    BY <1>2, RevsFacts, Zenon DEF History

LEMMA HandleAckText ==
    ASSUME NEW s \in TabStates, NEW D \in Document, History(D), TextOK(s, D),
           s.joined, s.rev < headRev(D), D.revs[s.rev + 1].cs = s.X,
           NEW m, m.rev = s.rev + 1
    PROVE  TextOK(HandleAck(s, m), D)
<1>. DEFINE t == TextAt(D, s.rev)
            u == TextAt(D, s.rev + 1)
            A == Compose(s.A, s.X)
<1>1. s.rev \in Nat /\ t \in Text /\ Leads(<<>>, s.A, t)
    BY TextFacts DEF TextOK
<1>2. s.rev + 1 \in 0..headRev(D) /\ Edit(t, s.X, u)
    BY <1>1, NextEdit
<1>3. Leads(<<>>, A, u) /\ u \in Text
    BY <1>1, <1>2, EmptyText, ComposedLeads DEF Edit
<1>4. A.newLen = Len(u)
    BY <1>3 DEF Leads
<1>5. Edit(u, Identity(A.newLen), u) /\ Identity(A.newLen).ops \in Seq(Retains)
    BY <1>3, <1>4, IdentityEdit
<1>. DEFINE h == HandleAck(s, m)
<1>6. h.rev = s.rev + 1 /\ h.A = A /\ h.X = Identity(A.newLen)
    <2>1. h = [s EXCEPT !.A = A, !.X = Identity(A.newLen), !.rev = m.rev,
                        !.waiting = FALSE]
        BY Zenon DEF HandleAck, compose, identity
    <2>. HIDE DEF A, h
    <2>. QED
        BY <2>1 DEF TabStates
<1>7. Fits(u, h.X)
    BY <1>5, <1>6 DEF Fits
<1>. HIDE DEF h, A
<1>. QED
    BY <1>2, <1>3, <1>5, <1>6, <1>7 DEF TextOK, h

(***************************************************************************)
(* A broadcast: X and Y move over the edit, and the screen is again the    *)
(* text of the new revision with X and then Y done to it.                  *)
(***************************************************************************)
Shown(s) ==
    LET afterX == JsApply(baseText(s), s.X)
        afterY == JsApply(afterX.text, s.Y)
    IN  afterX.ok /\ afterY.ok /\ s.screen = afterY.text

LEMMA HandleBroadcastText ==
    ASSUME NEW s \in TabStates, NEW D \in Document, History(D), TextOK(s, D),
           s.joined, s.rev < headRev(D),
           NEW m, m.rev = s.rev + 1, m.cs = D.revs[s.rev + 1].cs
    PROVE  /\ TextOK(HandleBroadcast(s, m), D)
           /\ HandleBroadcast(s, m).X = Follow(m.cs, s.X)
           /\ HandleBroadcast(s, m).rev = s.rev + 1
           /\ Shown(HandleBroadcast(s, m))
<1>. DEFINE t == TextAt(D, s.rev)
            u == TextAt(D, s.rev + 1)
            B == m.cs
            A == Compose(s.A, B)
            X == Follow(B, s.X)
            XB == Follow(s.X, B)
<1>1. /\ s.rev \in Nat /\ t \in Text /\ Leads(<<>>, s.A, t) /\ baseText(s) = t
      /\ s.X \in Changeset /\ s.screen \in Text
    BY TextFacts DEF TextOK
<1>2. s.rev + 1 \in 0..headRev(D) /\ Edit(t, B, u) /\ B \in Changeset
    BY <1>1, NextEdit
<1>3. Leads(<<>>, A, u) /\ u \in Text
    BY <1>1, <1>2, EmptyText, ComposedLeads DEF Edit
<1>4. PICK x : Edit(t, s.X, x)
    BY Zenon DEF TextOK, Fits
<1>5. PICK w : Edit(u, X, w) /\ Edit(x, XB, w)
    BY <1>2, <1>4, EditFollow
<1>6. ~ s.waiting => X.ops \in Seq(Retains)
    <2>1. SUFFICES ASSUME s.X.ops \in Seq(Retains)
                   PROVE  X.ops \in Seq(Retains)
        BY DEF TextOK
    <2>. DEFINE S == s.X
    <2>2. Edit(t, S, x) /\ S.ops \in Seq(Retains)
        BY <1>4, <2>1
    <2>. HIDE DEF S, t, u, B
    <2>3. Follow(B, S).ops \in Seq(Retains)
        BY <1>2, <2>2, EditFollowRetains
    <2>. QED
        BY <2>3 DEF S
<1>7. x \in Text /\ w \in Text /\ JsApply(t, s.X) = [ok |-> TRUE, text |-> x]
    BY <1>4, <1>5, EditJs
<1>. DEFINE Y == DiffToChangeset(x, s.screen)
<1>8. PICK v : Edit(s.screen, Follow(Y, XB), v) /\ Edit(w, Follow(XB, Y), v)
    <2>1. Edit(x, Y, s.screen)
        BY <1>1, <1>7, DiffEdit
    <2>. QED
        BY <2>1, <1>5, EditFollow
<1>. DEFINE h == HandleBroadcast(s, m)
            V == Follow(XB, Y)
            scr == JsApply(s.screen, Follow(Y, XB)).text
<1>9. h = [s EXCEPT !.A = A, !.X = X, !.Y = V, !.rev = m.rev, !.screen = scr]
    <2>1. JsApply(baseText(s), s.X).ok /\ JsApply(baseText(s), s.X).text = x
        BY <1>1, <1>7
    <2>2. h = IF ~ s.joined \/ ~ JsApply(baseText(s), s.X).ok THEN s
              ELSE [s EXCEPT !.A = A, !.X = X,
                             !.Y = Follow(XB, DiffToChangeset(
                                     JsApply(baseText(s), s.X).text, s.screen)),
                             !.rev = m.rev,
                             !.screen = JsApply(s.screen, Follow(DiffToChangeset(
                                 JsApply(baseText(s), s.X).text, s.screen), XB)).text]
        BY Zenon DEF HandleBroadcast, compose, follow, diffToChangeset
    <2>. QED
        BY <2>1, <2>2, Zenon
<1>10. scr = v
    BY <1>8, EditJs
<1>. HIDE DEF h, A, X, V, scr, XB, Y, B
<1>11. /\ h.rev = s.rev + 1 /\ h.A = A /\ h.X = X /\ h.Y = V /\ h.screen = v
       /\ h.waiting = s.waiting
    BY <1>9, <1>10 DEF TabStates
<1>12. Fits(u, X)
    BY <1>5 DEF Fits
<1>13. TextOK(h, D)
    BY <1>2, <1>3, <1>6, <1>11, <1>12 DEF TextOK
<1>14. Shown(h)
    <2>1. JsApply(<<>>, A) = [ok |-> TRUE, text |-> u]
        BY <1>3, EmptyText, JsApplyLeads
    <2>2. baseText(h) = u
        BY <2>1, <1>11 DEF baseText
    <2>3. JsApply(u, X) = [ok |-> TRUE, text |-> w] /\ JsApply(w, V) = [ok |-> TRUE, text |-> v]
        BY <1>5, <1>8, EditJs DEF V
    <2>. HIDE DEF u
    <2>. QED
        BY <2>2, <2>3, <1>11 DEF Shown
<1>. QED
    BY <1>11, <1>13, <1>14 DEF h, X, B

-----------------------------------------------------------------------------
(* Connecting again *)

\* What a tab has when it has caught up to revision r.
CaughtUp(s, D, r, o) ==
    /\ Leads(<<>>, s.A, TextAt(D, r))
    /\ Fits(TextAt(D, r), s.X)
    /\ s.X.ops \in Seq(Retains)
    /\ s.sub = o.sub /\ s.waiting = o.waiting

LEMMA CatchUpText ==
    ASSUME NEW s \in TabStates, NEW D \in Document, History(D), NEW r \in Nat,
           r < headRev(D), NEW o, CaughtUp(s, D, r, o)
    PROVE  CaughtUp(CatchUp(s, D.revs[r + 1]), D, r + 1, o)
<1>. DEFINE t == TextAt(D, r)
            u == TextAt(D, r + 1)
            B == D.revs[r + 1].cs
            X == Follow(B, s.X)
            h == CatchUp(s, D.revs[r + 1])
<1>1. Edit(t, B, u) /\ B \in Changeset
    BY NextEdit
<1>2. PICK x : Edit(t, s.X, x)
    BY Zenon DEF CaughtUp, Fits
<1>3. t \in Text /\ u \in Text /\ JsApply(t, B) = [ok |-> TRUE, text |-> u]
    BY <1>1, EditJs
<1>4. JsApply(<<>>, s.A) = [ok |-> TRUE, text |-> t]
    BY <1>3, EmptyText, JsApplyLeads DEF CaughtUp
<1>5. JsApply(baseText(s), B) = [ok |-> TRUE, text |-> u]
    <2>1. baseText(s) = t
        <3>. HIDE DEF t
        <3>. QED
            BY <1>4 DEF baseText
    <2>. QED
        BY <1>3, <2>1
<1>6. \E Y : h = [s EXCEPT !.A = Snapshot(u), !.X = X, !.Y = Y]
    <2>1. h = IF ~ JsApply(baseText(s), B).ok THEN s
              ELSE [s EXCEPT !.A = Snapshot(JsApply(baseText(s), B).text), !.X = X,
                             !.Y = Follow(Follow(X, B), s.Y)]
        BY Zenon DEF CatchUp, follow
    <2>2. JsApply(baseText(s), B).ok /\ JsApply(baseText(s), B).text = u
        BY <1>5
    <2>. QED
        BY <2>1, <2>2, Zenon
<1>7. h.A = Snapshot(u) /\ h.X = X /\ h.sub = s.sub /\ h.waiting = s.waiting
    <2>. HIDE DEF h, X, u
    <2>. QED
        BY <1>6 DEF TabStates
<1>8. Leads(<<>>, h.A, u)
    BY <1>3, <1>7, SnapshotEdit DEF Edit
<1>9. X.ops \in Seq(Retains) /\ Edit(u, X, u)
    <2>. DEFINE S == s.X
    <2>1. Edit(t, S, x) /\ S.ops \in Seq(Retains)
        BY <1>2 DEF CaughtUp
    <2>. HIDE DEF S, t, u, B
    <2>2. Follow(B, S).ops \in Seq(Retains) /\ Edit(u, Follow(B, S), u)
        BY <1>1, <2>1, EditFollowRetains
    <2>. QED
        BY <2>2 DEF S
<1>10. h.X.ops \in Seq(Retains) /\ Fits(u, h.X)
    BY <1>7, <1>9 DEF Fits
<1>. HIDE DEF h
<1>11. CaughtUp(h, D, r + 1, o)
    BY <1>7, <1>8, <1>10 DEF CaughtUp
<1>. QED
    BY <1>11 DEF h

LEMMA MissedRevisions ==
    ASSUME NEW D \in Document, NEW p \in Nat, NEW r \in p..headRev(D)
    PROVE  /\ SubSeq(D.revs, p + 1, r) \in Seq(Revision)
           /\ Len(SubSeq(D.revs, p + 1, r)) = r - p
           /\ \A k \in 1..(r - p) : SubSeq(D.revs, p + 1, r)[k] = D.revs[p + k]
<1>1. D.revs \in Seq(Revision) /\ Len(D.revs) \in Nat /\ r \in Nat
      /\ r <= Len(D.revs) /\ p + 1 >= 1 /\ p <= r
    BY RevsFacts
<1>2. SubSeq(D.revs, p + 1, r) = [k \in 1..(r - (p + 1) + 1) |-> D.revs[k + (p + 1) - 1]]
    BY <1>1
<1>3. r - (p + 1) + 1 = r - p /\ r - p \in Nat
    BY <1>1
<1>4. \A k \in 1..(r - p) : k + (p + 1) - 1 = p + k
    BY <1>1
<1>5. SubSeq(D.revs, p + 1, r) = [k \in 1..(r - p) |-> D.revs[p + k]]
    BY <1>2, <1>3, <1>4
<1>6. SubSeq(D.revs, p + 1, r) \in Seq(Revision)
    BY <1>1, SubSeqProperties
<1>. DEFINE n == r - p
            q == SubSeq(D.revs, p + 1, r)
<1>7. q = [k \in 1..n |-> D.revs[p + k]] /\ n \in Nat /\ q \in Seq(Revision)
    BY <1>3, <1>5, <1>6
<1>8. Len(q) = n /\ \A k \in 1..n : q[k] = D.revs[p + k]
    <2>. HIDE DEF q, n
    <2>. QED
        BY <1>7
<1>. QED
    BY <1>7, <1>8

LEMMA ResynchroniseText ==
    ASSUME NEW s \in TabStates, NEW D \in Document, History(D),
           CaughtUp(s, D, s.rev, s), s.rev # 0, NEW r \in s.rev..headRev(D),
           NEW m, m.catchUp = SubSeq(D.revs, s.rev + 1, r)
    PROVE  CaughtUp(Resynchronise(s, m), D, r, s)
<1>. DEFINE p == s.rev
            n == r - p
<1>1. p \in Nat /\ headRev(D) \in Nat /\ r \in Nat /\ n \in Nat
      /\ p <= r /\ r <= headRev(D) /\ p + n = r
    BY RevsFacts DEF TabStates
<1>2. /\ m.catchUp \in Seq(Revision) /\ Len(m.catchUp) = n
      /\ \A k \in 1..n : m.catchUp[k] = D.revs[p + k]
    <2>1. m.catchUp = SubSeq(D.revs, p + 1, r) /\ r \in p..headRev(D)
        OBVIOUS
    <2>. HIDE DEF p
    <2>2. /\ SubSeq(D.revs, p + 1, r) \in Seq(Revision)
          /\ Len(SubSeq(D.revs, p + 1, r)) = r - p
          /\ \A k \in 1..(r - p) : SubSeq(D.revs, p + 1, r)[k] = D.revs[p + k]
        BY <1>1, <2>1, MissedRevisions
    <2>. QED
        BY <2>1, <2>2
<1>3. PICK z : Resynchronised(s, m, z)
    BY <1>2, ResynchroniseStates
<1>4. /\ Resynchronise(s, m) = z[n] /\ z[0] = s
      /\ \A k \in 1..n : z[k] = CatchUp(z[k - 1], m.catchUp[k])
      /\ \A k \in 0..n : z[k] \in TabStates
    BY <1>2, <1>3 DEF Resynchronised
<1>. HIDE DEF n
<1>. DEFINE S == {k \in 0..n : CaughtUp(z[k], D, p + k, s)}
<1>5. 0 \in S
    <2>1. p + 0 = p
        BY <1>1
    <2>. QED
        BY <2>1, <1>1, <1>4
<1>6. ASSUME NEW k \in 0..(n - 1), k \in S PROVE k + 1 \in S
    <2>1. /\ k \in 0..n /\ k + 1 \in 0..n /\ k + 1 \in 1..n /\ (k + 1) - 1 = k
          /\ p + k \in Nat /\ p + k < headRev(D) /\ p + (k + 1) = (p + k) + 1
        BY <1>1
    <2>2. z[k] \in TabStates /\ z[k + 1] = CatchUp(z[k], D.revs[(p + k) + 1])
        BY <2>1, <1>2, <1>4
    <2>3. CaughtUp(z[k], D, p + k, s)
        BY <1>6
    <2>4. CaughtUp(CatchUp(z[k], D.revs[(p + k) + 1]), D, (p + k) + 1, s)
        BY <2>1, <2>2, <2>3, CatchUpText
    <2>. QED
        BY <2>1, <2>2, <2>4
<1>7. \A k \in 0..n : k \in S
    <2>. HIDE DEF S
    <2>. QED
        BY <1>1, <1>5, <1>6, Induction
<1>8. n \in S
    BY <1>1, <1>7
<1>. QED
    BY <1>1, <1>4, <1>8

LEMMA RetainsAnywhere ==
    ASSUME NEW t \in Text, NEW u \in Text, NEW c, Fits(t, c),
           c.ops \in Seq(Retains), t = u \/ t = <<>>, c.oldLen = Len(u)
    PROVE  Fits(u, c)
<1>1. PICK w : Edit(t, c, w)
    BY DEF Fits
<1>2. Len(t) = Len(u)
    BY <1>1 DEF Edit, Leads
<1>3. t = u
    <2>1. CASE t = <<>>
        <3>1. Len(u) = 0
            BY <1>2, <2>1, EmptyText
        <3>. QED
            BY <2>1, <3>1, EmptySeq DEF Text
    <2>. QED
        BY <2>1
<1>. QED
    BY <1>3

LEMMA RedrawnText ==
    ASSUME NEW s \in TabStates, NEW u \in Text, Leads(<<>>, s.A, u),
           s.X.ops \in Seq(Retains), NEW t \in Text, t = u \/ t = <<>>,
           Fits(t, s.X), NEW r \in Nat
    PROVE  LET h == Redrawn(s, r)
           IN  /\ h.rev = r /\ Leads(<<>>, h.A, u) /\ Fits(u, h.X)
               /\ h.X.ops \in Seq(Retains)
               /\ h.joined /\ h.editing /\ h.waiting = s.waiting /\ h.sub = s.sub
<1>. DEFINE h == Redrawn(s, r)
            x == JsApply(u, s.X)
            y == JsApply(x.text, s.Y)
            common == [s EXCEPT !.joined = TRUE, !.rev = r, !.editing = TRUE,
                                !.A = Snapshot(u)]
            I == Identity(Len(u))
<1>1. JsApply(<<>>, s.A) = [ok |-> TRUE, text |-> u]
    BY EmptyText, JsApplyLeads
<1>2. baseText(s) = u
    BY <1>1 DEF baseText
<1>3. Leads(<<>>, Snapshot(u), u)
    BY SnapshotEdit DEF Edit
<1>4. h = IF s.joined /\ x.ok /\ y.ok
          THEN [common EXCEPT !.screen = y.text]
          ELSE [common EXCEPT !.screen = u, !.X = I, !.Y = I]
    BY <1>2, Zenon DEF Redrawn, identity
<1>5. Edit(u, I, u) /\ I.ops \in Seq(Retains)
    BY IdentityEdit
<1>6. x.ok => s.X.oldLen = Len(u)
    BY Zenon DEF JsApply
<1>7. x.ok => Fits(u, s.X)
    BY <1>6, RetainsAnywhere
<1>. HIDE DEF h, x, y, I
<1>8. /\ h.rev = r /\ h.A = Snapshot(u) /\ h.joined /\ h.editing
      /\ h.waiting = s.waiting /\ h.sub = s.sub
      /\ h.X = I \/ (h.X = s.X /\ x.ok)
    BY <1>4 DEF TabStates
<1>9. Fits(u, h.X) /\ h.X.ops \in Seq(Retains)
    <2>1. CASE h.X = I
        BY <2>1, <1>5 DEF Fits
    <2>2. CASE h.X = s.X /\ x.ok
        BY <2>2, <1>7
    <2>. QED
        BY <1>8, <2>1, <2>2
<1>. QED
    BY <1>3, <1>8, <1>9 DEF h

LEMMA HandleConnectAckText ==
    ASSUME NEW s \in TabStates, NEW D \in Document, History(D), TextOK(s, D),
           ~ s.waiting, NEW m \in Greeting, m.rev \in s.rev..headRev(D),
           m.text = TextAt(D, m.rev),
           m.catchUp = SubSeq(D.revs, s.rev + 1, m.rev)
    PROVE  LET h == HandleConnectAck(s, m)
           IN  /\ TextOK(h, D) /\ h.rev = m.rev
               /\ h.joined /\ h.editing /\ h.waiting = s.waiting /\ h.sub = s.sub
<1>. DEFINE R == Resynchronise(s, m)
            u == TextAt(D, m.rev)
            t == IF s.rev = 0 THEN <<>> ELSE u
            h == Redrawn(R, m.rev)
<1>1. /\ s.rev \in Nat /\ headRev(D) \in Nat /\ m.rev \in Nat
      /\ m.rev \in 0..headRev(D) /\ s.rev \in 0..headRev(D)
    BY RevsFacts DEF TabStates
<1>2. u \in Text
    BY <1>1, TextAtStep
<1>3. CaughtUp(s, D, s.rev, s)
    BY DEF TextOK, CaughtUp
<1>4. t \in Text /\ (t = u \/ t = <<>>)
    BY <1>2, EmptyText
<1>5. /\ Leads(<<>>, R.A, u) /\ R.X.ops \in Seq(Retains) /\ Fits(t, R.X)
      /\ R.sub = s.sub /\ R.waiting = s.waiting
    <2>1. CASE s.rev = 0
        <3>1. R = [s EXCEPT !.A = Snapshot(m.text)]
            BY <2>1, Zenon DEF Resynchronise
        <3>2. /\ R.A = Snapshot(u) /\ R.X = s.X /\ R.sub = s.sub
              /\ R.waiting = s.waiting
            BY <3>1 DEF TabStates
        <3>3. Leads(<<>>, R.A, u)
            BY <3>2, <1>2, SnapshotEdit DEF Edit
        <3>4. TextAt(D, 0) = <<>>
            BY <1>1, <2>1, TextAtStep
        <3>5. Fits(t, s.X) /\ s.X.ops \in Seq(Retains)
            BY <2>1, <3>4, <1>3 DEF CaughtUp
        <3>. QED
            BY <3>2, <3>3, <3>5
    <2>2. CASE s.rev # 0
        <3>1. CaughtUp(R, D, m.rev, s)
            BY <2>2, <1>3, ResynchroniseText
        <3>2. t = u
            BY <2>2
        <3>. QED
            BY <3>1, <3>2 DEF CaughtUp
    <2>. QED
        BY <2>1, <2>2
<1>6. R \in TabStates
    BY ResynchroniseType
<1>. HIDE DEF R, u, t
<1>7. /\ h.rev = m.rev /\ Leads(<<>>, h.A, u) /\ Fits(u, h.X)
      /\ h.X.ops \in Seq(Retains)
      /\ h.joined /\ h.editing /\ h.waiting = R.waiting /\ h.sub = R.sub
    BY <1>1, <1>2, <1>4, <1>5, <1>6, RedrawnText
<1>8. HandleConnectAck(s, m) = h
    BY DEF HandleConnectAck, R
<1>. HIDE DEF h
<1>9. TextOK(h, D)
    BY <1>1, <1>7 DEF TextOK, u
<1>. QED
    BY <1>5, <1>7, <1>8, <1>9

-----------------------------------------------------------------------------
(* The log, when every entry fits *)

\* Every revision is an edit of the one before it; an entry that is not applied
\* repeats the initial text; the submissions of a client are numbered without
\* a gap.
Unapplied(L, j) ==
    IF IsDuplicate(DocumentAfter(L, j - 1), L[j]) THEN L[j].client = System
    ELSE AfterEntry(DocumentAfter(L, j - 1), L[j]) # DocumentAfter(L, j - 1)
Numbered(D) ==
    \A i \in ClientIds : \A s \in 1..D.last[i] :
        \E r \in 1..headRev(D) : D.revs[r].source = i /\ D.revs[r].sub = s
TakesEffect(L, D) ==
    \A j \in 1..Len(L) : \E r \in 1..headRev(D) :
        D.revs[r].source = L[j].client /\ D.revs[r].sub = L[j].sub
LogOK(L) ==
    /\ \A j \in 0..Len(L) : History(DocumentAfter(L, j))
    /\ \A j \in 1..Len(L) : Unapplied(L, j)
    /\ Numbered(DocumentAfter(L, Len(L)))
    /\ TakesEffect(L, DocumentAfter(L, Len(L)))
LogInv == LogOK(log)

LEMMA DocumentOf ==
    ASSUME NEW L \in Seq(Entry)
    PROVE  /\ DocumentAfter(L, Len(L)) \in Document /\ Len(L) \in Nat
           /\ Len(L) \in 0..Len(L)
<1>1. Len(L) \in Nat
    BY LenProperties
<1>2. Len(L) \in 0..Len(L)
    BY <1>1
<1>. QED
    BY <1>1, <1>2, DocumentAfterStep

\* Every revision comes from an entry.
LEMMA EntryOf ==
    ASSUME NEW L \in Seq(Entry), NEW a \in 0..Len(L), NEW b \in a..Len(L),
           NEW r \in (headRev(DocumentAfter(L, a)) + 1)..headRev(DocumentAfter(L, b))
    PROVE  \E j \in (a + 1)..b :
               /\ L[j].client = DocumentAfter(L, b).revs[r].source
               /\ L[j].sub = DocumentAfter(L, b).revs[r].sub
<1>. DEFINE d(j) == DocumentAfter(L, j)
            Has(b1, r1) == \E j \in (a + 1)..b1 :
                             /\ L[j].client = d(b1).revs[r1].source
                             /\ L[j].sub = d(b1).revs[r1].sub
            S == {k \in 0..(Len(L) - a) :
                     \A q \in (headRev(d(a)) + 1)..headRev(d(a + k)) : Has(a + k, q)}
            n == Len(L) - a
<1>1. Len(L) \in Nat /\ a \in Nat /\ b \in Nat /\ n \in Nat /\ a <= b /\ b <= Len(L)
    BY LenProperties
<1>2. \A j \in 0..Len(L) : d(j) \in Document /\ headRev(d(j)) \in Nat
    BY DocumentAfterStep, RevsFacts
<1>3. 0 \in S
    <2>1. a + 0 = a /\ headRev(d(a)) \in Nat
        BY <1>1, <1>2
    <2>2. \A q \in (headRev(d(a)) + 1)..headRev(d(a + 0)) : FALSE
        BY <2>1
    <2>. QED
        BY <2>2, <1>1
<1>4. ASSUME NEW k \in 0..(n - 1), k \in S PROVE k + 1 \in S
    <2>. DEFINE i == a + k
    <2>1. /\ i \in 0..Len(L) /\ i + 1 \in 0..Len(L) /\ (i + 1) - 1 = i /\ i + 1 > 0
          /\ a + (k + 1) = i + 1 /\ k + 1 \in 0..n /\ i + 1 \in (a + 1)..(i + 1)
          /\ i + 1 \in 1..Len(L) /\ i \in Nat
        BY <1>1
    <2>2. d(i + 1) = AfterEntry(d(i), L[i + 1]) /\ d(i) \in Document
          /\ L[i + 1] \in Entry
        <3>1. L[i + 1] \in Entry
            BY <2>1, ElementOfSeq
        <3>. QED
            BY <3>1, <2>1, DocumentAfterStep
    <2>3. ASSUME NEW q \in (headRev(d(a)) + 1)..headRev(d(i + 1))
          PROVE  Has(i + 1, q)
        <3>0. headRev(d(a)) \in Nat /\ headRev(d(i)) \in Nat /\ q \in Nat
            BY <1>1, <1>2, <2>1
        <3>1. CASE AfterEntry(d(i), L[i + 1]) = d(i)
            <4>1. Has(i, q)
                BY <3>1, <2>2, <1>4
            <4>2. PICK j \in (a + 1)..i : /\ L[j].client = d(i).revs[q].source
                                          /\ L[j].sub = d(i).revs[q].sub
                BY <4>1
            <4>3. j \in (a + 1)..(i + 1) /\ d(i + 1) = d(i)
                BY <2>1, <2>2, <3>1, <1>1
            <4>. QED
                BY <4>2, <4>3
        <3>2. CASE AfterEntry(d(i), L[i + 1]) # d(i)
            <4>1. Appended(d(i), L[i + 1], d(i + 1))
                BY <3>2, <2>2, AfterEntryCases
            <4>. DEFINE v == [cs |-> Rebase(d(i), L[i + 1]),
                              source |-> L[i + 1].client, sub |-> L[i + 1].sub]
            <4>2. d(i + 1).revs = Append(d(i).revs, v)
                BY <4>1 DEF Appended
            <4>3. d(i).revs \in Seq(Revision) /\ headRev(d(i)) = Len(d(i).revs)
                BY <2>2, RevsFacts
            <4>. HIDE DEF v, d
            <4>4. /\ headRev(d(i + 1)) = headRev(d(i)) + 1
                  /\ d(i + 1).revs[headRev(d(i)) + 1] = v
                  /\ \A x \in 1..headRev(d(i)) : d(i + 1).revs[x] = d(i).revs[x]
                <5>1. ASSUME NEW R \in Seq(Revision), NEW U, NEW w, U = Append(R, w)
                      PROVE  /\ Len(U) = Len(R) + 1 /\ U[Len(R) + 1] = w
                             /\ \A x \in 1..Len(R) : U[x] = R[x]
                    BY <5>1
                <5>2. headRev(d(i + 1)) = Len(d(i + 1).revs)
                    BY DEF headRev
                <5>. DEFINE P == d(i).revs
                            Q == d(i + 1).revs
                <5>3. P \in Seq(Revision) /\ Q = Append(P, v)
                    BY <4>2, <4>3
                <5>. HIDE DEF P, Q
                <5>4. /\ Len(Q) = Len(P) + 1 /\ Q[Len(P) + 1] = v
                      /\ \A x \in 1..Len(P) : Q[x] = P[x]
                    BY <5>1, <5>3
                <5>5. headRev(d(i)) = Len(P) /\ headRev(d(i + 1)) = Len(Q)
                    BY <4>3, <5>2 DEF P, Q
                <5>. QED
                    BY <5>4, <5>5, Zenon DEF P, Q
            <4>5. CASE q = headRev(d(i)) + 1
                <5>1. d(i + 1).revs[q].source = L[i + 1].client
                      /\ d(i + 1).revs[q].sub = L[i + 1].sub
                    BY <4>4, <4>5 DEF v
                <5>. QED
                    BY <5>1, <2>1
            <4>6. CASE q # headRev(d(i)) + 1
                <5>1. q \in (headRev(d(a)) + 1)..headRev(d(i)) /\ q \in 1..headRev(d(i))
                    BY <4>4, <4>6, <3>0
                <5>2. Has(i, q)
                    BY <5>1, <1>4
                <5>3. PICK j \in (a + 1)..i : /\ L[j].client = d(i).revs[q].source
                                              /\ L[j].sub = d(i).revs[q].sub
                    BY <5>2
                <5>4. j \in (a + 1)..(i + 1)
                    BY <2>1, <1>1
                <5>. QED
                    BY <5>1, <5>3, <5>4, <4>4
            <4>. QED
                BY <4>5, <4>6
        <3>. QED
            BY <3>1, <3>2
    <2>. HIDE DEF Has
    <2>. QED
        BY <2>1, <2>3
<1>5. \A k \in 0..n : k \in S
    <2>. HIDE DEF S, n
    <2>. QED
        BY <1>1, <1>3, <1>4, Induction
<1>6. b - a \in 0..n /\ a + (b - a) = b
    BY <1>1
<1>7. b - a \in S
    BY <1>5, <1>6
<1>. QED
    BY <1>6, <1>7

\* An entry that can be rebased and applied, or is the initial text again.
Fitting(D, e) ==
    /\ e.base \in 0..headRev(D) /\ Fits(TextAt(D, e.base), e.cs)
    /\ e.sub > 0 /\ e.sub <= D.last[e.client] + 1
    /\ IsDuplicate(D, e) => e.client = System

\* What the document becomes.
Extended(D, e, U) ==
    /\ headRev(U) = headRev(D) + 1 /\ Grown(D, U)
    /\ U.revs[headRev(D) + 1] = [cs |-> Rebase(D, e), source |-> e.client,
                                 sub |-> e.sub]
    /\ U.last = [D.last EXCEPT ![e.client] = e.sub]
    /\ e.sub = D.last[e.client] + 1

LEMMA AppendedFacts ==
    ASSUME NEW D \in Document, NEW e \in Entry, NEW U \in Document,
           Appended(D, e, U)
    PROVE  /\ headRev(U) = headRev(D) + 1
           /\ U.revs[headRev(D) + 1] = [cs |-> Rebase(D, e), source |-> e.client,
                                        sub |-> e.sub]
           /\ \A x \in 1..headRev(D) : U.revs[x] = D.revs[x]
<1>. DEFINE v == [cs |-> Rebase(D, e), source |-> e.client, sub |-> e.sub]
            P == D.revs
            Q == U.revs
<1>1. ASSUME NEW R \in Seq(Revision), NEW V, NEW w, V = Append(R, w)
      PROVE  /\ Len(V) = Len(R) + 1 /\ V[Len(R) + 1] = w
             /\ \A x \in 1..Len(R) : V[x] = R[x]
    BY <1>1
<1>2. P \in Seq(Revision) /\ Q = Append(P, v)
    BY RevsFacts DEF Appended
<1>3. headRev(D) = Len(P) /\ headRev(U) = Len(Q)
    BY DEF headRev
<1>. HIDE DEF P, Q, v
<1>4. /\ Len(Q) = Len(P) + 1 /\ Q[Len(P) + 1] = v
      /\ \A x \in 1..Len(P) : Q[x] = P[x]
    BY <1>1, <1>2
<1>. QED
    BY <1>3, <1>4, Zenon DEF P, Q, v

LEMMA ExtendedAfter ==
    ASSUME NEW D \in Document, History(D), NEW e \in Entry, Fitting(D, e),
           ~ IsDuplicate(D, e)
    PROVE  /\ AfterEntry(D, e) \in Document /\ AfterEntry(D, e) # D
           /\ History(AfterEntry(D, e))
           /\ Extended(D, e, AfterEntry(D, e))
<1>. DEFINE U == AfterEntry(D, e)
<1>1. PICK w : Edit(TextAt(D, e.base), e.cs, w)
    BY DEF Fitting, Fits
<1>2. U # D /\ Appended(D, e, U) /\ History(U)
    BY <1>1, Effective DEF Fitting
<1>3. U \in Document
    BY AfterEntryCases
<1>4. Grown(D, U)
    BY GrownAfter
<1>5. e.client \in ClientIds /\ e.sub \in Nat /\ D.last[e.client] \in Nat
    BY DEF Entry, Document
<1>6. e.sub = D.last[e.client] + 1
    BY <1>5 DEF Fitting, IsDuplicate
<1>7. U.last = [D.last EXCEPT ![e.client] = e.sub]
    BY <1>2 DEF Appended
<1>. HIDE DEF U
<1>8. Extended(D, e, U)
    BY <1>2, <1>3, <1>4, <1>6, <1>7, AppendedFacts DEF Extended
<1>. QED
    BY <1>2, <1>3, <1>8 DEF U

LEMMA LogAppend ==
    ASSUME NEW L \in Seq(Entry), LogOK(L), NEW e \in Entry,
           Fitting(DocumentAfter(L, Len(L)), e)
    PROVE  LogOK(Append(L, e))
<1>. DEFINE D == DocumentAfter(L, Len(L))
            M == Append(L, e)
            n == Len(L)
            U == DocumentAfter(M, n + 1)
<1>1. /\ M \in Seq(Entry) /\ Len(M) = n + 1
      /\ \A i \in 0..n : DocumentAfter(M, i) = DocumentAfter(L, i)
      /\ U = AfterEntry(D, e)
    BY DocumentAfterAppend
<1>2. D \in Document /\ n \in Nat /\ n \in 0..n /\ headRev(D) \in Nat
    BY DocumentOf, RevsFacts
<1>3. M[n + 1] = e /\ \A j \in 1..n : M[j] = L[j]
    BY <1>2
<1>4. History(D) /\ Numbered(D) /\ TakesEffect(L, D)
    BY <1>2 DEF LogOK
<1>5. U \in Document /\ Grown(D, U) /\ headRev(U) \in Nat
    BY <1>1, <1>2, AfterEntryCases, GrownAfter, RevsFacts
<1>6. IsDuplicate(D, e) => U = D
    BY <1>1, <1>2, AfterEntryCases
<1>7. ~ IsDuplicate(D, e) => U # D /\ History(U) /\ Extended(D, e, U)
    BY <1>1, <1>2, <1>4, ExtendedAfter
<1>8. e.client \in ClientIds /\ e.sub \in Nat /\ D.last \in [ClientIds -> Nat]
    BY <1>2 DEF Entry, Document
<1>9. headRev(D) <= headRev(U) /\ \A r \in 1..headRev(D) : U.revs[r] = D.revs[r]
    BY <1>5 DEF Grown, headRev
<1>. HIDE DEF U, D, M, n
<1>10. \A j \in 0..(n + 1) : History(DocumentAfter(M, j))
    <2>1. SUFFICES ASSUME NEW j \in 0..(n + 1) PROVE History(DocumentAfter(M, j))
        OBVIOUS
    <2>2. CASE j = n + 1
        BY <2>2, <1>4, <1>6, <1>7 DEF U
    <2>3. CASE j # n + 1
        <3>1. j \in 0..n
            BY <1>2, <2>3
        <3>. QED
            BY <3>1, <1>1 DEF LogOK, n
    <2>. QED
        BY <2>2, <2>3
<1>11. \A j \in 1..(n + 1) : Unapplied(M, j)
    <2>1. SUFFICES ASSUME NEW j \in 1..(n + 1) PROVE Unapplied(M, j)
        OBVIOUS
    <2>2. CASE j = n + 1
        <3>1. DocumentAfter(M, j - 1) = D /\ M[j] = e
            BY <2>2, <1>1, <1>2, <1>3 DEF D, n
        <3>2. U = AfterEntry(D, e)
            BY <1>1
        <3>3. IsDuplicate(D, e) => e.client = System
            BY DEF Fitting, D
        <3>. QED
            BY <3>1, <3>2, <3>3, <1>7 DEF Unapplied
    <2>3. CASE j # n + 1
        <3>1. j \in 1..n /\ j - 1 \in 0..n
            BY <1>2, <2>3
        <3>2. Unapplied(L, j)
            BY <3>1 DEF LogOK, n
        <3>3. DocumentAfter(M, j - 1) = DocumentAfter(L, j - 1) /\ M[j] = L[j]
            BY <3>1, <1>1, <1>3
        <3>. QED
            BY <3>2, <3>3 DEF Unapplied
    <2>. QED
        BY <2>2, <2>3
<1>12. Numbered(U) /\ TakesEffect(M, U)
    <2>1. CASE IsDuplicate(D, e)
        <3>1. U = D /\ e.sub \in 1..D.last[e.client]
            BY <2>1, <1>6, <1>8 DEF IsDuplicate, Fitting, D
        <3>2. PICK r \in 1..headRev(D) : D.revs[r].source = e.client
                                         /\ D.revs[r].sub = e.sub
            BY <3>1, <1>4, <1>8 DEF Numbered
        <3>3. ASSUME NEW j \in 1..(n + 1)
              PROVE  \E q \in 1..headRev(U) :
                        U.revs[q].source = M[j].client /\ U.revs[q].sub = M[j].sub
            <4>1. CASE j = n + 1
                BY <4>1, <3>1, <3>2, <1>3
            <4>2. CASE j # n + 1
                <5>1. j \in 1..n /\ M[j] = L[j]
                    BY <1>2, <1>3, <4>2
                <5>. QED
                    BY <5>1, <3>1, <1>4 DEF TakesEffect, n
            <4>. QED
                BY <4>1, <4>2
        <3>4. TakesEffect(M, U)
            BY <3>3, <1>1 DEF TakesEffect
        <3>. QED
            BY <3>1, <3>4, <1>4
    <2>2. CASE ~ IsDuplicate(D, e)
        <3>1. /\ headRev(U) = headRev(D) + 1
              /\ U.revs[headRev(D) + 1].source = e.client
              /\ U.revs[headRev(D) + 1].sub = e.sub
              /\ U.last = [D.last EXCEPT ![e.client] = e.sub]
              /\ e.sub = D.last[e.client] + 1
            BY <2>2, <1>7 DEF Extended
        <3>2. headRev(D) + 1 \in 1..headRev(U)
            BY <3>1, <1>2
        <3>3. Numbered(U)
            <4>1. SUFFICES ASSUME NEW i \in ClientIds, NEW s \in 1..U.last[i]
                           PROVE  \E r \in 1..headRev(U) :
                                     U.revs[r].source = i /\ U.revs[r].sub = s
                BY DEF Numbered
            <4>2. CASE i = e.client /\ s = e.sub
                BY <4>2, <3>1, <3>2
            <4>3. CASE ~ (i = e.client /\ s = e.sub)
                <5>1. s \in 1..D.last[i]
                    BY <4>3, <3>1, <1>8
                <5>2. PICK r \in 1..headRev(D) : D.revs[r].source = i /\ D.revs[r].sub = s
                    BY <5>1, <1>4 DEF Numbered
                <5>. QED
                    BY <5>2, <1>9, <1>2, <3>1
            <4>. QED
                BY <4>2, <4>3
        <3>4. ASSUME NEW j \in 1..(n + 1)
              PROVE  \E q \in 1..headRev(U) :
                        U.revs[q].source = M[j].client /\ U.revs[q].sub = M[j].sub
            <4>1. CASE j = n + 1
                BY <4>1, <3>1, <3>2, <1>3
            <4>2. CASE j # n + 1
                <5>1. j \in 1..n /\ M[j] = L[j]
                    BY <1>2, <1>3, <4>2
                <5>2. PICK r \in 1..headRev(D) : D.revs[r].source = L[j].client
                                                 /\ D.revs[r].sub = L[j].sub
                    BY <5>1, <1>4 DEF TakesEffect, n
                <5>. QED
                    BY <5>1, <5>2, <1>9, <1>2, <3>1
            <4>. QED
                BY <4>1, <4>2
        <3>5. TakesEffect(M, U)
            BY <3>4, <1>1 DEF TakesEffect
        <3>. QED
            BY <3>3, <3>5
    <2>. QED
        BY <2>1, <2>2
<1>13. /\ Len(M) = n + 1 /\ DocumentAfter(M, n + 1) = U
    BY <1>1 DEF U
<1>14. LogOK(M)
    BY <1>10, <1>11, <1>12, <1>13 DEF LogOK
<1>. QED
    BY <1>14 DEF M

-----------------------------------------------------------------------------
(* What a tab has sent *)

\* The revisions of t that it does not know of, and the number of its last one:
\* there is one at most, it is what t waits for, and X is what will be left of
\* it.
Own(s, t, D) ==
    /\ \A i \in (s.rev + 1)..headRev(D) : D.revs[i].source = t =>
           /\ s.waiting /\ D.revs[i].sub = s.sub
           /\ D.revs[i].cs = Moved(D.revs, s.X, s.rev, i - 1)
    /\ IF s.waiting THEN D.last[t] \in {s.sub - 1, s.sub} ELSE D.last[t] = s.sub
    /\ s.waiting /\ D.last[t] = s.sub =>
           \E i \in (s.rev + 1)..headRev(D) : D.revs[i].source = t

\* Something of the submission that a tab waits for, with what X was then.
Carrier(m, s, D) ==
    /\ s.waiting /\ m.sub = s.sub /\ D.last[m.client] < m.sub
    /\ m.base \in 0..s.rev /\ Fits(TextAt(D, m.base), m.cs)
    /\ Moved(D.revs, m.cs, m.base, s.rev) = s.X

LEMMA ExtendedFacts ==
    ASSUME NEW D \in Document, NEW U \in Document, NEW e \in Entry,
           Extended(D, e, U)
    PROVE  /\ headRev(D) \in Nat /\ headRev(U) = headRev(D) + 1
           /\ \A i \in 1..headRev(D) : U.revs[i] = D.revs[i]
           /\ U.revs[headRev(D) + 1].cs = Rebase(D, e)
           /\ U.revs[headRev(D) + 1].source = e.client
           /\ U.revs[headRev(D) + 1].sub = e.sub
           /\ \A i \in ClientIds \ {e.client} : U.last[i] = D.last[i]
           /\ U.last[e.client] = e.sub /\ e.sub = D.last[e.client] + 1
           /\ e.client \in ClientIds /\ e.sub \in Nat
           /\ D.revs \in Seq(Revision) /\ headRev(D) = Len(D.revs)
<1>1. headRev(D) \in Nat /\ D.revs \in Seq(Revision) /\ headRev(D) = Len(D.revs)
    BY RevsFacts
<1>2. \A i \in 1..headRev(D) : U.revs[i] = D.revs[i]
    BY <1>1 DEF Extended, Grown
<1>3. e.client \in ClientIds /\ e.sub \in Nat /\ D.last \in [ClientIds -> Nat]
    BY DEF Entry, Document
<1>4. U.last = [D.last EXCEPT ![e.client] = e.sub] /\ e.sub = D.last[e.client] + 1
      /\ headRev(U) = headRev(D) + 1
    BY DEF Extended
<1>5. /\ U.revs[headRev(D) + 1].cs = Rebase(D, e)
      /\ U.revs[headRev(D) + 1].source = e.client
      /\ U.revs[headRev(D) + 1].sub = e.sub
    BY DEF Extended
<1>. QED
    BY <1>1, <1>2, <1>3, <1>4, <1>5

LEMMA OwnOther ==
    ASSUME NEW D \in Document, NEW U \in Document, NEW e \in Entry,
           Extended(D, e, U), NEW s \in TabStates, TextOK(s, D),
           NEW t \in ClientIds, t # e.client, Own(s, t, D)
    PROVE  Own(s, t, U)
<1>1. s.rev \in Nat /\ s.rev <= headRev(D) /\ s.X \in Changeset
    BY RevsFacts DEF TextOK, TabStates
<1>2. /\ headRev(D) \in Nat /\ headRev(U) = headRev(D) + 1
      /\ \A i \in 1..headRev(D) : U.revs[i] = D.revs[i]
      /\ U.revs[headRev(D) + 1].source # t /\ U.last[t] = D.last[t]
    BY ExtendedFacts
<1>3. ASSUME NEW i \in (s.rev + 1)..headRev(U), U.revs[i].source = t
      PROVE  /\ s.waiting /\ U.revs[i].sub = s.sub
             /\ U.revs[i].cs = Moved(U.revs, s.X, s.rev, i - 1)
    <2>1. i # headRev(D) + 1
        <3>1. SUFFICES ASSUME i = headRev(D) + 1 PROVE FALSE
            OBVIOUS
        <3>. QED
            BY <3>1, <1>2, <1>3, Zenon
    <2>2. i \in (s.rev + 1)..headRev(D) /\ i \in 1..headRev(D)
          /\ i - 1 \in 0..headRev(D)
        BY <2>1, <1>1, <1>2
    <2>3. U.revs[i] = D.revs[i]
        BY <2>2, <1>2
    <2>4. Moved(U.revs, s.X, s.rev, i - 1) = Moved(D.revs, s.X, s.rev, i - 1)
        BY <2>2, <1>1, MovedGrown DEF Extended
    <2>. QED
        BY <2>2, <2>3, <2>4, <1>3 DEF Own
<1>4. s.waiting /\ D.last[t] = s.sub =>
          \E i \in (s.rev + 1)..headRev(U) : U.revs[i].source = t
    <2>1. SUFFICES ASSUME s.waiting, D.last[t] = s.sub
                   PROVE  \E i \in (s.rev + 1)..headRev(U) : U.revs[i].source = t
        OBVIOUS
    <2>2. PICK i \in (s.rev + 1)..headRev(D) : D.revs[i].source = t
        BY <2>1 DEF Own
    <2>3. i \in (s.rev + 1)..headRev(U) /\ i \in 1..headRev(D)
        BY <1>1, <1>2
    <2>. QED
        BY <2>2, <2>3, <1>2
<1>5. IF s.waiting THEN U.last[t] \in {s.sub - 1, s.sub} ELSE U.last[t] = s.sub
    <2>1. IF s.waiting THEN D.last[t] \in {s.sub - 1, s.sub} ELSE D.last[t] = s.sub
        BY Zenon DEF Own
    <2>2. U.last[t] = D.last[t]
        BY <1>2
    <2>. QED
        BY <2>1, <2>2, Zenon
<1>6. U.last[t] = D.last[t]
    BY <1>2
<1>. QED
    BY <1>3, <1>4, <1>5, <1>6, Zenon DEF Own

LEMMA OwnCommitted ==
    ASSUME NEW D \in Document, NEW U \in Document, NEW e \in Entry,
           Extended(D, e, U), NEW s \in TabStates, TextOK(s, D),
           Own(s, e.client, D), Carrier(e, s, D)
    PROVE  Own(s, e.client, U)
<1>. DEFINE t == e.client
            h == headRev(D)
<1>1. s.rev \in Nat /\ s.rev <= h /\ s.X \in Changeset /\ s.sub \in Nat
    BY RevsFacts DEF TextOK, TabStates
<1>2. /\ h \in Nat /\ headRev(U) = h + 1 /\ t \in ClientIds
      /\ \A i \in 1..h : U.revs[i] = D.revs[i]
      /\ U.revs[h + 1].source = t /\ U.revs[h + 1].sub = e.sub
      /\ U.revs[h + 1].cs = Rebase(D, e)
      /\ U.last[t] = e.sub /\ e.sub = D.last[t] + 1
      /\ D.revs \in Seq(Revision) /\ h = Len(D.revs)
    BY ExtendedFacts
<1>3. D.last[t] # s.sub /\ e.sub = s.sub /\ s.waiting /\ e.cs \in Changeset
      /\ D.last[t] \in Nat
    BY <1>1, <1>2 DEF Carrier, Entry, Document
<1>4. Rebase(D, e) = Moved(U.revs, s.X, s.rev, h)
    <2>1. e.base \in Nat /\ s.rev \in e.base..Len(D.revs) /\ h \in s.rev..Len(D.revs)
          /\ h \in 0..h
        BY <1>1, <1>2 DEF Carrier
    <2>2. Moved(D.revs, Moved(D.revs, e.cs, e.base, s.rev), s.rev, h) =
              Moved(D.revs, e.cs, e.base, h)
        <3>. DEFINE R == D.revs
                    b == s.rev
                    B == e.base
                    C == e.cs
        <3>1. R \in Seq(Revision) /\ C \in Changeset /\ B \in Nat
              /\ b \in B..Len(R) /\ h \in b..Len(R)
            BY <2>1, <1>2, <1>3
        <3>. HIDE DEF h, R, b, B, C
        <3>2. Moved(R, Moved(R, C, B, b), b, h) = Moved(R, C, B, h)
            BY <3>1, MovedTwice
        <3>. QED
            BY <3>2 DEF R, b, B, C
    <2>3. Moved(U.revs, s.X, s.rev, h) = Moved(D.revs, s.X, s.rev, h)
        BY <2>1, <1>1, MovedGrown DEF Extended
    <2>4. Moved(D.revs, e.cs, e.base, s.rev) = s.X
        BY DEF Carrier
    <2>. QED
        BY <2>2, <2>3, <2>4 DEF Rebase
<1>. HIDE DEF t, h
<1>5. ASSUME NEW i \in (s.rev + 1)..headRev(U), U.revs[i].source = t
      PROVE  /\ s.waiting /\ U.revs[i].sub = s.sub
             /\ U.revs[i].cs = Moved(U.revs, s.X, s.rev, i - 1)
    <2>1. CASE i = h + 1
        <3>1. i - 1 = h
            BY <2>1, <1>2
        <3>2. U.revs[i].sub = s.sub
            BY <2>1, <1>2, <1>3
        <3>3. U.revs[i].cs = Moved(U.revs, s.X, s.rev, h)
            <4>1. U.revs[h + 1].cs = Rebase(D, e)
                BY <1>2
            <4>. QED
                BY <4>1, <2>1, <1>4, Zenon
        <3>. QED
            BY <3>1, <3>2, <3>3, <1>3, Zenon
    <2>2. CASE i # h + 1
        <3>1. i \in (s.rev + 1)..headRev(D) /\ i \in 1..h /\ i - 1 \in 0..headRev(D)
            BY <2>2, <1>1, <1>2 DEF h
        <3>2. U.revs[i] = D.revs[i]
            BY <3>1, <1>2
        <3>3. Moved(U.revs, s.X, s.rev, i - 1) = Moved(D.revs, s.X, s.rev, i - 1)
            BY <3>1, <1>1, MovedGrown DEF Extended
        <3>. QED
            BY <3>1, <3>2, <3>3, <1>5 DEF Own, t
    <2>. QED
        BY <2>1, <2>2
<1>6. U.last[t] \in {s.sub - 1, s.sub}
    <2>1. U.last[t] = e.sub
        BY <1>2
    <2>. QED
        BY <2>1, <1>3
<1>7. h + 1 \in (s.rev + 1)..headRev(U)
    <2>1. h \in Nat /\ headRev(U) = h + 1
        BY <1>2
    <2>. QED
        BY <2>1, <1>1
<1>8. U.revs[h + 1].source = t
    BY <1>2
<1>9. \E i \in (s.rev + 1)..headRev(U) : U.revs[i].source = t
    BY <1>7, <1>8
<1>. QED
    BY <1>3, <1>5, <1>6, <1>9, Zenon DEF Own, t

LEMMA CarrierOther ==
    ASSUME NEW D \in Document, NEW U \in Document, NEW e \in Entry,
           Extended(D, e, U), NEW s \in TabStates, TextOK(s, D),
           NEW m, m.client \in ClientIds, m.client # e.client, m.cs \in Changeset,
           m.base \in Nat, Carrier(m, s, D)
    PROVE  Carrier(m, s, U)
<1>1. headRev(D) \in Nat /\ U.last[m.client] = D.last[m.client]
    BY ExtendedFacts
<1>2. m.base \in 0..headRev(D) /\ s.rev \in 0..headRev(D)
    BY <1>1 DEF Carrier, TextOK
<1>3. TextAt(U, m.base) = TextAt(D, m.base)
    BY <1>2, TextAtGrown DEF Extended
<1>4. Moved(U.revs, m.cs, m.base, s.rev) = Moved(D.revs, m.cs, m.base, s.rev)
    BY <1>2, MovedGrown DEF Extended
<1>. QED
    BY <1>1, <1>3, <1>4 DEF Carrier

LEMMA CarrierFitting ==
    ASSUME NEW D \in Document, NEW e \in Entry, NEW s \in TabStates, TextOK(s, D),
           Own(s, e.client, D), Carrier(e, s, D)
    PROVE  Fitting(D, e) /\ ~ IsDuplicate(D, e)
<1>1. /\ headRev(D) \in Nat /\ s.rev \in Nat /\ s.sub \in Nat
      /\ e.client \in ClientIds /\ e.sub \in Nat /\ D.last[e.client] \in Nat
    BY RevsFacts DEF TabStates, Entry, Document
<1>2. e.base \in 0..headRev(D)
    BY <1>1 DEF Carrier, TextOK
<1>3. e.sub > 0 /\ e.sub <= D.last[e.client] + 1 /\ ~ (e.sub <= D.last[e.client])
    BY <1>1 DEF Carrier, Own
<1>. QED
    BY <1>2, <1>3 DEF Carrier, Fitting, IsDuplicate

-----------------------------------------------------------------------------
(* What the handlers of a tab do to it *)

\* The typed text, Y, joined and editing play no part.
Alike(s, h) ==
    /\ h.rev = s.rev /\ h.A = s.A /\ h.X = s.X /\ h.sub = s.sub
    /\ h.waiting = s.waiting

LEMMA AlikeOK ==
    ASSUME NEW s, NEW h, Alike(s, h), NEW D, NEW t
    PROVE  /\ TextOK(s, D) => TextOK(h, D)
           /\ Own(s, t, D) => Own(h, t, D)
           /\ \A m : Carrier(m, s, D) => Carrier(m, h, D)
<1>1. /\ h.rev = s.rev /\ h.A = s.A /\ h.X = s.X /\ h.sub = s.sub
      /\ h.waiting = s.waiting
    BY DEF Alike
<1>2. TextOK(s, D) => TextOK(h, D)
    BY <1>1, Zenon DEF TextOK
<1>3. Own(s, t, D) => Own(h, t, D)
    BY <1>1, Zenon DEF Own
<1>4. \A m : Carrier(m, s, D) => Carrier(m, h, D)
    BY <1>1, Zenon DEF Carrier
<1>. QED
    BY <1>2, <1>3, <1>4

LEMMA AckOwn ==
    ASSUME NEW D \in Document, History(D), Distinct(D), NEW s \in TabStates,
           TextOK(s, D), s.joined, NEW t \in ClientIds, Own(s, t, D),
           s.rev < headRev(D), D.revs[s.rev + 1].source = t,
           NEW m, m.rev = s.rev + 1
    PROVE  LET h == HandleAck(s, m)
           IN  /\ TextOK(h, D) /\ Own(h, t, D) /\ h.rev = s.rev + 1
               /\ h.joined /\ h.editing = s.editing
               /\ s.waiting /\ ~ h.waiting /\ D.last[t] = s.sub
<1>. DEFINE h == HandleAck(s, m)
            r == s.rev + 1
<1>1. /\ headRev(D) \in Nat /\ s.rev \in Nat /\ s.sub \in Nat /\ D.last[t] \in Nat
      /\ s.X \in Changeset /\ D.revs \in Seq(Revision) /\ DOMAIN D.revs = 1..headRev(D)
      /\ headRev(D) = Len(D.revs)
    BY RevsFacts DEF TabStates, Document
<1>2. r \in (s.rev + 1)..headRev(D) /\ r \in 1..headRev(D) /\ r - 1 = s.rev
      /\ s.rev \in 0..Len(D.revs)
    BY <1>1
<1>3. s.waiting /\ D.revs[r].sub = s.sub /\ D.revs[r].cs = Moved(D.revs, s.X, s.rev, s.rev)
    BY <1>2, Zenon DEF Own
<1>4. D.revs[r].cs = s.X
    BY <1>1, <1>2, <1>3, MovedStep
<1>5. TextOK(h, D)
    BY <1>4, HandleAckText
<1>6. h.rev = r /\ h.sub = s.sub /\ ~ h.waiting /\ h.joined /\ h.editing = s.editing
    <2>. DEFINE A == Compose(s.A, s.X)
    <2>1. h = [s EXCEPT !.A = A, !.X = Identity(A.newLen), !.rev = m.rev,
                        !.waiting = FALSE]
        BY Zenon DEF HandleAck, compose, identity
    <2>. HIDE DEF A, h
    <2>. QED
        BY <2>1 DEF TabStates
<1>7. D.last[t] = s.sub
    <2>1. D.revs[r].sub <= D.last[t]
        BY <1>1, <1>2, Zenon DEF Distinct
    <2>2. D.last[t] \in {s.sub - 1, s.sub}
        BY <1>3, Zenon DEF Own
    <2>. QED
        BY <2>1, <2>2, <1>1, <1>3
<1>8. ASSUME NEW i \in (r + 1)..headRev(D), D.revs[i].source = t PROVE FALSE
    <2>1. i \in (s.rev + 1)..headRev(D) /\ i \in 1..headRev(D) /\ i # r
        BY <1>1, <1>2
    <2>2. D.revs[i].sub = s.sub
        BY <2>1, <1>8, Zenon DEF Own
    <2>. QED
        BY <2>1, <2>2, <1>1, <1>2, <1>3, <1>8, Zenon DEF Distinct
<1>. HIDE DEF h, r
<1>9. Own(h, t, D)
    BY <1>6, <1>7, <1>8, Zenon DEF Own
<1>. QED
    BY <1>3, <1>5, <1>6, <1>7, <1>9, Zenon DEF h, r

LEMMA BroadcastOwn ==
    ASSUME NEW D \in Document, History(D), NEW s \in TabStates, TextOK(s, D),
           s.joined, NEW t \in ClientIds, Own(s, t, D), s.rev < headRev(D),
           D.revs[s.rev + 1].source # t,
           NEW m, m.rev = s.rev + 1, m.cs = D.revs[s.rev + 1].cs
    PROVE  LET h == HandleBroadcast(s, m)
           IN  /\ TextOK(h, D) /\ Own(h, t, D) /\ h.rev = s.rev + 1
               /\ h.joined /\ h.editing = s.editing /\ h.waiting = s.waiting
               /\ Shown(h)
               /\ \A p : (p.cs \in Changeset /\ Carrier(p, s, D)) => Carrier(p, h, D)
<1>. DEFINE h == HandleBroadcast(s, m)
            r == s.rev + 1
<1>1. /\ headRev(D) \in Nat /\ s.rev \in Nat /\ s.sub \in Nat
      /\ s.X \in Changeset /\ D.revs \in Seq(Revision)
      /\ headRev(D) = Len(D.revs)
    BY RevsFacts DEF TabStates
<1>2. r \in (s.rev + 1)..headRev(D) /\ r \in 0..Len(D.revs) /\ r - 1 = s.rev
      /\ s.rev \in 0..Len(D.revs) /\ r > s.rev /\ r \in s.rev..Len(D.revs)
    BY <1>1
<1>3. TextOK(h, D) /\ h.X = Follow(m.cs, s.X) /\ h.rev = r /\ Shown(h)
    BY HandleBroadcastText
<1>4. h.sub = s.sub /\ h.waiting = s.waiting /\ h.joined /\ h.editing = s.editing
    <2>1. h = s \/ \E A, X, Y, screen :
                      h = [s EXCEPT !.A = A, !.X = X, !.Y = Y, !.rev = m.rev,
                                    !.screen = screen]
        BY Zenon DEF HandleBroadcast
    <2>. HIDE DEF h
    <2>. QED
        BY <2>1 DEF TabStates
<1>. HIDE DEF h
<1>5. Moved(D.revs, s.X, s.rev, r) = h.X
    <2>1. Moved(D.revs, s.X, s.rev, s.rev) = s.X
        BY <1>1, <1>2, MovedStep
    <2>2. Moved(D.revs, s.X, s.rev, r) = Follow(D.revs[r].cs, Moved(D.revs, s.X, s.rev, r - 1))
        BY <1>1, <1>2, MovedStep
    <2>3. m.cs = D.revs[r].cs
        OBVIOUS
    <2>. QED
        BY <2>1, <2>2, <2>3, <1>2, <1>3
<1>6. ASSUME NEW i \in (r + 1)..headRev(D), D.revs[i].source = t
      PROVE  /\ h.waiting /\ D.revs[i].sub = h.sub
             /\ D.revs[i].cs = Moved(D.revs, h.X, r, i - 1)
    <2>1. i \in (s.rev + 1)..headRev(D) /\ i - 1 \in r..Len(D.revs)
        BY <1>1, <1>2
    <2>2. /\ s.waiting /\ D.revs[i].sub = s.sub
          /\ D.revs[i].cs = Moved(D.revs, s.X, s.rev, i - 1)
        BY <2>1, <1>6, Zenon DEF Own
    <2>3. Moved(D.revs, Moved(D.revs, s.X, s.rev, r), r, i - 1) =
              Moved(D.revs, s.X, s.rev, i - 1)
        <3>. HIDE DEF r
        <3>. QED
            BY <2>1, <1>1, <1>2, MovedTwice
    <2>. QED
        BY <2>2, <2>3, <1>4, <1>5
<1>7. (h.waiting /\ D.last[t] = h.sub) =>
          \E i \in (r + 1)..headRev(D) : D.revs[i].source = t
    <2>1. SUFFICES ASSUME h.waiting, D.last[t] = h.sub
                   PROVE  \E i \in (r + 1)..headRev(D) : D.revs[i].source = t
        OBVIOUS
    <2>2. PICK i \in (s.rev + 1)..headRev(D) : D.revs[i].source = t
        BY <2>1, <1>4, Zenon DEF Own
    <2>3. i # r
        BY <2>2
    <2>4. i \in (r + 1)..headRev(D)
        BY <2>3, <1>1, <1>2
    <2>. QED
        BY <2>2, <2>4
<1>8. IF h.waiting THEN D.last[t] \in {h.sub - 1, h.sub} ELSE D.last[t] = h.sub
    BY <1>4, Zenon DEF Own
<1>9. Own(h, t, D)
    BY <1>3, <1>6, <1>7, <1>8, Zenon DEF Own
<1>10. ASSUME NEW p, p.cs \in Changeset, Carrier(p, s, D)
       PROVE  Carrier(p, h, D)
    <2>. DEFINE R == D.revs
                b == p.base
                c == p.cs
    <2>1. b \in 0..s.rev /\ Moved(R, c, b, s.rev) = s.X
        BY <1>10 DEF Carrier
    <2>2. b \in Nat /\ r > b /\ b \in 0..r
        BY <2>1, <1>1
    <2>. HIDE DEF r
    <2>3. Moved(R, c, b, r) = Follow(R[r].cs, Moved(R, c, b, r - 1))
        <3>1. R \in Seq(Revision) /\ c \in Changeset /\ r \in 0..Len(R)
            BY <1>1, <1>2, <1>10
        <3>. HIDE DEF R, b, c
        <3>. QED
            BY <2>2, <3>1, MovedStep
    <2>4. Moved(R, c, b, r) = h.X
        <3>1. m.cs = R[r].cs
            BY DEF r
        <3>. HIDE DEF R, b, c
        <3>. QED
            BY <2>1, <2>3, <3>1, <1>2, <1>3
    <2>. QED
        BY <2>2, <2>4, <1>3, <1>4, <1>10 DEF Carrier
<1>. QED
    BY <1>3, <1>4, <1>9, <1>10 DEF h, r

LEMMA ConnectAckOwn ==
    ASSUME NEW D \in Document, NEW s \in TabStates, TextOK(s, D), ~ s.waiting,
           NEW t \in ClientIds, Own(s, t, D),
           NEW h, ~ h.waiting, h.sub = s.sub, h.rev \in s.rev..headRev(D)
    PROVE  Own(h, t, D)
<1>1. headRev(D) \in Nat /\ s.rev \in Nat
    BY RevsFacts DEF TabStates
<1>2. ASSUME NEW i \in (h.rev + 1)..headRev(D), D.revs[i].source = t PROVE FALSE
    <2>1. i \in (s.rev + 1)..headRev(D)
        BY <1>1
    <2>. QED
        BY <2>1, <1>2, Zenon DEF Own
<1>3. D.last[t] = h.sub
    BY Zenon DEF Own
<1>. QED
    BY <1>2, <1>3, Zenon DEF Own

LEMMA MoveToXOwn ==
    ASSUME NEW D \in Document, NEW s \in TabStates, TextOK(s, D), ~ s.waiting,
           NEW t \in ClientIds, Own(s, t, D)
    PROVE  LET h == MoveToX(s)
           IN  /\ TextOK(h, D) /\ Own(h, t, D) /\ h.rev = s.rev
               /\ h.joined = s.joined /\ h.editing = s.editing /\ h.waiting
               /\ Carrier(Submission(h, t), h, D)
<1>. DEFINE h == MoveToX(s)
            m == Submission(h, t)
<1>1. /\ headRev(D) \in Nat /\ s.rev \in Nat /\ s.sub \in Nat
      /\ D.revs \in Seq(Revision) /\ headRev(D) = Len(D.revs)
    BY RevsFacts DEF TabStates
<1>2. TextOK(h, D)
    BY MoveToXText
<1>3. /\ h.rev = s.rev /\ h.sub = s.sub + 1 /\ h.waiting /\ h.joined = s.joined
      /\ h.editing = s.editing /\ h.X = Unsent(s)
    BY DEF MoveToX, TabStates
<1>4. h.X \in Changeset
    BY <1>3, UnsentType
<1>5. m.sub = h.sub /\ m.base = h.rev /\ m.cs = h.X /\ m.client = t
    BY DEF Submission
<1>. HIDE DEF h, m
<1>6. D.last[t] = s.sub
    BY Zenon DEF Own
<1>7. \A i \in (h.rev + 1)..headRev(D) : D.revs[i].source # t
    BY <1>3, Zenon DEF Own
<1>8. Own(h, t, D)
    <2>1. D.last[t] \in {h.sub - 1, h.sub} /\ D.last[t] # h.sub
        BY <1>1, <1>3, <1>6
    <2>. QED
        BY <2>1, <1>3, <1>7, Zenon DEF Own
<1>9. Carrier(m, h, D)
    <2>1. h.rev \in 0..Len(D.revs) /\ h.rev \in Nat
        BY <1>1, <1>3 DEF TextOK
    <2>2. Moved(D.revs, h.X, h.rev, h.rev) = h.X
        BY <2>1, <1>1, <1>4, MovedStep
    <2>3. h.rev \in 0..h.rev /\ D.last[t] < h.sub
        BY <2>1, <1>1, <1>3, <1>6
    <2>4. Fits(TextAt(D, h.rev), h.X)
        BY <1>2 DEF TextOK
    <2>. QED
        BY <2>2, <2>3, <2>4, <1>3, <1>5 DEF Carrier
<1>. QED
    BY <1>2, <1>3, <1>8, <1>9 DEF h, m

-----------------------------------------------------------------------------
(* The inductive invariant of the behaviours without a race *)

TabInv ==
    \A t \in Tab : /\ TextOK(tab[t], Truth) /\ Own(tab[t], t, Truth)
                   /\ tab[t].waiting => tab[t].editing
                   /\ tab[t].editing => tab[t].joined

\* Message m of tab t is on its way to a server.
Sent(t, m) ==
    \E k \in DOMAIN conns : /\ conns[k].tab = t
                            /\ \E j \in DOMAIN conns[k].up : conns[k].up[j] = m

CarrierInv ==
    /\ \A t \in Tab : \A m \in SubmitMessage : Sent(t, m) =>
           /\ m.client = t /\ Carrier(m, tab[t], Truth)
           /\ \A p \in proposals : p.client # t
    /\ \A p \in proposals :
           IF p.client = System
           THEN p.sub = 1 /\ p.base = 0 /\ Fits(<<>>, p.cs)
           ELSE /\ Carrier(p, tab[p.client], Truth)
                /\ \A q \in proposals : q.client = p.client => q = p

\* What is sent of revision i to tab t.
NextMessage(D, i, t) ==
    IF D.revs[i].source = t THEN [type |-> "ACK", rev |-> i]
    ELSE [type |-> "BROADCAST", rev |-> i, cs |-> D.revs[i].cs]
Follows(msgs, D, r, t) ==
    /\ r + Len(msgs) <= headRev(D)
    /\ \A j \in 1..Len(msgs) : msgs[j] = NextMessage(D, r + j, t)

GreetingOf(D, p, r) ==
    [type |-> "CONNECT_ACK", text |-> TextAt(D, r), rev |-> r,
     catchUp |-> SubSeq(D.revs, p + 1, r)]

\* A connection whose CONNECT has not been read, was redirected, was answered,
\* and over which a tab edits; h is the head revision of the server.
Waits(c, s) == c.up = <<[type |-> "CONNECT", rev |-> s.rev]>> /\ c.down = <<>>
Redirected(c) ==
    /\ c.up = <<>> /\ c.down # <<>> /\ Head(c.down).type = "REDIRECT"
    /\ \A j \in DOMAIN c.down : c.down[j].type # "CONNECT_ACK"
Welcomed(c, s, t, D, h) ==
    /\ c.up = <<>> /\ c.down # <<>>
    /\ \E r \in s.rev..h : /\ Head(c.down) = GreetingOf(D, s.rev, r)
                           /\ Follows(Tail(c.down), D, r, t)
                           /\ r + Len(Tail(c.down)) = h
Edits(c, s, t, D, h) ==
    /\ c.up = <<>> \/ (Len(c.up) = 1 /\ Head(c.up).type = "SUBMIT")
    /\ Follows(c.down, D, s.rev, t) /\ s.rev + Len(c.down) = h

Linked(c, k, s, t, D, h, l, reg) ==
    \/ ~ s.editing /\ (Waits(c, s) \/ Redirected(c))
    \/ ~ s.editing /\ c.node = l /\ reg = k /\ Welcomed(c, s, t, D, h)
    \/ s.editing /\ c.node = l /\ reg = k /\ Edits(c, s, t, D, h)
LinkOf(t) ==
    /\ current[t] = 0 => ~ tab[t].editing
    /\ current[t] # 0 =>
           /\ conns[current[t]].tab = t
           /\ Linked(conns[current[t]], current[t], tab[t], t, Truth,
                     headRev(doc[leader]), leader, clients[leader][t])
LinkInv == \A t \in Tab : LinkOf(t)

\* The readPump and the ends of connection c, number k.
Greets(c) == c.up # <<>> /\ Head(c.up).type = "CONNECT"
Pumped(c, k, cur) ==
    /\ c.pc \in {"reading", "gone"} /\ (c.open <=> cur = k)
    /\ c.open => c.pc = "reading"
    /\ ~ c.open => c.down = <<>> /\ (c.up # <<>> => Greets(c) /\ Len(c.up) = 1)
ConnsInv == \A k \in DOMAIN conns : Pumped(conns[k], k, current[conns[k].tab])
AloneInv ==
    \A k, l \in DOMAIN conns :
        (k # l /\ conns[k].tab = conns[l].tab /\ conns[k].pc # "gone")
            => conns[l].pc = "gone"
RegisteredInv ==
    \A n \in Node, i \in ClientIds : clients[n][i] # 0 =>
        /\ clients[n][i] \in DOMAIN conns
        /\ conns[clients[n][i]].tab = i /\ conns[clients[n][i]].node = n
        /\ ~ Greets(conns[clients[n][i]])
NoResults == \A n \in Node : results[n] = <<>>

Rest == /\ TabInv /\ CarrierInv /\ LinkInv
        /\ ConnsInv /\ AloneInv /\ RegisteredInv /\ NoResults
Core == TypeOK /\ DocsInv /\ LogInv /\ Rest /\ Race = {}

\* No scenario of races, and no message was dropped.
Room == \A k \in DOMAIN conns : Len(conns[k].down) < QueueCap
Orderly == Race = {} /\ Room

-----------------------------------------------------------------------------
(* Facts *)

LEMMA OwnId ==
    ASSUME Race = {}, NEW t \in Tab
    PROVE  IdOf(t) = t
BY DEF IdOf

LEMMA CoreFacts ==
    ASSUME Core
    PROVE  /\ Truth \in Document /\ History(Truth) /\ Distinct(Truth)
           /\ log \in Seq(Entry) /\ Len(log) \in Nat /\ leader \in Node
           /\ headRev(Truth) \in Nat
           /\ \A n \in Node :
                  /\ doc[n] \in Document /\ applied[n] \in 0..Len(log)
                  /\ doc[n] = DocumentAfter(log, applied[n])
                  /\ History(doc[n]) /\ headRev(doc[n]) \in Nat
                  /\ headRev(doc[n]) <= headRev(Truth) /\ Grown(doc[n], Truth)
<1>1. log \in Seq(Entry) /\ leader \in Node /\ LogOK(log)
      /\ doc \in [Node -> Document]
    BY DEF Core, TypeOK, LogTypes, DocTypes, LogInv
<1>2. Truth \in Document /\ Len(log) \in Nat /\ Len(log) \in 0..Len(log)
    BY <1>1, DocumentOf DEF Truth
<1>3. History(Truth) /\ Distinct(Truth)
    BY <1>1, <1>2, DistinctAlong DEF LogOK, Truth
<1>4. ASSUME NEW n \in Node
      PROVE  /\ doc[n] \in Document /\ applied[n] \in 0..Len(log)
             /\ doc[n] = DocumentAfter(log, applied[n])
             /\ History(doc[n]) /\ headRev(doc[n]) \in Nat
             /\ headRev(doc[n]) <= headRev(Truth) /\ Grown(doc[n], Truth)
    <2>1. applied[n] \in 0..Len(log) /\ doc[n] = DocumentAfter(log, applied[n])
        BY DEF Core, DocsInv
    <2>2. History(doc[n])
        BY <1>1, <2>1 DEF LogOK
    <2>3. Len(log) \in applied[n]..Len(log)
        BY <1>2, <2>1
    <2>4. Grown(doc[n], Truth)
        BY <1>1, <2>1, <2>3, DocumentGrows DEF Truth
    <2>5. doc[n] \in Document
        BY <1>1
    <2>6. headRev(doc[n]) <= headRev(Truth)
        BY <2>4 DEF Grown, headRev
    <2>. QED
        BY <2>1, <2>2, <2>4, <2>5, <2>6, RevsFacts
<1>. QED
    BY <1>1, <1>2, <1>3, <1>4, RevsFacts

LEMMA TabFacts ==
    ASSUME Core, NEW t \in Tab
    PROVE  /\ tab[t] \in TabStates /\ t \in ClientIds /\ t # System
           /\ TextOK(tab[t], Truth) /\ Own(tab[t], t, Truth)
           /\ tab[t].waiting => tab[t].editing
           /\ tab[t].editing => tab[t].joined
           /\ tab[t].rev \in Nat /\ tab[t].rev <= headRev(Truth)
           /\ current[t] \in 0..Len(conns) /\ Len(conns) \in Nat
           /\ current[t] # 0 => current[t] \in DOMAIN conns
           /\ LinkOf(t)
<1>1. tab[t] \in TabStates /\ current[t] \in 0..Len(conns) /\ Len(conns) \in Nat
      /\ conns \in Seq(Connection(Node))
    BY LenProperties DEF Core, TypeOK, TabTypes
<1>2. t \in ClientIds /\ t # System
    BY IdAssumption
<1>3. /\ TextOK(tab[t], Truth) /\ Own(tab[t], t, Truth)
      /\ tab[t].waiting => tab[t].editing
      /\ tab[t].editing => tab[t].joined
      /\ LinkOf(t)
    BY DEF Core, Rest, TabInv, LinkInv
<1>4. tab[t].rev \in Nat
    BY <1>1 DEF TabStates
<1>5. tab[t].rev <= headRev(Truth)
    BY <1>3, CoreFacts DEF TextOK
<1>6. current[t] # 0 => current[t] \in DOMAIN conns
    BY <1>1
<1>. QED
    BY <1>1, <1>2, <1>3, <1>4, <1>5, <1>6

LEMMA ConnOf ==
    ASSUME Core, NEW k \in DOMAIN conns
    PROVE  /\ conns[k] \in Connection(Node) /\ conns[k].tab \in Tab
           /\ conns[k].node \in Node /\ conns[k].up \in Seq(UpMessage)
           /\ conns[k].down \in Seq(DownMessage(Node)) /\ k \in Nat /\ k # 0
           /\ k \in 1..Len(conns) /\ Len(conns) \in Nat
           /\ Len(conns[k].down) \in Nat /\ Len(conns[k].up) \in Nat
           /\ Pumped(conns[k], k, current[conns[k].tab])
<1>1. TypeOK
    BY DEF Core
<1>2. Pumped(conns[k], k, current[conns[k].tab])
    BY DEF Core, Rest, ConnsInv
<1>. QED
    BY <1>1, <1>2, ConnFacts, LenProperties

-----------------------------------------------------------------------------
(* What a step leaves alone *)

LEMMA TruthSame ==
    ASSUME log' = log
    PROVE  Truth' = Truth
BY DEF Truth

LEMMA TabFrame ==
    ASSUME TabInv, UNCHANGED <<tab, log>>
    PROVE  TabInv'
BY TruthSame DEF TabInv

LEMMA CarrierFrame ==
    ASSUME CarrierInv, UNCHANGED <<tab, log>>, proposals' \subseteq proposals,
           \A t \in Tab : \A m \in SubmitMessage : Sent(t, m)' => Sent(t, m)
    PROVE  CarrierInv'
<1>1. Truth' = Truth
    BY TruthSame
<1>2. ASSUME NEW t \in Tab, NEW m \in SubmitMessage, Sent(t, m)'
      PROVE  /\ m.client = t /\ Carrier(m, tab'[t], Truth')
             /\ \A p \in proposals' : p.client # t
    <2>1. Sent(t, m)
        BY <1>2
    <2>2. /\ m.client = t /\ Carrier(m, tab[t], Truth)
          /\ \A p \in proposals : p.client # t
        BY <2>1, Zenon DEF CarrierInv
    <2>. QED
        BY <2>2, <1>1
<1>3. ASSUME NEW p \in proposals'
      PROVE  IF p.client = System
             THEN p.sub = 1 /\ p.base = 0 /\ Fits(<<>>, p.cs)
             ELSE /\ Carrier(p, tab'[p.client], Truth')
                  /\ \A q \in proposals' : q.client = p.client => q = p
    <2>1. p \in proposals
        OBVIOUS
    <2>2. IF p.client = System
          THEN p.sub = 1 /\ p.base = 0 /\ Fits(<<>>, p.cs)
          ELSE /\ Carrier(p, tab[p.client], Truth)
               /\ \A q \in proposals : q.client = p.client => q = p
        BY <2>1, Zenon DEF CarrierInv
    <2>3. CASE p.client = System
        BY <2>2, <2>3
    <2>4. CASE p.client # System
        <3>1. Carrier(p, tab'[p.client], Truth')
            BY <2>2, <2>4, <1>1
        <3>2. \A q \in proposals' : q.client = p.client => q = p
            BY <2>2, <2>4
        <3>. QED
            BY <3>1, <3>2, <2>4
    <2>. QED
        BY <2>3, <2>4
<1>. QED
    BY <1>2, <1>3, Zenon DEF CarrierInv

\* Nothing new is sent when every connection keeps, at most, what it has.
LEMMA SentFrame ==
    ASSUME NEW t \in Tab, NEW m,
           \A k \in DOMAIN conns' : /\ k \in DOMAIN conns
                                    /\ conns'[k].tab = conns[k].tab
                                    /\ conns'[k].up = conns[k].up
                                       \/ conns'[k].up = <<>>
    PROVE  Sent(t, m)' => Sent(t, m)
<1>1. SUFFICES ASSUME Sent(t, m)' PROVE Sent(t, m)
    OBVIOUS
<1>2. PICK k \in DOMAIN conns' : /\ conns'[k].tab = t
                                 /\ \E j \in DOMAIN conns'[k].up : conns'[k].up[j] = m
    BY <1>1 DEF Sent
<1>3. PICK j \in DOMAIN conns'[k].up : conns'[k].up[j] = m
    BY <1>2
<1>4. conns'[k].up # <<>>
    BY <1>3
<1>5. k \in DOMAIN conns /\ conns[k].tab = t /\ conns'[k].up = conns[k].up
    BY <1>2, <1>4
<1>. QED
    BY <1>3, <1>5 DEF Sent

LEMMA ConnsFrame ==
    ASSUME ConnsInv, NEW k, DOMAIN conns' = DOMAIN conns,
           \A l \in DOMAIN conns : l # k =>
               /\ conns'[l] = conns[l]
               /\ current'[conns[l].tab] = l <=> current[conns[l].tab] = l,
           k \in DOMAIN conns => Pumped(conns'[k], k, current'[conns'[k].tab])
    PROVE  ConnsInv'
<1>1. ASSUME NEW l \in DOMAIN conns'
      PROVE  Pumped(conns'[l], l, current'[conns'[l].tab])
    <2>1. CASE l = k
        BY <2>1
    <2>2. CASE l # k
        <3>1. Pumped(conns[l], l, current[conns[l].tab])
            BY DEF ConnsInv
        <3>. QED
            BY <3>1, <2>2 DEF Pumped
    <2>. QED
        BY <2>1, <2>2
<1>. QED
    BY <1>1 DEF ConnsInv

LEMMA AloneFrame ==
    ASSUME AloneInv, DOMAIN conns' = DOMAIN conns,
           \A l \in DOMAIN conns :
               /\ conns'[l].tab = conns[l].tab
               /\ conns'[l].pc = conns[l].pc \/ conns'[l].pc = "gone"
    PROVE  AloneInv'
BY DEF AloneInv

LEMMA RegisteredFrame ==
    ASSUME RegisteredInv, Node' = Node, DOMAIN conns' = DOMAIN conns,
           \A n \in Node, i \in ClientIds :
               clients'[n][i] = clients[n][i] \/ clients'[n][i] = 0,
           \A l \in DOMAIN conns :
               /\ conns'[l].tab = conns[l].tab /\ conns'[l].node = conns[l].node
               /\ Greets(conns'[l]) => Greets(conns[l])
    PROVE  RegisteredInv'
<1>1. ASSUME NEW n \in Node, NEW i \in ClientIds, clients'[n][i] # 0
      PROVE  /\ clients'[n][i] \in DOMAIN conns'
             /\ conns'[clients'[n][i]].tab = i /\ conns'[clients'[n][i]].node = n
             /\ ~ Greets(conns'[clients'[n][i]])
    <2>1. clients'[n][i] = clients[n][i] /\ clients[n][i] # 0
        BY <1>1
    <2>2. /\ clients[n][i] \in DOMAIN conns
          /\ conns[clients[n][i]].tab = i /\ conns[clients[n][i]].node = n
          /\ ~ Greets(conns[clients[n][i]])
        BY <2>1, Zenon DEF RegisteredInv
    <2>. QED
        BY <2>1, <2>2
<1>. QED
    BY <1>1 DEF RegisteredInv

\* The links of all tabs but t.
LEMMA LinkFrame ==
    ASSUME Core, NEW t \in Tab,
           UNCHANGED <<log, leader>>, headRev(doc'[leader]) = headRev(doc[leader]),
           \A u \in Tab \ {t} :
               /\ tab'[u] = tab[u] /\ current'[u] = current[u]
               /\ clients'[leader][u] = clients[leader][u]
               /\ current[u] # 0 => conns'[current[u]] = conns[current[u]],
           LinkOf(t)'
    PROVE  LinkInv'
<1>1. Truth' = Truth
    BY TruthSame
<1>2. ASSUME NEW u \in Tab, u # t PROVE LinkOf(u)'
    <2>1. LinkOf(u)
        BY DEF Core, Rest, LinkInv
    <2>. QED
        BY <2>1, <1>1, <1>2 DEF LinkOf
<1>. QED
    BY <1>2 DEF LinkInv

\* Steps that change one connection.
LEMMA ConnStep ==
    ASSUME Core, NEW k \in DOMAIN conns, NEW c, conns' = [conns EXCEPT ![k] = c],
           UNCHANGED <<current, results, scenario>>,
           c.tab = conns[k].tab, c.node = conns[k].node,
           c.pc = conns[k].pc \/ c.pc = "gone", Pumped(c, k, current[c.tab])
    PROVE  /\ DOMAIN conns' = DOMAIN conns /\ conns'[k] = c
           /\ \A l \in DOMAIN conns : l # k => conns'[l] = conns[l]
           /\ ConnsInv' /\ AloneInv' /\ NoResults'
<1>1. conns \in Seq(Connection(Node))
    BY DEF Core, TypeOK
<1>2. /\ DOMAIN conns' = DOMAIN conns /\ conns'[k] = c
      /\ \A l \in DOMAIN conns : l # k => conns'[l] = conns[l]
    BY <1>1
<1>3. ConnsInv /\ AloneInv /\ NoResults
    BY DEF Core, Rest
<1>4. ConnsInv'
    BY <1>2, <1>3, ConnsFrame
<1>5. \A l \in DOMAIN conns : /\ conns'[l].tab = conns[l].tab
                              /\ conns'[l].pc = conns[l].pc \/ conns'[l].pc = "gone"
    BY <1>2
<1>6. AloneInv'
    BY <1>2, <1>3, <1>5, AloneFrame
<1>7. NoResults'
    BY <1>3 DEF NoResults, Node
<1>. QED
    BY <1>2, <1>4, <1>6, <1>7

LEMMA LinkStep ==
    ASSUME Core, NEW k \in DOMAIN conns, NEW c, conns' = [conns EXCEPT ![k] = c],
           UNCHANGED <<log, leader, doc, current>>, c.tab = conns[k].tab,
           NEW t, t = conns[k].tab,
           \A u \in Tab \ {t} : /\ tab'[u] = tab[u]
                                /\ clients'[leader][u] = clients[leader][u],
           current[t] # k => /\ tab'[t] = tab[t]
                             /\ clients'[leader][t] = clients[leader][t],
           current[t] = k => Linked(c, k, tab'[t], t, Truth, headRev(doc[leader]),
                                    leader, clients'[leader][t])
    PROVE  LinkInv'
<1>1. conns \in Seq(Connection(Node)) /\ t \in Tab /\ k # 0
    BY ConnOf DEF Core, TypeOK
<1>2. /\ conns'[k] = c
      /\ \A l \in DOMAIN conns : l # k => conns'[l] = conns[l]
    BY <1>1
<1>3. Truth' = Truth
    BY TruthSame
<1>4. ASSUME NEW u \in Tab \ {t}, current[u] # 0
      PROVE  conns'[current[u]] = conns[current[u]]
    <2>1. LinkOf(u) /\ current[u] \in DOMAIN conns
        BY <1>4, TabFacts
    <2>2. current[u] # k
        BY <2>1, <1>4 DEF LinkOf
    <2>. QED
        BY <2>1, <2>2, <1>2
<1>5. LinkOf(t)'
    <2>1. CASE current[t] = k
        <3>1. current'[t] = k /\ conns'[current'[t]] = c
            BY <2>1, <1>2
        <3>2. Linked(conns'[current'[t]], current'[t], tab'[t], t, Truth',
                     headRev(doc'[leader']), leader', clients'[leader'][t])
            BY <2>1, <3>1, <1>3
        <3>. QED
            BY <3>1, <3>2, <1>1 DEF LinkOf
    <2>2. CASE current[t] # k
        <3>1. LinkOf(t) /\ (current[t] # 0 => current[t] \in DOMAIN conns)
            BY <1>1, TabFacts
        <3>2. current[t] # 0 => conns'[current'[t]] = conns[current[t]]
            BY <3>1, <2>2, <1>2
        <3>. QED
            BY <3>1, <3>2, <2>2, <1>3 DEF LinkOf
    <2>. QED
        BY <2>1, <2>2
<1>. QED
    BY <1>1, <1>4, <1>5, LinkFrame

-----------------------------------------------------------------------------
(* Steps of the log *)

LEMMA RestLogStep ==
    ASSUME Core, UNCHANGED <<docVars, clients, conns, tabVars, log, leader, scenario>>
    PROVE  /\ TabInv' /\ LinkInv' /\ ConnsInv' /\ AloneInv' /\ RegisteredInv'
           /\ NoResults'
           /\ \A t \in Tab : \A m : Sent(t, m)' => Sent(t, m)
<1>1. Truth' = Truth
    BY TruthSame
<1>2. /\ TabInv /\ LinkInv /\ ConnsInv /\ AloneInv /\ RegisteredInv
      /\ NoResults
    BY DEF Core, Rest
<1>3. /\ tab' = tab /\ current' = current /\ doc' = doc /\ results' = results
      /\ clients' = clients /\ conns' = conns /\ leader' = leader /\ Node' = Node
    BY DEF docVars, tabVars, Node
<1>4. TabInv'
    BY <1>1, <1>2, <1>3 DEF TabInv
<1>5. LinkInv'
    BY <1>1, <1>2, <1>3 DEF LinkInv, LinkOf
<1>6. ConnsInv' /\ AloneInv'
    BY <1>2, <1>3 DEF ConnsInv, AloneInv
<1>7. RegisteredInv' /\ NoResults'
    BY <1>2, <1>3 DEF RegisteredInv, NoResults
<1>8. ASSUME NEW t \in Tab, NEW m, Sent(t, m)' PROVE Sent(t, m)
    BY <1>3, <1>8 DEF Sent
<1>. QED
    BY <1>4, <1>5, <1>6, <1>7, <1>8

LEMMA RestLoseProposal ==
    ASSUME Core, LoseProposal
    PROVE  Rest'
<1>1. /\ UNCHANGED <<log, leader, docVars, clients, conns, tabVars, scenario>>
      /\ proposals' \subseteq proposals
    BY DEF LoseProposal
<1>2. tab' = tab
    BY <1>1 DEF tabVars
<1>3. /\ TabInv' /\ LinkInv' /\ ConnsInv' /\ AloneInv' /\ RegisteredInv'
      /\ NoResults'
      /\ \A t \in Tab : \A m : Sent(t, m)' => Sent(t, m)
    BY <1>1, RestLogStep
<1>4. CarrierInv'
    BY <1>1, <1>2, <1>3, CarrierFrame DEF Core, Rest
<1>. QED
    BY <1>3, <1>4 DEF Rest

LEMMA RestBootstrap ==
    ASSUME Core, Bootstrap
    PROVE  Rest'
<1>. DEFINE b == [no |-> proposed', client |-> System, sub |-> 1, base |-> 0,
                  cs |-> Snapshot(InitText)]
<1>1. /\ UNCHANGED <<log, leader, docVars, clients, conns, tabVars, scenario>>
      /\ proposals' = proposals \cup {b}
    BY DEF Bootstrap, Propose, bounds
<1>2. tab' = tab /\ Truth' = Truth
    BY <1>1, TruthSame DEF tabVars
<1>3. /\ TabInv' /\ LinkInv' /\ ConnsInv' /\ AloneInv' /\ RegisteredInv'
      /\ NoResults'
      /\ \A t \in Tab : \A m : Sent(t, m)' => Sent(t, m)
    BY <1>1, RestLogStep
<1>4. CarrierInv
    BY DEF Core, Rest
<1>5. Fits(<<>>, Snapshot(InitText))
    <2>1. InitText \in Text
        BY ScenarioFacts DEF Core, TypeOK
    <2>. QED
        BY <2>1, SnapshotEdit DEF Fits
<1>6. b.client = System /\ b.sub = 1 /\ b.base = 0 /\ b.cs = Snapshot(InitText)
    OBVIOUS
<1>. HIDE DEF b
<1>7. ASSUME NEW t \in Tab, NEW m \in SubmitMessage, Sent(t, m)'
      PROVE  /\ m.client = t /\ Carrier(m, tab'[t], Truth')
             /\ \A p \in proposals' : p.client # t
    <2>1. Sent(t, m)
        BY <1>3, <1>7
    <2>2. /\ m.client = t /\ Carrier(m, tab[t], Truth)
          /\ \A p \in proposals : p.client # t
        BY <2>1, <1>4, Zenon DEF CarrierInv
    <2>3. b.client # t
        BY <1>6, IdAssumption
    <2>. QED
        BY <2>2, <2>3, <1>1, <1>2
<1>8. ASSUME NEW p \in proposals'
      PROVE  IF p.client = System
             THEN p.sub = 1 /\ p.base = 0 /\ Fits(<<>>, p.cs)
             ELSE /\ Carrier(p, tab'[p.client], Truth')
                  /\ \A q \in proposals' : q.client = p.client => q = p
    <2>1. CASE p = b
        BY <2>1, <1>5, <1>6
    <2>2. CASE p # b
        <3>1. p \in proposals
            BY <2>2, <1>1
        <3>2. IF p.client = System
              THEN p.sub = 1 /\ p.base = 0 /\ Fits(<<>>, p.cs)
              ELSE /\ Carrier(p, tab[p.client], Truth)
                   /\ \A q \in proposals : q.client = p.client => q = p
            BY <3>1, <1>4, Zenon DEF CarrierInv
        <3>. QED
            BY <3>2, <1>1, <1>2, <1>6
    <2>. QED
        BY <2>1, <2>2
<1>9. CarrierInv'
    BY <1>7, <1>8, Zenon DEF CarrierInv
<1>. QED
    BY <1>3, <1>9 DEF Rest

LEMMA RestFailover ==
    ASSUME Core, MayMove, Failover
    PROVE  Rest'
<1>1. /\ UNCHANGED <<log, docVars, clients, conns, tabVars, scenario>>
      /\ proposals' = proposals /\ \A t \in Tab : current[t] = 0
    BY DEF Failover, MayMove, Core
<1>2. /\ tab' = tab /\ current' = current /\ doc' = doc /\ results' = results
      /\ clients' = clients /\ conns' = conns /\ Node' = Node /\ Truth' = Truth
    BY <1>1, TruthSame DEF docVars, tabVars, Node
<1>3. /\ TabInv /\ LinkInv /\ ConnsInv /\ AloneInv /\ RegisteredInv
      /\ NoResults /\ CarrierInv
    BY DEF Core, Rest
<1>4. TabInv'
    BY <1>2, <1>3 DEF TabInv
<1>5. LinkInv'
    BY <1>1, <1>2, <1>3 DEF LinkInv, LinkOf
<1>6. ConnsInv' /\ AloneInv'
    BY <1>2, <1>3 DEF ConnsInv, AloneInv
<1>7. RegisteredInv' /\ NoResults'
    BY <1>2, <1>3 DEF RegisteredInv, NoResults
<1>8. \A t \in Tab : \A m \in SubmitMessage : Sent(t, m)' => Sent(t, m)
    BY <1>2 DEF Sent
<1>9. CarrierInv'
    BY <1>1, <1>2, <1>3, <1>8, CarrierFrame
<1>. QED
    BY <1>4, <1>5, <1>6, <1>7, <1>9 DEF Rest

-----------------------------------------------------------------------------
(* A document that grows *)

LEMMA GreetingGrown ==
    ASSUME NEW D \in Document, NEW U \in Document, Grown(D, U), NEW p \in Nat,
           NEW r \in p..headRev(D)
    PROVE  GreetingOf(U, p, r) = GreetingOf(D, p, r)
<1>1. headRev(D) \in Nat /\ headRev(U) \in Nat /\ headRev(D) <= headRev(U)
      /\ headRev(D) = Len(D.revs)
    BY RevsFacts DEF Grown, headRev
<1>2. r \in 0..headRev(D) /\ r \in p..headRev(U) /\ r - p \in Nat
    BY <1>1
<1>3. TextAt(U, r) = TextAt(D, r)
    BY <1>2, TextAtGrown
<1>. DEFINE a == SubSeq(D.revs, p + 1, r)
            b == SubSeq(U.revs, p + 1, r)
<1>4. /\ a \in Seq(Revision) /\ Len(a) = r - p
      /\ \A k \in 1..(r - p) : a[k] = D.revs[p + k]
    BY MissedRevisions
<1>5. /\ b \in Seq(Revision) /\ Len(b) = r - p
      /\ \A k \in 1..(r - p) : b[k] = U.revs[p + k]
    BY <1>2, MissedRevisions
<1>6. \A k \in 1..(r - p) : U.revs[p + k] = D.revs[p + k]
    <2>1. SUFFICES ASSUME NEW k \in 1..(r - p) PROVE U.revs[p + k] = D.revs[p + k]
        OBVIOUS
    <2>2. p + k \in 1..Len(D.revs)
        BY <1>1
    <2>. QED
        BY <2>2 DEF Grown
<1>. HIDE DEF a, b
<1>7. a = b
    BY <1>4, <1>5, <1>6, SeqEqual
<1>. QED
    BY <1>3, <1>7 DEF GreetingOf, a, b

LEMMA FollowsGrown ==
    ASSUME NEW D \in Document, NEW U \in Document, Grown(D, U), NEW msgs,
           Len(msgs) \in Nat, NEW r \in Nat, NEW t, Follows(msgs, D, r, t)
    PROVE  Follows(msgs, U, r, t)
<1>1. headRev(D) \in Nat /\ headRev(U) \in Nat /\ headRev(D) <= headRev(U)
      /\ headRev(D) = Len(D.revs)
    BY RevsFacts DEF Grown, headRev
<1>2. r + Len(msgs) <= headRev(U)
    BY <1>1 DEF Follows
<1>3. ASSUME NEW j \in 1..Len(msgs) PROVE msgs[j] = NextMessage(U, r + j, t)
    <2>1. r + j \in 1..Len(D.revs)
        BY <1>1 DEF Follows
    <2>2. U.revs[r + j] = D.revs[r + j]
        BY <2>1 DEF Grown
    <2>3. msgs[j] = NextMessage(D, r + j, t)
        BY DEF Follows
    <2>. QED
        BY <2>2, <2>3 DEF NextMessage
<1>. QED
    BY <1>2, <1>3 DEF Follows

LEMMA LinkedGrown ==
    ASSUME NEW D \in Document, NEW U \in Document, Grown(D, U),
           NEW c, NEW S, c.down \in Seq(S), NEW k, NEW s, s.rev \in Nat, NEW t,
           NEW h \in Nat, h <= headRev(D), NEW l, NEW reg,
           Linked(c, k, s, t, D, h, l, reg)
    PROVE  Linked(c, k, s, t, U, h, l, reg)
<1>1. headRev(D) \in Nat /\ Len(c.down) \in Nat
    BY RevsFacts, LenProperties
<1>2. ASSUME Welcomed(c, s, t, D, h) PROVE Welcomed(c, s, t, U, h)
    <2>1. PICK r \in s.rev..h : /\ Head(c.down) = GreetingOf(D, s.rev, r)
                                /\ Follows(Tail(c.down), D, r, t)
                                /\ r + Len(Tail(c.down)) = h
        BY <1>2 DEF Welcomed
    <2>2. r \in Nat /\ r \in s.rev..headRev(D) /\ c.down # <<>>
        BY <1>1, <1>2 DEF Welcomed
    <2>3. GreetingOf(U, s.rev, r) = GreetingOf(D, s.rev, r)
        BY <2>2, GreetingGrown
    <2>4. Len(Tail(c.down)) \in Nat
        BY <2>2, HeadOfSeq, LenProperties
    <2>5. Follows(Tail(c.down), U, r, t)
        BY <2>1, <2>2, <2>4, FollowsGrown
    <2>. QED
        BY <2>1, <2>3, <2>5, <1>2 DEF Welcomed
<1>3. ASSUME Edits(c, s, t, D, h) PROVE Edits(c, s, t, U, h)
    <2>1. Follows(c.down, U, s.rev, t)
        BY <1>1, <1>3, FollowsGrown DEF Edits
    <2>. QED
        BY <2>1, <1>3 DEF Edits
<1>. QED
    BY <1>2, <1>3 DEF Linked

-----------------------------------------------------------------------------
(* Commit *)

LEMMA ProposalFits ==
    ASSUME Core, NEW p \in proposals
    PROVE  /\ p \in Entry /\ Fitting(Truth, p)
           /\ p.client # System => /\ ~ IsDuplicate(Truth, p) /\ p.client \in Tab
                                   /\ Carrier(p, tab[p.client], Truth)
<1>1. p \in Entry
    BY DEF Core, TypeOK, LogTypes
<1>2. p.client \in ClientIds /\ Truth \in Document /\ headRev(Truth) \in Nat
      /\ p.sub \in Nat /\ Truth.last[p.client] \in Nat
    BY <1>1, CoreFacts DEF Entry, Document
<1>3. IF p.client = System
      THEN p.sub = 1 /\ p.base = 0 /\ Fits(<<>>, p.cs)
      ELSE Carrier(p, tab[p.client], Truth)
    BY Zenon DEF Core, Rest, CarrierInv
<1>4. CASE p.client = System
    <2>1. 0 \in 0..headRev(Truth)
        BY <1>2
    <2>2. TextAt(Truth, 0) = <<>>
        BY <2>1, <1>2, TextAtStep
    <2>3. p.base \in 0..headRev(Truth) /\ Fits(TextAt(Truth, p.base), p.cs)
          /\ p.sub > 0 /\ p.sub <= Truth.last[p.client] + 1
        BY <1>2, <1>3, <1>4, <2>1, <2>2
    <2>. QED
        BY <2>3, <1>1, <1>4 DEF Fitting
<1>5. CASE p.client # System
    <2>1. p.client \in Tab /\ Carrier(p, tab[p.client], Truth)
        BY <1>2, <1>3, <1>5, IdAssumption
    <2>2. tab[p.client] \in TabStates /\ TextOK(tab[p.client], Truth)
          /\ Own(tab[p.client], p.client, Truth)
        BY <2>1, TabFacts
    <2>3. Fitting(Truth, p) /\ ~ IsDuplicate(Truth, p)
        BY <1>1, <1>2, <2>1, <2>2, CarrierFitting
    <2>. QED
        BY <1>1, <2>1, <2>3
<1>. QED
    BY <1>4, <1>5

LEMMA LogCommit ==
    ASSUME Core, Commit
    PROVE  /\ LogInv'
           /\ \E p \in proposals :
                  /\ proposals' = proposals \ {p}
                  /\ p \in Entry /\ Truth' \in Document /\ Grown(Truth, Truth')
                  /\ \/ p.client = System /\ Truth' = Truth
                     \/ Extended(Truth, p, Truth')
<1>1. PICK p \in proposals : log' = Append(log, p) /\ proposals' = proposals \ {p}
    BY DEF Commit
<1>2. p \in Entry /\ Fitting(Truth, p)
    BY ProposalFits
<1>3. log \in Seq(Entry) /\ Truth \in Document /\ LogOK(log) /\ History(Truth)
    BY CoreFacts DEF Core, LogInv
<1>4. LogOK(log')
    BY <1>1, <1>2, <1>3, LogAppend DEF Truth
<1>5. /\ Len(Append(log, p)) = Len(log) + 1
      /\ DocumentAfter(Append(log, p), Len(log) + 1) =
             AfterEntry(DocumentAfter(log, Len(log)), p)
    BY <1>2, <1>3, DocumentAfterAppend
<1>6. Truth' = AfterEntry(Truth, p)
    <2>1. Truth' = DocumentAfter(log', Len(log'))
        BY DEF Truth
    <2>. QED
        BY <2>1, <1>1, <1>5 DEF Truth
<1>7. Truth' \in Document /\ Grown(Truth, Truth')
    BY <1>2, <1>3, <1>6, AfterEntryCases, GrownAfter
<1>8. CASE IsDuplicate(Truth, p)
    <2>1. Truth' = Truth /\ p.client = System
        BY <1>2, <1>3, <1>6, <1>8, AfterEntryCases DEF Fitting
    <2>. QED
        BY <2>1, <1>1, <1>2, <1>4, <1>7 DEF LogInv
<1>9. CASE ~ IsDuplicate(Truth, p)
    <2>1. Extended(Truth, p, Truth')
        BY <1>2, <1>3, <1>6, <1>9, ExtendedAfter
    <2>. QED
        BY <2>1, <1>1, <1>2, <1>4, <1>7 DEF LogInv
<1>. QED
    BY <1>8, <1>9

LEMMA RestCommit ==
    ASSUME Core, Commit
    PROVE  Rest'
<1>. DEFINE D == Truth
            U == Truth'
<1>1. PICK p \in proposals :
          /\ proposals' = proposals \ {p}
          /\ p \in Entry /\ U \in Document /\ Grown(D, U)
          /\ \/ p.client = System /\ U = D
             \/ Extended(D, p, U)
    BY LogCommit
<1>2. /\ tab' = tab /\ current' = current /\ doc' = doc /\ results' = results
      /\ clients' = clients /\ conns' = conns /\ Node' = Node /\ leader' = leader
    BY DEF Commit, docVars, tabVars, bounds, Node
<1>3. /\ TabInv /\ LinkInv /\ ConnsInv /\ AloneInv /\ RegisteredInv
      /\ NoResults /\ CarrierInv
    BY DEF Core, Rest
<1>4. D \in Document /\ headRev(doc[leader]) \in Nat
      /\ headRev(doc[leader]) <= headRev(D)
    BY CoreFacts
<1>5. p.client # System => p.client \in Tab /\ Carrier(p, tab[p.client], D)
    BY ProposalFits
<1>. HIDE DEF D, U
<1>6. ASSUME NEW t \in Tab PROVE TextOK(tab[t], U) /\ Own(tab[t], t, U)
    <2>1. /\ tab[t] \in TabStates /\ t \in ClientIds /\ t # System
          /\ TextOK(tab[t], D) /\ Own(tab[t], t, D)
        BY TabFacts DEF D
    <2>2. TextOK(tab[t], U)
        BY <1>1, <1>4, <2>1, TextGrown
    <2>3. CASE U = D
        BY <2>1, <2>3
    <2>4. CASE Extended(D, p, U) /\ t = p.client
        <3>1. Carrier(p, tab[t], D)
            BY <2>4, <2>1, <1>5
        <3>. QED
            BY <3>1, <2>1, <2>2, <2>4, <1>1, <1>4, OwnCommitted
    <2>5. CASE Extended(D, p, U) /\ t # p.client
        BY <2>1, <2>2, <2>5, <1>1, <1>4, OwnOther
    <2>. QED
        BY <1>1, <2>3, <2>4, <2>5
<1>7. TabInv'
    BY <1>2, <1>3, <1>6 DEF TabInv, U
<1>8. ASSUME NEW t \in Tab, NEW m, m.client = t, t # p.client, m.cs \in Changeset,
             m.base \in Nat, Carrier(m, tab[t], D)
      PROVE  Carrier(m, tab[t], U)
    <2>1. tab[t] \in TabStates /\ t \in ClientIds /\ TextOK(tab[t], D)
        BY TabFacts DEF D
    <2>2. CASE U = D
        BY <1>8, <2>2
    <2>3. CASE Extended(D, p, U)
        BY <2>1, <2>3, <1>1, <1>4, <1>8, CarrierOther
    <2>. QED
        BY <1>1, <2>2, <2>3
<1>9. ASSUME NEW t \in Tab, NEW m \in SubmitMessage, Sent(t, m)'
      PROVE  /\ m.client = t /\ Carrier(m, tab'[t], U)
             /\ \A q \in proposals' : q.client # t
    <2>1. Sent(t, m)
        BY <1>2, <1>9 DEF Sent
    <2>2. /\ m.client = t /\ Carrier(m, tab[t], D)
          /\ \A q \in proposals : q.client # t
        BY <2>1, <1>3, Zenon DEF CarrierInv, D
    <2>3. m.cs \in Changeset /\ m.base \in Nat
        BY DEF SubmitMessage
    <2>4. t # p.client
        BY <2>2
    <2>. QED
        BY <2>2, <2>3, <2>4, <1>1, <1>2, <1>8
<1>10. ASSUME NEW q \in proposals'
       PROVE  IF q.client = System
              THEN q.sub = 1 /\ q.base = 0 /\ Fits(<<>>, q.cs)
              ELSE /\ Carrier(q, tab'[q.client], U)
                   /\ \A o \in proposals' : o.client = q.client => o = q
    <2>1. q \in proposals /\ q # p
        BY <1>1
    <2>2. IF q.client = System
          THEN q.sub = 1 /\ q.base = 0 /\ Fits(<<>>, q.cs)
          ELSE /\ Carrier(q, tab[q.client], D)
               /\ \A o \in proposals : o.client = q.client => o = q
        BY <2>1, <1>3, Zenon DEF CarrierInv, D
    <2>3. CASE q.client = System
        BY <2>2, <2>3
    <2>4. CASE q.client # System
        <3>1. q \in Entry /\ q.client \in Tab
            BY <2>1, <2>4, ProposalFits
        <3>2. q.cs \in Changeset /\ q.base \in Nat
            BY <3>1 DEF Entry
        <3>3. Carrier(q, tab[q.client], D) /\ q.client # p.client
            BY <2>1, <2>2, <2>4
        <3>4. Carrier(q, tab[q.client], U)
            BY <3>1, <3>2, <3>3, <1>8
        <3>. QED
            BY <3>4, <2>2, <2>4, <1>1, <1>2
    <2>. QED
        BY <2>3, <2>4
<1>11. CarrierInv'
    BY <1>9, <1>10, Zenon DEF CarrierInv, U
<1>12. ASSUME NEW t \in Tab PROVE LinkOf(t)'
    <2>1. LinkOf(t) /\ tab[t].rev \in Nat
          /\ (current[t] # 0 => current[t] \in DOMAIN conns)
        BY TabFacts
    <2>2. CASE current[t] = 0
        BY <2>1, <2>2, <1>2 DEF LinkOf
    <2>3. CASE current[t] # 0
        <3>. DEFINE k == current[t]
                    c == conns[k]
                    h == headRev(doc[leader])
                    reg == clients[leader][t]
        <3>1. c.down \in Seq(DownMessage(Node)) /\ c.tab = t
            BY <2>1, <2>3, ConnOf DEF LinkOf
        <3>2. Linked(c, k, tab[t], t, D, h, leader, reg)
            BY <2>1, <2>3, Zenon DEF LinkOf, D
        <3>. DEFINE s == tab[t]
        <3>3. s.rev \in Nat /\ h \in Nat /\ h <= headRev(D)
            BY <2>1, <1>4
        <3>. HIDE DEF c, h, reg, s, k
        <3>4. Linked(c, k, s, t, U, h, leader, reg)
            BY <3>1, <3>2, <3>3, <1>1, <1>4, LinkedGrown DEF s
        <3>. QED
            BY <3>1, <3>4, <2>3, <1>2 DEF LinkOf, U, c, h, reg, s, k
    <2>. QED
        BY <2>2, <2>3
<1>13. LinkInv'
    BY <1>12 DEF LinkInv
<1>14. ConnsInv' /\ AloneInv'
    BY <1>2, <1>3 DEF ConnsInv, AloneInv
<1>15. RegisteredInv' /\ NoResults'
    BY <1>2, <1>3 DEF RegisteredInv, NoResults
<1>. QED
    BY <1>7, <1>11, <1>13, <1>14, <1>15 DEF Rest

-----------------------------------------------------------------------------
(* Steps of one tab *)

LEMMA TabStepFrame ==
    ASSUME Core, NEW t \in Tab, NEW h, tab' = [tab EXCEPT ![t] = h], log' = log,
           TextOK(h, Truth), Own(h, t, Truth), h.waiting => h.editing,
           h.editing => h.joined
    PROVE  /\ TabInv' /\ tab'[t] = h /\ Truth' = Truth
           /\ \A u \in Tab \ {t} : tab'[u] = tab[u]
<1>1. tab \in [Tab -> TabStates] /\ TabInv
    BY DEF Core, Rest, TypeOK, TabTypes
<1>2. tab'[t] = h /\ \A u \in Tab \ {t} : tab'[u] = tab[u]
    BY <1>1
<1>3. Truth' = Truth
    BY TruthSame
<1>4. ASSUME NEW u \in Tab
      PROVE  /\ TextOK(tab'[u], Truth') /\ Own(tab'[u], u, Truth')
             /\ tab'[u].waiting => tab'[u].editing
             /\ tab'[u].editing => tab'[u].joined
    <2>1. CASE u = t
        BY <2>1, <1>2, <1>3
    <2>2. CASE u # t
        BY <2>2, <1>1, <1>2, <1>3 DEF TabInv
    <2>. QED
        BY <2>1, <2>2
<1>. QED
    BY <1>2, <1>3, <1>4 DEF TabInv

LEMMA CarrierStep ==
    ASSUME Core, NEW t \in Tab, log' = log, proposals' = proposals,
           \A u \in Tab \ {t} : tab'[u] = tab[u],
           \A u \in Tab : \A m \in SubmitMessage : Sent(u, m)' =>
               \/ Sent(u, m)
               \/ /\ u = t /\ m.client = t /\ Carrier(m, tab'[t], Truth)
                  /\ \A p \in proposals : p.client # t,
           \A m : (m.cs \in Changeset /\ m.client = t /\ Carrier(m, tab[t], Truth))
                      => Carrier(m, tab'[t], Truth)
    PROVE  CarrierInv'
<1>1. Truth' = Truth /\ CarrierInv /\ proposals \subseteq Entry
    BY TruthSame DEF Core, Rest, TypeOK, LogTypes
<1>2. ASSUME NEW u \in Tab, NEW m \in SubmitMessage, Sent(u, m)'
      PROVE  /\ m.client = u /\ Carrier(m, tab'[u], Truth')
             /\ \A p \in proposals' : p.client # u
    <2>1. CASE Sent(u, m)
        <3>1. /\ m.client = u /\ Carrier(m, tab[u], Truth)
              /\ \A p \in proposals : p.client # u
            BY <2>1, <1>1, Zenon DEF CarrierInv
        <3>2. m.cs \in Changeset
            BY DEF SubmitMessage
        <3>3. Carrier(m, tab'[u], Truth)
            BY <3>1, <3>2
        <3>. QED
            BY <3>1, <3>3, <1>1
    <2>2. CASE /\ u = t /\ m.client = t /\ Carrier(m, tab'[t], Truth)
               /\ \A p \in proposals : p.client # t
        BY <2>2, <1>1
    <2>. QED
        BY <2>1, <2>2, <1>2
<1>3. ASSUME NEW p \in proposals'
      PROVE  IF p.client = System
             THEN p.sub = 1 /\ p.base = 0 /\ Fits(<<>>, p.cs)
             ELSE /\ Carrier(p, tab'[p.client], Truth')
                  /\ \A q \in proposals' : q.client = p.client => q = p
    <2>1. p \in proposals
        OBVIOUS
    <2>2. IF p.client = System
          THEN p.sub = 1 /\ p.base = 0 /\ Fits(<<>>, p.cs)
          ELSE /\ Carrier(p, tab[p.client], Truth)
               /\ \A q \in proposals : q.client = p.client => q = p
        BY <2>1, <1>1, Zenon DEF CarrierInv
    <2>3. CASE p.client = System
        BY <2>2, <2>3
    <2>4. CASE p.client # System
        <3>1. p.cs \in Changeset /\ p.client \in Tab
            <4>1. p \in Entry
                BY <2>1, <1>1
            <4>2. p.cs \in Changeset /\ p.client \in ClientIds
                BY <4>1 DEF Entry
            <4>. QED
                BY <4>2, <2>4, IdAssumption
        <3>2. Carrier(p, tab[p.client], Truth)
            BY <2>2, <2>4
        <3>3. Carrier(p, tab'[p.client], Truth')
            BY <3>1, <3>2, <1>1
        <3>. QED
            BY <3>3, <2>2, <2>4
    <2>. QED
        BY <2>3, <2>4
<1>. QED
    BY <1>2, <1>3, Zenon DEF CarrierInv

LEMMA LinkedAlike ==
    ASSUME NEW c, NEW k, NEW s, NEW v, v.rev = s.rev, v.editing = s.editing, NEW t,
           NEW D, NEW h, NEW l, NEW reg, Linked(c, k, s, t, D, h, l, reg)
    PROVE  Linked(c, k, v, t, D, h, l, reg)
BY Zenon DEF Linked, Waits, Welcomed, Edits

LEMMA RestType ==
    ASSUME Core, NEW t \in Tab, Type(t)
    PROVE  Rest'
<1>1. /\ UNCHANGED <<raftVars, docVars, clients, conns, current, home, scenario>>
      /\ tab[t].editing
      /\ \E z : tab' = [tab EXCEPT ![t].screen = z]
    BY DEF Type, bounds
<1>2. PICK z : tab' = [tab EXCEPT ![t].screen = z]
    BY <1>1
<1>. DEFINE s == tab[t]
            v == [s EXCEPT !.screen = z]
<1>3. s \in TabStates /\ TextOK(s, Truth) /\ Own(s, t, Truth) /\ LinkOf(t)
      /\ (s.waiting => s.editing) /\ (s.editing => s.joined)
    BY TabFacts
<1>4. tab' = [tab EXCEPT ![t] = v]
    BY <1>2 DEF Core, TypeOK, TabTypes
<1>5. /\ Alike(s, v) /\ v.editing = s.editing /\ v.joined = s.joined
      /\ v.waiting = s.waiting /\ v.rev = s.rev
    <2>. HIDE DEF s
    <2>. QED
        BY <1>3 DEF Alike, TabStates
<1>6. /\ conns' = conns /\ current' = current /\ doc' = doc /\ results' = results
      /\ clients' = clients /\ log' = log /\ leader' = leader /\ Node' = Node
      /\ proposals' = proposals
    BY <1>1 DEF raftVars, docVars, Node
<1>. HIDE DEF v, s
<1>7. TextOK(v, Truth) /\ Own(v, t, Truth)
      /\ \A m : Carrier(m, s, Truth) => Carrier(m, v, Truth)
    BY <1>3, <1>5, AlikeOK
<1>8. /\ TabInv' /\ tab'[t] = v /\ Truth' = Truth
      /\ \A u \in Tab \ {t} : tab'[u] = tab[u]
    BY <1>3, <1>4, <1>5, <1>6, <1>7, TabStepFrame
<1>9. CarrierInv'
    <2>1. \A u \in Tab : \A m \in SubmitMessage : Sent(u, m)' => Sent(u, m)
        BY <1>6 DEF Sent
    <2>2. \A m : Carrier(m, tab[t], Truth) => Carrier(m, tab'[t], Truth)
        BY <1>7, <1>8 DEF s
    <2>. QED
        BY <2>1, <2>2, <1>6, <1>8, CarrierStep
<1>10. LinkInv'
    <2>1. LinkOf(t)'
        <3>1. CASE current[t] = 0
            BY <3>1, <1>1, <1>3, <1>5, <1>6, <1>8 DEF LinkOf, s
        <3>2. CASE current[t] # 0
            <4>. DEFINE c == conns[current[t]]
                        k == current[t]
                        h == headRev(doc[leader])
                        reg == clients[leader][t]
            <4>1. Linked(c, k, s, t, Truth, h, leader, reg) /\ c.tab = t
                BY <3>2, <1>3 DEF LinkOf, s
            <4>. HIDE DEF c, k, h, reg
            <4>2. Linked(c, k, v, t, Truth, h, leader, reg)
                BY <4>1, <1>5, LinkedAlike
            <4>. QED
                BY <4>1, <4>2, <3>2, <1>6, <1>8 DEF LinkOf, c, k, h, reg
        <3>. QED
            BY <3>1, <3>2
    <2>. QED
        BY <2>1, <1>6, <1>8, LinkFrame
<1>11. ConnsInv /\ AloneInv /\ RegisteredInv /\ NoResults
    BY DEF Core, Rest
<1>12. ConnsInv' /\ AloneInv'
    BY <1>6, <1>11 DEF ConnsInv, AloneInv
<1>13. RegisteredInv' /\ NoResults'
    BY <1>6, <1>11 DEF RegisteredInv, NoResults
<1>. QED
    BY <1>8, <1>9, <1>10, <1>12, <1>13 DEF Rest

-----------------------------------------------------------------------------
(* Submissions *)

LEMMA EditorFacts ==
    ASSUME Core, NEW t \in Tab, tab[t].editing
    PROVE  LET k == current[t]
               c == conns[k]
           IN  /\ k # 0 /\ k \in DOMAIN conns /\ c.tab = t /\ c.node = leader
               /\ clients[leader][t] = k /\ c.open /\ c.pc = "reading"
               /\ Edits(c, tab[t], t, Truth, headRev(doc[leader]))
<1>1. LinkOf(t) /\ (current[t] # 0 => current[t] \in DOMAIN conns)
    BY TabFacts
<1>2. current[t] # 0 /\ current[t] \in DOMAIN conns /\ conns[current[t]].tab = t
    BY <1>1 DEF LinkOf
<1>3. Linked(conns[current[t]], current[t], tab[t], t, Truth,
             headRev(doc[leader]), leader, clients[leader][t])
    BY <1>1, <1>2, Zenon DEF LinkOf
<1>4. Pumped(conns[current[t]], current[t], current[conns[current[t]].tab])
    BY <1>2, ConnOf
<1>. QED
    BY <1>2, <1>3, <1>4, Zenon DEF Linked, Pumped

LEMMA SubmissionSent ==
    ASSUME Core, NEW t \in Tab, tab[t].editing, conns[current[t]].up # <<>>
    PROVE  \E m \in SubmitMessage :
               /\ m.type = "SUBMIT" /\ Sent(t, m) /\ m.client = t
               /\ Carrier(m, tab[t], Truth) /\ m = conns[current[t]].up[1]
               /\ 1 \in DOMAIN conns[current[t]].up
<1>. DEFINE k == current[t]
            m == Head(conns[k].up)
<1>1. k \in DOMAIN conns /\ conns[k].tab = t
      /\ Edits(conns[k], tab[t], t, Truth, headRev(doc[leader]))
    BY EditorFacts
<1>2. conns[k].up \in Seq(UpMessage)
    BY <1>1, ConnOf
<1>3. m \in UpMessage /\ m = conns[k].up[1] /\ 1 \in DOMAIN conns[k].up
    BY <1>2, HeadOfSeq
<1>4. m.type = "SUBMIT"
    BY <1>1 DEF Edits
<1>5. m \in SubmitMessage
    BY <1>3, <1>4, UpKinds
<1>6. Sent(t, m)
    BY <1>1, <1>3 DEF Sent
<1>. HIDE DEF m
<1>7. m.client = t /\ Carrier(m, tab[t], Truth)
    BY <1>5, <1>6, Zenon DEF Core, Rest, CarrierInv
<1>. QED
    BY <1>3, <1>4, <1>5, <1>6, <1>7

LEMMA RestTransmit ==
    ASSUME Core, NEW t \in Tab, NEW v \in TabStates, tab' = [tab EXCEPT ![t] = v],
           Transmit(t, v), UNCHANGED <<raftVars, docVars, clients, current, scenario>>,
           tab[t].editing, v.rev = tab[t].rev, v.editing, v.joined,
           TextOK(v, Truth), Own(v, t, Truth), conns[current[t]].up = <<>>,
           Carrier(Submission(v, t), v, Truth), \A p \in proposals : p.client # t,
           \A m : Carrier(m, tab[t], Truth) => Carrier(m, v, Truth)
    PROVE  Rest'
<1>. DEFINE k == current[t]
            m == Submission(v, t)
            s == tab[t]
            h == headRev(doc[leader])
<1>0. Race = {}
    BY DEF Core
<1>1. /\ k # 0 /\ k \in DOMAIN conns /\ conns[k].tab = t /\ conns[k].node = leader
      /\ clients[leader][t] = k /\ conns[k].open /\ conns[k].pc = "reading"
      /\ Edits(conns[k], s, t, Truth, h)
    BY EditorFacts
<1>2. /\ conns[k] \in Connection(Node) /\ conns \in Seq(Connection(Node))
      /\ Pumped(conns[k], k, current[conns[k].tab])
    BY <1>1, ConnOf DEF Core, TypeOK
<1>3. m \in SubmitMessage /\ m.type = "SUBMIT" /\ m.client = t
    <2>1. t \in ClientIds
        BY TabFacts
    <2>2. m.type = "SUBMIT" /\ m.client = t
        BY DEF Submission
    <2>3. m \in UpMessage
        BY <2>1, SubmissionType
    <2>. QED
        BY <2>2, <2>3, UpKinds
<1>. DEFINE c == [conns[k] EXCEPT !.up = <<m>>]
<1>4. conns' = [conns EXCEPT ![k] = c]
    <2>1. conns' = [conns EXCEPT ![k].up = Append(@, Submission(v, IdOf(t)))]
        BY DEF Transmit
    <2>2. IdOf(t) = t
        BY <1>0, OwnId
    <2>3. Append(conns[k].up, m) = <<m>>
        BY <1>2
    <2>. HIDE DEF m
    <2>. QED
        BY <2>1, <2>2, <2>3, <1>1, <1>2 DEF m
<1>. HIDE DEF m
<1>5. /\ c.tab = t /\ c.node = leader /\ c.pc = "reading" /\ c.open
      /\ c.up = <<m>> /\ c.down = conns[k].down
    BY <1>1, <1>2 DEF Connection
<1>6. /\ current' = current /\ doc' = doc /\ results' = results
      /\ clients' = clients /\ log' = log /\ leader' = leader /\ Node' = Node
      /\ proposals' = proposals
    BY DEF raftVars, docVars, Node
<1>7. Pumped(c, k, current[c.tab])
    BY <1>1, <1>2, <1>5 DEF Pumped
<1>. HIDE DEF c, k, s, h
<1>8. /\ DOMAIN conns' = DOMAIN conns /\ conns'[k] = c
      /\ \A l \in DOMAIN conns : l # k => conns'[l] = conns[l]
      /\ ConnsInv' /\ AloneInv' /\ NoResults'
    BY <1>1, <1>4, <1>5, <1>6, <1>7, ConnStep
<1>9. /\ TabInv' /\ tab'[t] = v /\ Truth' = Truth
      /\ \A u \in Tab \ {t} : tab'[u] = tab[u]
    BY <1>6, TabStepFrame
<1>10. LinkInv'
    <2>1. Edits(c, v, t, Truth, h)
        <3>1. Len(c.up) = 1 /\ Head(c.up).type = "SUBMIT"
            BY <1>3, <1>5
        <3>. QED
            BY <3>1, <1>1, <1>5 DEF Edits, s
    <2>2. Linked(c, k, v, t, Truth, h, leader, clients[leader][t])
        BY <2>1, <1>1, <1>5 DEF Linked
    <2>3. Linked(c, k, tab'[t], t, Truth, headRev(doc[leader]), leader,
                 clients'[leader][t])
        BY <2>2, <1>6, <1>9 DEF h
    <2>4. current[t] = k
        BY DEF k
    <2>5. /\ t = conns[k].tab /\ c.tab = conns[k].tab /\ k \in DOMAIN conns
          /\ UNCHANGED <<log, leader, doc, current>>
          /\ \A u \in Tab \ {t} : /\ tab'[u] = tab[u]
                                  /\ clients'[leader][u] = clients[leader][u]
        BY <1>1, <1>5, <1>6, <1>9
    <2>. HIDE DEF Core
    <2>. QED
        BY <2>3, <2>4, <2>5, <1>4, LinkStep
<1>11. RegisteredInv'
    <2>1. RegisteredInv
        BY DEF Core, Rest
    <2>2. ASSUME NEW l \in DOMAIN conns
          PROVE  /\ conns'[l].tab = conns[l].tab /\ conns'[l].node = conns[l].node
                 /\ Greets(conns'[l]) => Greets(conns[l])
        <3>1. CASE l = k
            <4>1. ~ Greets(c)
                BY <1>3, <1>5 DEF Greets
            <4>. QED
                BY <4>1, <3>1, <1>1, <1>5, <1>8
        <3>2. CASE l # k
            BY <3>2, <1>8
        <3>. QED
            BY <3>1, <3>2
    <2>. QED
        BY <2>1, <2>2, <1>6, <1>8, RegisteredFrame
<1>12. CarrierInv'
    <2>1. ASSUME NEW u \in Tab, NEW x \in SubmitMessage, Sent(u, x)', ~ Sent(u, x)
          PROVE  /\ u = t /\ x.client = t /\ Carrier(x, tab'[t], Truth)
                 /\ \A p \in proposals : p.client # t
        <3>1. PICK l \in DOMAIN conns' :
                  /\ conns'[l].tab = u
                  /\ \E j \in DOMAIN conns'[l].up : conns'[l].up[j] = x
            BY <2>1 DEF Sent
        <3>2. l = k
            <4>1. SUFFICES ASSUME l # k PROVE FALSE
                OBVIOUS
            <4>2. conns'[l] = conns[l] /\ l \in DOMAIN conns
                BY <4>1, <1>8
            <4>. QED
                BY <3>1, <4>2, <2>1 DEF Sent
        <3>3. u = t
            BY <3>1, <3>2, <1>5, <1>8
        <3>4. x = m
            BY <3>1, <3>2, <1>5, <1>8
        <3>. QED
            BY <3>3, <3>4, <1>3, <1>9 DEF m
    <2>2. \A x : Carrier(x, tab[t], Truth) => Carrier(x, tab'[t], Truth)
        BY <1>9
    <2>. QED
        BY <2>1, <2>2, <1>6, <1>9, CarrierStep
<1>. QED
    BY <1>8, <1>9, <1>10, <1>11, <1>12 DEF Rest

LEMMA RestSubmitTick ==
    ASSUME Core, NEW t \in Tab, SubmitTick(t)
    PROVE  Rest'
<1>. DEFINE s == tab[t]
            v == MoveToX(s)
<1>1. /\ s.editing /\ ~ s.waiting /\ tab' = [tab EXCEPT ![t] = v]
      /\ Transmit(t, tab'[t])
      /\ UNCHANGED <<raftVars, docVars, clients, current, scenario>>
    BY DEF SubmitTick, HasEdits, bounds
<1>2. /\ s \in TabStates /\ t \in ClientIds /\ TextOK(s, Truth) /\ Own(s, t, Truth)
      /\ s.joined
    BY <1>1, TabFacts
<1>3. Truth \in Document
    BY CoreFacts
<1>4. v \in TabStates /\ tab'[t] = v
    BY <1>1, <1>2, MoveToXType DEF Core, TypeOK, TabTypes
<1>. HIDE DEF s
<1>5. /\ TextOK(v, Truth) /\ Own(v, t, Truth) /\ v.rev = s.rev
      /\ v.joined = s.joined /\ v.editing = s.editing /\ v.waiting
      /\ Carrier(Submission(v, t), v, Truth)
    BY <1>1, <1>2, <1>3, MoveToXOwn
<1>. HIDE DEF v
<1>6. \A m : ~ Carrier(m, s, Truth)
    BY <1>1 DEF Carrier
<1>7. conns[current[t]].up = <<>>
    BY <1>1, <1>6, SubmissionSent DEF s
<1>8. ASSUME NEW p \in proposals PROVE p.client # t
    BY <1>6, ProposalFits, TabFacts DEF s
<1>9. Transmit(t, v)
    BY <1>1, <1>4
<1>10. tab[t].editing /\ v.rev = tab[t].rev /\ v.editing /\ v.joined
       /\ \A m : Carrier(m, tab[t], Truth) => Carrier(m, v, Truth)
    BY <1>1, <1>2, <1>5, <1>6 DEF s
<1>. QED
    BY <1>1, <1>4, <1>5, <1>7, <1>8, <1>9, <1>10, RestTransmit

LEMMA NotUnderWay ==
    ASSUME Core, NEW t \in Tab, tab[t].editing, tab[t].waiting,
           ~ UnderWay(t, tab[t].sub)
    PROVE  /\ conns[current[t]].up = <<>> /\ \A p \in proposals : p.client # t
           /\ Truth.last[t] < tab[t].sub
<1>. DEFINE s == tab[t]
            k == current[t]
            c == conns[k]
            D == Truth
            h == headRev(doc[leader])
<1>0. Race = {} /\ IdOf(t) = t
    BY OwnId DEF Core
<1>1. /\ k \in DOMAIN conns /\ c.tab = t /\ c.open /\ Edits(c, s, t, D, h)
    BY EditorFacts
<1>2. c.up = <<>>
    <2>1. SUFFICES ASSUME c.up # <<>> PROVE FALSE
        OBVIOUS
    <2>2. PICK m \in SubmitMessage :
              /\ m.type = "SUBMIT" /\ Sent(t, m) /\ m.client = t
              /\ Carrier(m, s, D)
        BY <2>1, SubmissionSent, Zenon
    <2>3. m.sub = s.sub
        BY <2>2 DEF Carrier
    <2>4. PICK l \in DOMAIN conns : \E j \in DOMAIN conns[l].up : conns[l].up[j] = m
        BY <2>2 DEF Sent
    <2>. QED
        BY <2>2, <2>3, <2>4, Zenon DEF UnderWay
<1>3. ASSUME NEW p \in proposals PROVE p.client # t
    <2>1. SUFFICES ASSUME p.client = t PROVE FALSE
        OBVIOUS
    <2>2. t # System
        BY TabFacts
    <2>3. Carrier(p, s, D)
        BY <2>1, <2>2, ProposalFits
    <2>4. p.sub = s.sub
        BY <2>3 DEF Carrier
    <2>. QED
        BY <2>1, <2>4, Zenon DEF UnderWay
<1>4. /\ s \in TabStates /\ t \in ClientIds /\ Own(s, t, D) /\ s.rev \in Nat
      /\ s.waiting
    BY TabFacts
<1>5. /\ D \in Document /\ headRev(D) \in Nat /\ h \in Nat /\ h <= headRev(D)
      /\ leader \in Node /\ log \in Seq(Entry) /\ Len(log) \in Nat
      /\ applied[leader] \in 0..Len(log)
      /\ doc[leader] = DocumentAfter(log, applied[leader])
    BY CoreFacts
<1>6. s.sub \in Nat /\ D.last[t] \in {s.sub - 1, s.sub}
    BY <1>4, Zenon DEF Own, TabStates
<1>7. D.last[t] # s.sub
    <2>1. SUFFICES ASSUME D.last[t] = s.sub PROVE FALSE
        OBVIOUS
    <2>2. PICK i \in (s.rev + 1)..headRev(D) : D.revs[i].source = t
        BY <2>1, <1>4, Zenon DEF Own
    <2>3. D.revs[i].sub = s.sub
        BY <2>2, <1>4, Zenon DEF Own
    <2>4. CASE i <= h
        <3>. DEFINE j == i - s.rev
        <3>1. j \in 1..Len(c.down) /\ s.rev + j = i
            <4>1. s.rev + Len(c.down) = h
                BY <1>1 DEF Edits
            <4>2. Len(c.down) \in Nat
                BY <1>1, ConnOf
            <4>3. i \in Int /\ i >= s.rev + 1
                BY <1>4, <1>5
            <4>4. ASSUME NEW r \in Nat, NEW l \in Nat, NEW x \in Int, x >= r + 1,
                         x <= r + l
                  PROVE  x - r \in 1..l /\ r + (x - r) = x
                BY <4>4
            <4>5. i <= s.rev + Len(c.down)
                BY <4>1, <2>4
            <4>6. s.rev \in Nat
                BY <1>4
            <4>. HIDE DEF s, c
            <4>. QED
                BY <4>2, <4>3, <4>4, <4>5, <4>6
        <3>2. c.down[j] = NextMessage(D, i, t)
            BY <3>1, <1>1 DEF Edits, Follows
        <3>3. c.down[j].type = "ACK"
            BY <3>2, <2>2 DEF NextMessage
        <3>4. j \in DOMAIN c.down
            <4>1. c.down \in Seq(DownMessage(Node))
                BY <1>1, ConnOf
            <4>. QED
                BY <3>1, <4>1
        <3>5. /\ k \in DOMAIN conns /\ conns[k].open /\ IdOf(conns[k].tab) = t
              /\ j \in DOMAIN conns[k].down /\ conns[k].down[j].type \in {"ACK", "REDIRECT"}
            BY <3>3, <3>4, <1>0, <1>1
        <3>. HIDE DEF k, c, j
        <3>. QED
            BY <3>5, Zenon DEF UnderWay
    <2>5. CASE ~ (i <= h)
        <3>. DEFINE a == applied[leader]
                    b == Len(log)
        <3>1. /\ a \in 0..b /\ b \in a..b
              /\ DocumentAfter(log, b) = D /\ DocumentAfter(log, a) = doc[leader]
            BY <1>5 DEF Truth
        <3>2. i \in (headRev(DocumentAfter(log, a)) + 1)..headRev(DocumentAfter(log, b))
            <4>1. i \in (h + 1)..headRev(D)
                BY <2>5, <1>4, <1>5
            <4>. QED
                BY <3>1, <4>1
        <3>3. PICK j \in (a + 1)..b : /\ log[j].client = DocumentAfter(log, b).revs[i].source
                                      /\ log[j].sub = DocumentAfter(log, b).revs[i].sub
            BY <3>1, <3>2, <1>5, EntryOf
        <3>4. log[j].client = t /\ log[j].sub = s.sub
            BY <3>1, <3>3, <2>2, <2>3
        <3>. QED
            BY <3>4, <1>5, Zenon DEF UnderWay
    <2>. QED
        BY <2>4, <2>5
<1>8. D.last[t] < s.sub
    BY <1>6, <1>7
<1>. QED
    BY <1>2, <1>3, <1>8

LEMMA RestResend ==
    ASSUME Core, NEW t \in Tab, MayResend(t), Resend(t)
    PROVE  Rest'
<1>. DEFINE s == tab[t]
            m == Submission(s, t)
            D == Truth
<1>0. Race = {} /\ IdOf(t) = t
    BY OwnId DEF Core
<1>1. /\ s.editing /\ s.waiting /\ ~ UnderWay(t, s.sub) /\ Transmit(t, s)
      /\ UNCHANGED <<raftVars, docVars, clients, current, scenario, tab>>
    BY <1>0 DEF MayResend, Resend, tabVars
<1>2. /\ s \in TabStates /\ t \in ClientIds /\ TextOK(s, D) /\ Own(s, t, D)
      /\ s.joined /\ s.rev \in Nat
    BY <1>1, TabFacts
<1>3. /\ conns[current[t]].up = <<>> /\ \A p \in proposals : p.client # t
      /\ D.last[t] < s.sub
    BY <1>1, NotUnderWay
<1>4. Carrier(m, s, D)
    <2>1. m.sub = s.sub /\ m.base = s.rev /\ m.cs = s.X /\ m.client = t
        BY DEF Submission
    <2>2. D \in Document
        BY CoreFacts
    <2>3. D.revs \in Seq(Revision) /\ headRev(D) = Len(D.revs) /\ s.X \in Changeset
        BY <1>2, <2>2, RevsFacts DEF TabStates
    <2>4. s.rev \in 0..Len(D.revs)
        BY <1>2, <2>3 DEF TextOK
    <2>5. Moved(D.revs, s.X, s.rev, s.rev) = s.X
        BY <1>2, <2>3, <2>4, MovedStep
    <2>6. s.rev \in 0..s.rev
        BY <1>2
    <2>7. Fits(TextAt(D, s.rev), s.X)
        BY <1>2 DEF TextOK
    <2>. HIDE DEF m, s, D
    <2>. QED
        BY <2>1, <2>5, <2>6, <2>7, <1>1, <1>3 DEF Carrier
<1>5. tab' = [tab EXCEPT ![t] = s]
    <2>1. tab \in [Tab -> TabStates]
        BY DEF Core, TypeOK, TabTypes
    <2>. QED
        BY <2>1, <1>1
<1>. QED
    BY <1>1, <1>2, <1>3, <1>4, <1>5, RestTransmit

-----------------------------------------------------------------------------
(* The readPumps *)

\* Nothing changes for the tabs when the connection of none changes.
LEMMA LinkUnused ==
    ASSUME Core, NEW k, \A l \in DOMAIN conns : l # k => conns'[l] = conns[l],
           UNCHANGED <<log, leader, doc, current, tab>>,
           \A u \in Tab : current[u] # 0 =>
               /\ current[u] # k
               /\ clients'[leader][u] = clients[leader][u]
    PROVE  LinkInv'
<1>1. Truth' = Truth
    BY TruthSame
<1>2. ASSUME NEW u \in Tab PROVE LinkOf(u)'
    <2>1. LinkOf(u) /\ (current[u] # 0 => current[u] \in DOMAIN conns)
        BY TabFacts
    <2>2. CASE current[u] = 0
        BY <2>1, <2>2 DEF LinkOf
    <2>3. CASE current[u] # 0
        <3>1. conns'[current[u]] = conns[current[u]]
              /\ clients'[leader][u] = clients[leader][u]
            BY <2>1, <2>3
        <3>. QED
            BY <2>1, <2>3, <3>1, <1>1 DEF LinkOf
    <2>. QED
        BY <2>2, <2>3
<1>. QED
    BY <1>2 DEF LinkInv

LEMMA LinkUser ==
    ASSUME Core, NEW t \in Tab, NEW k, current[t] # k, k # 0, conns[k].tab = t
    PROVE  \A u \in Tab : current[u] # k
<1>1. ASSUME NEW u \in Tab PROVE current[u] # k
    <2>1. LinkOf(u)
        BY TabFacts
    <2>. QED
        BY <2>1 DEF LinkOf
<1>. QED
    BY <1>1

LEMMA RestFuture ==
    ASSUME Core, NEW k \in DOMAIN conns, conns' = [conns EXCEPT ![k].future = 0],
           UNCHANGED <<raftVars, docVars, clients, tabVars, scenario>>
    PROVE  Rest'
<1>0. PICK t : t = conns[k].tab
    OBVIOUS
<1>. DEFINE c == [conns[k] EXCEPT !.future = 0]
            D == Truth
            h == headRev(doc[leader])
<1>1. /\ conns[k] \in Connection(Node) /\ conns \in Seq(Connection(Node)) /\ t \in Tab
      /\ Pumped(conns[k], k, current[t])
    BY <1>0, ConnOf DEF Core, TypeOK
<1>2. conns' = [conns EXCEPT ![k] = c]
    BY <1>1
<1>3. /\ c.tab = t /\ c.node = conns[k].node /\ c.pc = conns[k].pc
      /\ c.open = conns[k].open /\ c.up = conns[k].up /\ c.down = conns[k].down
    BY <1>0, <1>1 DEF Connection
<1>4. /\ tab' = tab /\ current' = current /\ doc' = doc /\ results' = results
      /\ clients' = clients /\ log' = log /\ leader' = leader /\ Node' = Node
      /\ proposals' = proposals /\ scenario' = scenario
    BY DEF raftVars, docVars, tabVars, Node
<1>5. Pumped(c, k, current[t])
    BY <1>1, <1>3 DEF Pumped, Greets
<1>6. TabInv /\ CarrierInv /\ LinkInv /\ RegisteredInv
    BY DEF Core, Rest
<1>7. current[t] = k => Linked(c, k, tab[t], t, D, h, leader, clients[leader][t])
    <2>1. SUFFICES ASSUME current[t] = k
                   PROVE  Linked(c, k, tab[t], t, D, h, leader, clients[leader][t])
        OBVIOUS
    <2>2. k # 0
        BY ConnOf
    <2>3. LinkOf(t)
        BY <1>1, TabFacts
    <2>4. Linked(conns[k], k, tab[t], t, D, h, leader, clients[leader][t])
        BY <2>1, <2>2, <2>3, <1>0, Zenon DEF LinkOf
    <2>. HIDE DEF c, D, h
    <2>. QED
        BY <2>4, <1>3 DEF Linked, Waits, Redirected, Welcomed, Edits
<1>. HIDE DEF c, D, h
<1>8. /\ DOMAIN conns' = DOMAIN conns /\ conns'[k] = c
      /\ \A l \in DOMAIN conns : l # k => conns'[l] = conns[l]
      /\ ConnsInv' /\ AloneInv' /\ NoResults'
    BY <1>0, <1>2, <1>3, <1>4, <1>5, ConnStep
<1>9. \A l \in DOMAIN conns : /\ conns'[l].tab = conns[l].tab
                              /\ conns'[l].node = conns[l].node
                              /\ conns'[l].up = conns[l].up
    BY <1>0, <1>3, <1>8
<1>10. TabInv'
    BY <1>4, <1>6, TabFrame
<1>11. \A u \in Tab : \A m \in SubmitMessage : Sent(u, m)' => Sent(u, m)
    BY <1>8, <1>9 DEF Sent
<1>12. CarrierInv'
    BY <1>4, <1>6, <1>11, CarrierFrame
<1>13. RegisteredInv'
    <2>1. \A l \in DOMAIN conns : Greets(conns'[l]) => Greets(conns[l])
        BY <1>9 DEF Greets
    <2>. QED
        BY <2>1, <1>4, <1>6, <1>8, <1>9, RegisteredFrame
<1>14. LinkInv'
    <2>1. current[t] = k => Linked(c, k, tab'[t], t, Truth, headRev(doc[leader]),
                                   leader, clients'[leader][t])
        BY <1>4, <1>7 DEF D, h
    <2>2. c.tab = conns[k].tab /\ UNCHANGED <<log, leader, doc, current>>
        BY <1>0, <1>3, <1>4
    <2>3. /\ \A u \in Tab \ {t} : /\ tab'[u] = tab[u]
                                  /\ clients'[leader][u] = clients[leader][u]
          /\ tab'[t] = tab[t] /\ clients'[leader][t] = clients[leader][t]
        BY <1>4
    <2>. HIDE DEF Core
    <2>4. CASE current[t] = k
        <3>1. /\ t = conns[k].tab /\ c.tab = conns[k].tab
              /\ current[t] # k => /\ tab'[t] = tab[t]
                                   /\ clients'[leader][t] = clients[leader][t]
            BY <2>2, <2>3, <1>0
        <3>. QED
            BY <3>1, <2>1, <2>2, <2>3, <1>0, <1>2, LinkStep
    <2>5. CASE current[t] # k
        <3>1. \A u \in Tab : current[u] # k
            BY <2>5, <1>0, <1>1, LinkUser, ConnOf
        <3>. QED
            BY <3>1, <1>4, <1>8, LinkUnused
    <2>. QED
        BY <2>4, <2>5
<1>. QED
    BY <1>8, <1>10, <1>12, <1>13, <1>14 DEF Rest

LEMMA RestFutureAnswered ==
    ASSUME Core, NEW k \in DOMAIN conns, FutureAnswered(k)
    PROVE  Rest'
BY RestFuture DEF FutureAnswered, bounds

LEMMA RestFutureFails ==
    ASSUME Core, NEW k \in DOMAIN conns, FutureFails(k)
    PROVE  Rest'
BY RestFuture DEF FutureFails

\* A readPump that returns is not that of the connection in use.
LEMMA RestPumpExit ==
    ASSUME Core, NEW k \in DOMAIN conns, PumpExit(k)
    PROVE  Rest'
<1>0. PICK t : t = conns[k].tab
    OBVIOUS
<1>. DEFINE c == [conns[k] EXCEPT !.pc = "gone", !.up = <<>>]
<1>1. /\ conns[k] \in Connection(Node) /\ conns \in Seq(Connection(Node)) /\ t \in Tab
      /\ Pumped(conns[k], k, current[t]) /\ Race = {} /\ t \in ClientIds
      /\ conns[k].node \in Node /\ clients \in [Node -> [ClientIds -> Nat]]
    BY <1>0, ConnOf, IdAssumption DEF Core, TypeOK, DocTypes
<1>2. /\ conns' = [conns EXCEPT ![k] = c] /\ ~ conns[k].open /\ conns[k].pc = "reading"
      /\ UNCHANGED <<raftVars, docVars, tabVars, scenario>>
      /\ clients' = clients \/ RemoveClient(k)
    BY <1>1 DEF PumpExit, bounds
<1>3. /\ c.tab = t /\ c.node = conns[k].node /\ c.pc = "gone"
      /\ ~ c.open /\ c.up = <<>> /\ c.down = <<>>
    BY <1>0, <1>1, <1>2 DEF Connection, Pumped
<1>4. /\ tab' = tab /\ current' = current /\ doc' = doc /\ results' = results
      /\ log' = log /\ leader' = leader /\ Node' = Node
      /\ proposals' = proposals /\ scenario' = scenario
    BY <1>2 DEF raftVars, docVars, tabVars, Node
<1>5. Pumped(c, k, current[t])
    BY <1>1, <1>2, <1>3 DEF Pumped
<1>6. TabInv /\ CarrierInv /\ LinkInv /\ RegisteredInv /\ AloneInv
    BY DEF Core, Rest
<1>7. \A n \in Node, i \in ClientIds :
          /\ clients'[n][i] = clients[n][i] \/ clients'[n][i] = 0
          /\ i # t => clients'[n][i] = clients[n][i]
    <2>1. IdOf(t) = t
        BY <1>1, OwnId
    <2>2. CASE RemoveClient(k)
        <3>1. clients' = [clients EXCEPT ![conns[k].node][t] = 0]
            BY <2>1, <2>2, <1>0 DEF RemoveClient
        <3>. QED
            BY <3>1, <1>1
    <2>. QED
        BY <2>2, <1>2
<1>8. current[t] = 0
    <2>1. SUFFICES ASSUME current[t] # 0 PROVE FALSE
        OBVIOUS
    <2>2. current[t] \in DOMAIN conns /\ LinkOf(t)
        BY <2>1, <1>1, TabFacts
    <2>3. conns[current[t]].tab = t /\ current[t] # k
        BY <2>1, <2>2, <1>1, <1>2 DEF LinkOf, Pumped
    <2>4. conns[current[t]].pc = "reading"
        BY <2>2, <2>3, ConnOf DEF Pumped
    <2>. QED
        BY <2>2, <2>3, <2>4, <1>0, <1>2, <1>6 DEF AloneInv
<1>. HIDE DEF c
<1>9. /\ DOMAIN conns' = DOMAIN conns /\ conns'[k] = c
      /\ \A l \in DOMAIN conns : l # k => conns'[l] = conns[l]
      /\ ConnsInv' /\ AloneInv' /\ NoResults'
    BY <1>0, <1>2, <1>3, <1>4, <1>5, ConnStep
<1>10. \A l \in DOMAIN conns : /\ conns'[l].tab = conns[l].tab
                               /\ conns'[l].node = conns[l].node
                               /\ conns'[l].up = conns[l].up \/ conns'[l].up = <<>>
    BY <1>0, <1>3, <1>9
<1>11. TabInv'
    BY <1>4, <1>6, TabFrame
<1>12. \A u \in Tab : \A m \in SubmitMessage : Sent(u, m)' => Sent(u, m)
    BY <1>9, <1>10, SentFrame
<1>13. CarrierInv'
    BY <1>4, <1>6, <1>12, CarrierFrame
<1>14. RegisteredInv'
    <2>1. \A l \in DOMAIN conns : Greets(conns'[l]) => Greets(conns[l])
        BY <1>10 DEF Greets
    <2>. QED
        BY <2>1, <1>4, <1>6, <1>7, <1>9, <1>10, RegisteredFrame
<1>15. LinkInv'
    <2>1. LinkOf(t)'
        <3>1. LinkOf(t)
            BY <1>1, TabFacts
        <3>. QED
            BY <3>1, <1>4, <1>8 DEF LinkOf
    <2>2. ASSUME NEW u \in Tab \ {t}
          PROVE  /\ clients'[leader][u] = clients[leader][u]
                 /\ current[u] # 0 => conns'[current[u]] = conns[current[u]]
        <3>1. u \in ClientIds /\ leader \in Node
            BY TabFacts, CoreFacts
        <3>2. CASE current[u] # 0
            <4>1. LinkOf(u) /\ current[u] \in DOMAIN conns
                BY <3>2, TabFacts
            <4>2. current[u] # k
                BY <4>1, <3>2, <1>0 DEF LinkOf
            <4>. QED
                BY <4>1, <4>2, <3>1, <1>7, <1>9
        <3>. QED
            BY <3>1, <3>2, <1>7
    <2>. HIDE DEF Core
    <2>. QED
        BY <2>1, <2>2, <1>1, <1>4, LinkFrame
<1>. QED
    BY <1>9, <1>11, <1>13, <1>14, <1>15 DEF Rest

LEMMA RestReadNext ==
    ASSUME Core, NEW k \in DOMAIN conns, ReadNext(k)
    PROVE  Rest'
<1>1. conns[k].pc \in {"revisions", "text", "rev"}
    BY DEF ReadNext
<1>2. conns[k].pc \in {"reading", "gone"}
    BY ConnOf DEF Pumped
<1>. QED
    BY <1>1, <1>2

LEMMA RestOnCommit ==
    ASSUME Core, NEW n \in Node, OnCommit(n)
    PROVE  Rest'
<1>1. results[n] = <<>>
    BY DEF Core, Rest, NoResults
<1>2. DOMAIN results[n] # {}
    BY DEF OnCommit
<1>. QED
    BY <1>1, <1>2

\* A SUBMIT that waits for a readPump comes from an editor, and is the only
\* trace of its submission.
LEMMA SubmitFacts ==
    ASSUME Core, NEW k \in DOMAIN conns, conns[k].up # <<>>,
           Head(conns[k].up).type = "SUBMIT"
    PROVE  LET c == conns[k]
               t == c.tab
               m == Head(c.up)
           IN  /\ current[t] = k /\ tab[t].editing /\ c.open /\ c.pc = "reading"
               /\ Edits(c, tab[t], t, Truth, headRev(doc[leader]))
               /\ c.node = leader /\ clients[leader][t] = k /\ c.up = <<m>>
               /\ m \in SubmitMessage /\ m.client = t
               /\ Carrier(m, tab[t], Truth) /\ \A p \in proposals : p.client # t
               /\ \A l \in DOMAIN conns : \A j \in DOMAIN conns[l].up :
                      l # k /\ conns[l].tab = t => conns[l].up[j].type = "CONNECT"
<1>0. PICK t, m : t = conns[k].tab /\ m = Head(conns[k].up)
    OBVIOUS
<1>. DEFINE c == conns[k]
<1>1. /\ t \in Tab /\ c.up \in Seq(UpMessage) /\ k # 0
      /\ Pumped(c, k, current[t])
    BY <1>0, ConnOf
<1>2. m \in UpMessage /\ m = c.up[1] /\ 1 \in DOMAIN c.up /\ m \in SubmitMessage
    BY <1>0, <1>1, HeadOfSeq, UpKinds
<1>3. c.open /\ current[t] = k /\ c.pc = "reading"
    BY <1>0, <1>1 DEF Pumped, Greets
<1>4. c.tab = t /\ Linked(c, k, tab[t], t, Truth, headRev(doc[leader]), leader,
                          clients[leader][t])
    <2>1. LinkOf(t)
        BY <1>1, TabFacts
    <2>. QED
        BY <2>1, <1>0, <1>1, <1>3, Zenon DEF LinkOf
<1>5. ~ Waits(c, tab[t])
    BY <1>0 DEF Waits
<1>6. /\ tab[t].editing /\ c.node = leader /\ clients[leader][t] = k
      /\ Edits(c, tab[t], t, Truth, headRev(doc[leader]))
    BY <1>4, <1>5, <1>0 DEF Linked, Redirected, Welcomed
<1>7. c.up = <<m>>
    BY <1>1, <1>2, <1>6, <1>0 DEF Edits
<1>8. /\ m.client = t /\ Carrier(m, tab[t], Truth)
      /\ \A p \in proposals : p.client # t
    <2>1. Sent(t, m)
        BY <1>2, <1>0 DEF Sent
    <2>. QED
        BY <2>1, <1>1, <1>2, Zenon DEF Core, Rest, CarrierInv
<1>9. ASSUME NEW l \in DOMAIN conns, NEW j \in DOMAIN conns[l].up, l # k,
             conns[l].tab = t
      PROVE  conns[l].up[j].type = "CONNECT"
    <2>1. /\ Pumped(conns[l], l, current[t]) /\ conns[l].up \in Seq(UpMessage)
          /\ Len(conns[l].up) \in Nat
        BY <1>9, ConnOf
    <2>2. ~ conns[l].open
        BY <2>1, <1>3, <1>9 DEF Pumped
    <2>3. conns[l].up # <<>>
        BY <1>9
    <2>4. Len(conns[l].up) = 1 /\ Head(conns[l].up).type = "CONNECT"
        BY <2>1, <2>2, <2>3 DEF Pumped, Greets
    <2>5. j = 1
        BY <2>1, <2>4, <1>9
    <2>. QED
        BY <2>1, <2>3, <2>4, <2>5, HeadOfSeq
<1>. HIDE DEF c
<1>. QED
    BY <1>0, <1>2, <1>3, <1>4, <1>6, <1>7, <1>8, <1>9 DEF c

LEMMA RestHandleSubmit ==
    ASSUME Core, NEW k \in DOMAIN conns, HandleSubmit(k)
    PROVE  Rest'
<1>0. PICK t, m : t = conns[k].tab /\ m = Head(conns[k].up)
    OBVIOUS
<1>. DEFINE p == [no |-> proposed', client |-> m.client, sub |-> m.sub,
                  base |-> m.base, cs |-> m.cs]
            rest == [conns[k] EXCEPT !.up = Tail(@)]
<1>1. /\ conns[k].up # <<>> /\ m.type = "SUBMIT"
      /\ UNCHANGED <<log, leader, docVars, clients, tabVars, scenario>>
    BY <1>0 DEF HandleSubmit, bounds
<1>2. /\ current[t] = k /\ tab[t].editing /\ conns[k].open /\ conns[k].pc = "reading"
      /\ Edits(conns[k], tab[t], t, Truth, headRev(doc[leader]))
      /\ conns[k].node = leader /\ clients[leader][t] = k /\ conns[k].up = <<m>>
      /\ m \in SubmitMessage /\ m.client = t
      /\ Carrier(m, tab[t], Truth) /\ \A q \in proposals : q.client # t
      /\ \A l \in DOMAIN conns : \A j \in DOMAIN conns[l].up :
             l # k /\ conns[l].tab = t => conns[l].up[j].type = "CONNECT"
    BY <1>0, <1>1, SubmitFacts
<1>3. /\ conns[k] \in Connection(Node) /\ conns \in Seq(Connection(Node)) /\ t \in Tab
      /\ Pumped(conns[k], k, current[t]) /\ t # System /\ k # 0
    BY <1>0, ConnOf, TabFacts DEF Core, TypeOK
<1>4. /\ rest.tab = t /\ rest.node = leader /\ rest.pc = "reading" /\ rest.open
      /\ rest.up = <<>> /\ rest.down = conns[k].down
      /\ \A f : /\ [rest EXCEPT !.future = f].tab = t
                /\ [rest EXCEPT !.future = f].node = leader
                /\ [rest EXCEPT !.future = f].pc = "reading"
                /\ [rest EXCEPT !.future = f].open
                /\ [rest EXCEPT !.future = f].up = <<>>
                /\ [rest EXCEPT !.future = f].down = conns[k].down
    BY <1>0, <1>2, <1>3 DEF Connection
<1>. HIDE DEF rest
<1>5. \E c : /\ conns' = [conns EXCEPT ![k] = c]
             /\ c \in {rest} \cup {[rest EXCEPT !.future = f] : f \in {proposed'}}
             /\ \/ proposals' = proposals
                \/ proposals' = proposals \cup {p}
    <2>1. CASE /\ conns[k].node # leader \/ ~ Validate(m.cs)
               /\ \E answered \in Refused(rest) :
                      conns' = [conns EXCEPT ![k] = answered]
               /\ UNCHANGED <<proposals, proposed>>
        <3>1. Refused(rest) = {rest}
            BY <1>4 DEF Refused
        <3>. QED
            BY <2>1, <3>1
    <2>2. CASE /\ Propose(m.client, m.sub, m.base, m.cs)
               /\ conns' = [conns EXCEPT ![k] = [rest EXCEPT !.future = proposed']]
        BY <2>2 DEF Propose
    <2>. QED
        BY <2>1, <2>2, <1>0, Zenon DEF HandleSubmit, rest
<1>6. PICK c : /\ conns' = [conns EXCEPT ![k] = c]
               /\ c \in {rest} \cup {[rest EXCEPT !.future = f] : f \in {proposed'}}
               /\ \/ proposals' = proposals
                  \/ proposals' = proposals \cup {p}
    BY <1>5
<1>7. /\ c.tab = t /\ c.node = leader /\ c.pc = "reading" /\ c.open
      /\ c.up = <<>> /\ c.down = conns[k].down
    BY <1>4, <1>6
<1>8. /\ p.client = t /\ p.sub = m.sub /\ p.base = m.base /\ p.cs = m.cs
    BY <1>2
<1>. HIDE DEF p
<1>9. /\ tab' = tab /\ current' = current /\ doc' = doc /\ results' = results
      /\ clients' = clients /\ log' = log /\ leader' = leader /\ Node' = Node
      /\ scenario' = scenario /\ Truth' = Truth
    BY <1>1, TruthSame DEF docVars, tabVars, Node
<1>10. Pumped(c, k, current[t])
    BY <1>2, <1>3, <1>7 DEF Pumped
<1>11. TabInv /\ CarrierInv /\ LinkInv /\ RegisteredInv
    BY DEF Core, Rest
<1>12. /\ DOMAIN conns' = DOMAIN conns /\ conns'[k] = c
       /\ \A l \in DOMAIN conns : l # k => conns'[l] = conns[l]
       /\ ConnsInv' /\ AloneInv' /\ NoResults'
    BY <1>0, <1>2, <1>6, <1>7, <1>9, <1>10, ConnStep
<1>13. TabInv'
    BY <1>9, <1>11, TabFrame
<1>14. LinkInv'
    <2>1. Edits(c, tab[t], t, Truth, headRev(doc[leader]))
        BY <1>2, <1>7 DEF Edits
    <2>2. Linked(c, k, tab'[t], t, Truth, headRev(doc[leader]), leader,
                 clients'[leader][t])
        BY <2>1, <1>2, <1>7, <1>9 DEF Linked
    <2>3. /\ t = conns[k].tab /\ c.tab = conns[k].tab
          /\ UNCHANGED <<log, leader, doc, current>>
          /\ \A u \in Tab \ {t} : /\ tab'[u] = tab[u]
                                  /\ clients'[leader][u] = clients[leader][u]
        BY <1>0, <1>7, <1>9
    <2>4. current[t] = k /\ conns' = [conns EXCEPT ![k] = c]
        BY <1>2, <1>6
    <2>. HIDE DEF Core
    <2>. QED
        BY <2>2, <2>3, <2>4, LinkStep
<1>15. RegisteredInv'
    <2>1. ASSUME NEW l \in DOMAIN conns
          PROVE  /\ conns'[l].tab = conns[l].tab /\ conns'[l].node = conns[l].node
                 /\ Greets(conns'[l]) => Greets(conns[l])
        <3>1. ~ Greets(c)
            BY <1>7 DEF Greets
        <3>. QED
            BY <3>1, <1>0, <1>2, <1>7, <1>12
    <2>. QED
        BY <2>1, <1>9, <1>11, <1>12, RegisteredFrame
<1>16. ASSUME NEW u \in Tab, NEW x \in SubmitMessage, Sent(u, x)'
       PROVE  Sent(u, x) /\ u # t
    <2>1. PICK l \in DOMAIN conns' : /\ conns'[l].tab = u
                                     /\ \E j \in DOMAIN conns'[l].up : conns'[l].up[j] = x
        BY <1>16 DEF Sent
    <2>2. l # k
        BY <2>1, <1>7, <1>12
    <2>3. PICK j \in DOMAIN conns[l].up : conns[l].up[j] = x
        BY <2>1, <2>2, <1>12
    <2>4. l \in DOMAIN conns /\ conns[l].tab = u
        BY <2>1, <2>2, <1>12
    <2>5. x.type = "SUBMIT"
        BY DEF SubmitMessage
    <2>6. u # t
        BY <2>2, <2>3, <2>4, <2>5, <1>2
    <2>. QED
        BY <2>3, <2>4, <2>6 DEF Sent
<1>17. ASSUME NEW u \in Tab, NEW x \in SubmitMessage, Sent(u, x)'
       PROVE  /\ x.client = u /\ Carrier(x, tab'[u], Truth')
              /\ \A q \in proposals' : q.client # u
    <2>1. Sent(u, x) /\ u # t
        BY <1>16, <1>17
    <2>2. /\ x.client = u /\ Carrier(x, tab[u], Truth)
          /\ \A q \in proposals : q.client # u
        BY <2>1, <1>11, Zenon DEF CarrierInv
    <2>. QED
        BY <2>1, <2>2, <1>6, <1>8, <1>9
<1>18. ASSUME NEW q \in proposals'
       PROVE  IF q.client = System
              THEN q.sub = 1 /\ q.base = 0 /\ Fits(<<>>, q.cs)
              ELSE /\ Carrier(q, tab'[q.client], Truth')
                   /\ \A o \in proposals' : o.client = q.client => o = q
    <2>1. CASE q \in proposals
        <3>1. IF q.client = System
              THEN q.sub = 1 /\ q.base = 0 /\ Fits(<<>>, q.cs)
              ELSE /\ Carrier(q, tab[q.client], Truth)
                   /\ \A o \in proposals : o.client = q.client => o = q
            BY <2>1, <1>11, Zenon DEF CarrierInv
        <3>2. q.client # t
            BY <2>1, <1>2
        <3>. QED
            BY <3>1, <3>2, <1>6, <1>8, <1>9
    <2>2. CASE q \notin proposals
        <3>1. q = p
            BY <2>2, <1>6
        <3>2. Carrier(q, tab'[q.client], Truth')
            <4>1. Carrier(p, tab[t], Truth)
                BY <1>2, <1>8 DEF Carrier
            <4>. QED
                BY <4>1, <3>1, <1>8, <1>9
        <3>. QED
            BY <3>1, <3>2, <1>2, <1>3, <1>6, <1>8
    <2>. QED
        BY <2>1, <2>2
<1>19. CarrierInv'
    BY <1>17, <1>18, Zenon DEF CarrierInv
<1>. QED
    BY <1>12, <1>13, <1>14, <1>15, <1>19 DEF Rest

-----------------------------------------------------------------------------
(* A connection begins and ends *)

LEMMA RestConnect ==
    ASSUME Core, NEW t \in Tab, MayConnect(t), Connect(t)
    PROVE  Rest'
<1>. DEFINE new == [tab |-> t, node |-> home[t], open |-> TRUE, pc |-> "reading",
                    up |-> <<[type |-> "CONNECT", rev |-> tab[t].rev]>>,
                    down |-> <<>>,
                    ack |-> [type |-> "CONNECT_ACK", text |-> <<>>, rev |-> 0,
                             catchUp |-> <<>>],
                    future |-> 0]
            greeting == [type |-> "CONNECT", rev |-> tab[t].rev]
<1>1. /\ current[t] = 0 /\ conns' = Append(conns, new)
      /\ \A k \in DOMAIN conns : conns[k].tab = t => conns[k].pc = "gone"
      /\ current' = [current EXCEPT ![t] = Len(conns')]
      /\ UNCHANGED <<raftVars, docVars, clients, tab, scenario>>
    BY DEF MayConnect, Connect, bounds, Core
<1>2. /\ new.tab = t /\ new.open /\ new.pc = "reading" /\ new.up = <<greeting>>
      /\ new.down = <<>> /\ greeting.type = "CONNECT"
      /\ greeting = [type |-> "CONNECT", rev |-> tab[t].rev]
    OBVIOUS
<1>. HIDE DEF new, greeting
<1>3. /\ conns \in Seq(Connection(Node)) /\ Len(conns) \in Nat
      /\ DOMAIN conns = 1..Len(conns) /\ current \in [Tab -> Nat]
      /\ \A u \in Tab : current[u] \in 0..Len(conns)
    BY LenProperties DEF Core, TypeOK, TabTypes
<1>4. PICK z : z = Len(conns) + 1 /\ z \in Nat /\ z # 0 /\ z \notin DOMAIN conns
    BY <1>3
<1>5. /\ DOMAIN conns' = DOMAIN conns \cup {z} /\ conns'[z] = new
      /\ \A l \in DOMAIN conns : conns'[l] = conns[l] /\ l # z
      /\ Len(conns') = z
    BY <1>1, <1>3, <1>4
<1>6. /\ current'[t] = z /\ \A u \in Tab \ {t} : current'[u] = current[u]
    BY <1>1, <1>3, <1>5
<1>7. /\ tab' = tab /\ doc' = doc /\ results' = results
      /\ clients' = clients /\ log' = log /\ leader' = leader /\ Node' = Node
      /\ proposals' = proposals /\ scenario' = scenario /\ Truth' = Truth
    BY <1>1, TruthSame DEF raftVars, docVars, Node
<1>8. TabInv /\ CarrierInv /\ LinkInv /\ RegisteredInv /\ ConnsInv /\ AloneInv
      /\ NoResults
    BY DEF Core, Rest
<1>9. TabInv'
    BY <1>7, <1>8, TabFrame
<1>10. CarrierInv'
    <2>1. ASSUME NEW u \in Tab, NEW m \in SubmitMessage, Sent(u, m)'
          PROVE  Sent(u, m)
        <3>1. PICK l \in DOMAIN conns' :
                  /\ conns'[l].tab = u
                  /\ \E j \in DOMAIN conns'[l].up : conns'[l].up[j] = m
            BY <2>1 DEF Sent
        <3>2. m.type = "SUBMIT"
            BY DEF SubmitMessage
        <3>3. l # z
            BY <3>1, <3>2, <1>2, <1>5
        <3>. QED
            BY <3>1, <3>3, <1>5 DEF Sent
    <2>. QED
        BY <2>1, <1>7, <1>8, CarrierFrame
<1>11. ConnsInv'
    <2>1. ASSUME NEW l \in DOMAIN conns
          PROVE  Pumped(conns'[l], l, current'[conns'[l].tab])
        <3>1. Pumped(conns[l], l, current[conns[l].tab]) /\ conns[l].tab \in Tab
              /\ l # 0
            BY ConnOf
        <3>2. current'[conns[l].tab] = l <=> current[conns[l].tab] = l
            BY <3>1, <1>1, <1>5, <1>6
        <3>. QED
            BY <3>1, <3>2, <1>5 DEF Pumped
    <2>2. Pumped(conns'[z], z, current'[conns'[z].tab])
        BY <1>2, <1>5, <1>6 DEF Pumped
    <2>. QED
        BY <2>1, <2>2, <1>5 DEF ConnsInv
<1>12. AloneInv'
    BY <1>1, <1>2, <1>5, <1>8 DEF AloneInv
<1>13. RegisteredInv'
    <2>1. ASSUME NEW n \in Node, NEW i \in ClientIds, clients[n][i] # 0
          PROVE  /\ clients[n][i] \in DOMAIN conns'
                 /\ conns'[clients[n][i]].tab = i /\ conns'[clients[n][i]].node = n
                 /\ ~ Greets(conns'[clients[n][i]])
        <3>1. /\ clients[n][i] \in DOMAIN conns
              /\ conns[clients[n][i]].tab = i /\ conns[clients[n][i]].node = n
              /\ ~ Greets(conns[clients[n][i]])
            BY <2>1, <1>8, Zenon DEF RegisteredInv
        <3>. QED
            BY <3>1, <1>5
    <2>. QED
        BY <2>1, <1>7 DEF RegisteredInv
<1>14. LinkInv'
    <2>1. LinkOf(t)'
        <3>1. ~ tab[t].editing
            BY <1>1, TabFacts DEF LinkOf
        <3>2. Waits(new, tab[t])
            BY <1>2 DEF Waits
        <3>. QED
            BY <3>1, <3>2, <1>2, <1>4, <1>5, <1>6, <1>7 DEF LinkOf, Linked
    <2>2. ASSUME NEW u \in Tab \ {t}, current[u] # 0
          PROVE  conns'[current[u]] = conns[current[u]]
        BY <2>2, <1>3, <1>5
    <2>3. \A u \in Tab \ {t} : current'[u] = current[u]
        BY <1>6
    <2>. HIDE DEF Core
    <2>. QED
        BY <2>1, <2>2, <2>3, <1>7, LinkFrame
<1>15. NoResults'
    BY <1>7, <1>8 DEF NoResults
<1>. QED
    BY <1>9, <1>10, <1>11, <1>12, <1>13, <1>14, <1>15 DEF Rest

LEMMA RestHangup ==
    ASSUME Core, NEW t \in Tab, NEW a, Hangup(t, a), current[t] # 0,
           ~ tab[t].waiting, UNCHANGED <<raftVars, docVars, clients, scenario>>
    PROVE  Rest'
<1>0. PICK k, s : k = current[t] /\ s = tab[t]
    OBVIOUS
<1>. DEFINE c == [conns[k] EXCEPT !.open = FALSE, !.down = <<>>]
            h == Closed(s)
<1>1. /\ k \in DOMAIN conns /\ conns' = [conns EXCEPT ![k] = c]
      /\ tab' = [tab EXCEPT ![t] = h] /\ current' = [current EXCEPT ![t] = 0]
    BY <1>0, HangupConns DEF Hangup, Core, TypeOK, TabTypes
<1>2. /\ conns[k] \in Connection(Node) /\ conns \in Seq(Connection(Node)) /\ k # 0
      /\ Pumped(conns[k], k, current[conns[k].tab]) /\ current \in [Tab -> Nat]
    BY <1>0, <1>1, ConnOf DEF Core, TypeOK, TabTypes
<1>3. /\ s \in TabStates /\ TextOK(s, Truth) /\ Own(s, t, Truth) /\ ~ s.waiting
      /\ conns[k].tab = t /\ LinkOf(t)
      /\ Linked(conns[k], k, s, t, Truth, headRev(doc[leader]), leader,
                clients[leader][t])
    BY <1>0, TabFacts DEF LinkOf
<1>4. /\ Alike(s, h) /\ h.editing = FALSE /\ ~ h.waiting
    BY <1>3 DEF Closed, Alike, TabStates
<1>5. /\ c.tab = t /\ c.node = conns[k].node /\ c.pc = conns[k].pc
      /\ ~ c.open /\ c.up = conns[k].up /\ c.down = <<>>
    BY <1>2, <1>3 DEF Connection
<1>. HIDE DEF c, h
<1>6. /\ DOMAIN conns' = DOMAIN conns /\ conns'[k] = c
      /\ \A l \in DOMAIN conns : l # k => conns'[l] = conns[l]
      /\ current'[t] = 0 /\ \A u \in Tab \ {t} : current'[u] = current[u]
    BY <1>1, <1>2
<1>7. /\ doc' = doc /\ results' = results
      /\ clients' = clients /\ log' = log /\ leader' = leader /\ Node' = Node
      /\ proposals' = proposals /\ scenario' = scenario
    BY DEF raftVars, docVars, Node
<1>8. CarrierInv /\ RegisteredInv /\ ConnsInv /\ AloneInv /\ NoResults
    BY DEF Core, Rest
<1>9. /\ TextOK(h, Truth) /\ Own(h, t, Truth)
      /\ \A m : Carrier(m, s, Truth) => Carrier(m, h, Truth)
    BY <1>3, <1>4, AlikeOK
<1>10. /\ TabInv' /\ tab'[t] = h /\ Truth' = Truth
       /\ \A u \in Tab \ {t} : tab'[u] = tab[u]
    BY <1>1, <1>4, <1>7, <1>9, TabStepFrame
<1>11. CarrierInv'
    <2>1. \A u \in Tab : \A m \in SubmitMessage : Sent(u, m)' => Sent(u, m)
        BY <1>5, <1>6, <1>3, SentFrame
    <2>2. \A m : Carrier(m, tab[t], Truth) => Carrier(m, tab'[t], Truth)
        BY <1>0, <1>9, <1>10
    <2>. QED
        BY <2>1, <2>2, <1>7, <1>10, CarrierStep
<1>12. conns[k].up # <<>> => Greets(c) /\ Len(c.up) = 1
    <2>1. SUFFICES ASSUME conns[k].up # <<>> PROVE Greets(c) /\ Len(c.up) = 1
        OBVIOUS
    <2>2. Head(conns[k].up).type # "SUBMIT"
        <3>1. SUFFICES ASSUME Head(conns[k].up).type = "SUBMIT" PROVE FALSE
            OBVIOUS
        <3>2. Carrier(Head(conns[k].up), tab[t], Truth)
            BY <3>1, <2>1, <1>1, <1>3, SubmitFacts
        <3>. QED
            BY <3>2, <1>0, <1>3 DEF Carrier
    <2>3. Waits(conns[k], s)
        BY <2>1, <2>2, <1>3 DEF Linked, Redirected, Welcomed, Edits
    <2>4. Len(c.up) = 1 /\ Head(c.up).type = "CONNECT" /\ c.up # <<>>
        BY <2>3, <1>5 DEF Waits
    <2>. QED
        BY <2>4 DEF Greets
<1>13. ConnsInv'
    <2>1. Pumped(conns'[k], k, current'[conns'[k].tab])
        BY <1>2, <1>5, <1>6, <1>12 DEF Pumped
    <2>2. ASSUME NEW l \in DOMAIN conns, l # k
          PROVE  /\ conns'[l] = conns[l]
                 /\ current'[conns[l].tab] = l <=> current[conns[l].tab] = l
        <3>1. conns[l].tab \in Tab /\ l # 0
            BY ConnOf
        <3>. QED
            BY <3>1, <2>2, <1>0, <1>6
    <2>. QED
        BY <2>1, <2>2, <1>6, <1>8, ConnsFrame
<1>14. AloneInv'
    <2>1. \A l \in DOMAIN conns : /\ conns'[l].tab = conns[l].tab
                                  /\ conns'[l].pc = conns[l].pc
        BY <1>3, <1>5, <1>6
    <2>. QED
        BY <2>1, <1>6, <1>8, AloneFrame
<1>15. RegisteredInv'
    <2>1. \A l \in DOMAIN conns : /\ conns'[l].tab = conns[l].tab
                                  /\ conns'[l].node = conns[l].node
                                  /\ Greets(conns'[l]) => Greets(conns[l])
        BY <1>3, <1>5, <1>6 DEF Greets
    <2>. QED
        BY <2>1, <1>6, <1>7, <1>8, RegisteredFrame
<1>16. LinkInv'
    <2>1. LinkOf(t)'
        BY <1>4, <1>6, <1>10 DEF LinkOf
    <2>2. ASSUME NEW u \in Tab \ {t}, current[u] # 0
          PROVE  conns'[current[u]] = conns[current[u]]
        <3>1. LinkOf(u) /\ current[u] \in DOMAIN conns
            BY <2>2, TabFacts
        <3>2. current[u] # k
            BY <3>1, <2>2, <1>3 DEF LinkOf
        <3>. QED
            BY <3>1, <3>2, <1>6
    <2>3. \A u \in Tab \ {t} : current'[u] = current[u]
        BY <1>6
    <2>. HIDE DEF Core
    <2>. QED
        BY <2>1, <2>2, <2>3, <1>7, <1>10, LinkFrame
<1>17. NoResults'
    BY <1>7, <1>8 DEF NoResults
<1>. QED
    BY <1>10, <1>11, <1>13, <1>14, <1>15, <1>16, <1>17 DEF Rest

LEMMA RestDisconnect ==
    ASSUME Core, NEW t \in Tab, MayBreak(t), Disconnect(t)
    PROVE  Rest'
BY RestHangup DEF Disconnect, MayBreak, AtRest, bounds, Core

-----------------------------------------------------------------------------
(* A client is greeted *)

LEMMA GreetedConn ==
    ASSUME NEW N, NEW c \in Connection(N), NEW d \in Document, History(d),
           Head(c.up).rev \in Nat
    PROVE  LET g == Greeted(AllParts(c, d))
               p == Head(c.up).rev
           IN  /\ g.tab = c.tab /\ g.node = c.node /\ g.pc = "reading"
               /\ g.open = c.open /\ g.up = Tail(c.up)
               /\ ~ c.open => g.down = c.down
               /\ (c.open /\ Len(c.down) < QueueCap) =>
                      g.down = Append(c.down, GreetingOf(d, p, headRev(d)))
<1>1. PICK p, cat, r, txt : /\ p = Head(c.up).rev /\ cat = RevisionsSince(d, p)
                            /\ r = headRev(d) /\ txt = d.text
    OBVIOUS
<1>. DEFINE c1 == [c EXCEPT !.ack.catchUp = cat]
            c2 == [c1 EXCEPT !.ack.text = txt]
            c3 == [c2 EXCEPT !.ack.rev = r]
            a == [type |-> "CONNECT_ACK", text |-> txt, rev |-> r, catchUp |-> cat]
<1>2. AllParts(c, d) = c3
    <2>1. ReadPart(c, d, "revisions") = c1
        BY <1>1 DEF ReadPart
    <2>2. ReadPart(c1, d, "text") = c2
        BY <1>1 DEF ReadPart
    <2>3. ReadPart(c2, d, "rev") = c3
        BY <1>1 DEF ReadPart
    <2>. HIDE DEF c1, c2, c3
    <2>. QED
        BY <2>1, <2>2, <2>3 DEF AllParts
<1>3. /\ c3.tab = c.tab /\ c3.node = c.node /\ c3.open = c.open /\ c3.up = c.up
      /\ c3.down = c.down /\ c3.ack = a
      /\ c3 = [c EXCEPT !.ack = a]
    <2>. DEFINE a1 == [c.ack EXCEPT !.catchUp = cat]
                a2 == [a1 EXCEPT !.text = txt]
                a3 == [a2 EXCEPT !.rev = r]
    <2>1. c.ack \in Greeting
        BY DEF Connection
    <2>2. a3 = a
        <3>0. cat \in Seq(Revision) /\ txt \in Text /\ r \in Nat
            <4>1. headRev(d) \in Nat /\ RevisionsSince(d, p) \in Seq(Revision)
                BY <1>1, RevsFacts, RevisionsSinceType
            <4>2. d.text \in Text
                BY DEF Document
            <4>. QED
                BY <4>1, <4>2, <1>1
        <3>1. a1 \in Greeting /\ a1.catchUp = cat
            BY <2>1, <3>0 DEF Greeting
        <3>. HIDE DEF a1
        <3>2. a2 \in Greeting /\ a2.catchUp = cat /\ a2.text = txt
            BY <3>1, <3>0 DEF Greeting
        <3>. HIDE DEF a2
        <3>3. a3 \in Greeting /\ a3.catchUp = cat /\ a3.text = txt /\ a3.rev = r
            BY <3>2, <3>0 DEF Greeting
        <3>. HIDE DEF a3
        <3>. QED
            BY <3>3 DEF Greeting
    <2>3. c1 = [c EXCEPT !.ack = a1]
        OBVIOUS
    <2>. HIDE DEF a1, c1
    <2>4. c2 = [c EXCEPT !.ack = a2]
        BY <2>3 DEF Connection
    <2>. HIDE DEF a2, c2
    <2>5. c3 = [c EXCEPT !.ack = a3]
        BY <2>4 DEF Connection
    <2>. HIDE DEF a, a3, c3
    <2>. QED
        BY <2>2, <2>5 DEF Connection
<1>4. a = GreetingOf(d, p, r)
    BY <1>1 DEF History, GreetingOf, RevisionsSince
<1>. HIDE DEF a, c3
<1>5. CASE c.open /\ Len(c.down) < QueueCap
    <2>1. Queue(c3, c3.ack) = [c3 EXCEPT !.down = Append(c.down, a)]
        BY <1>3, <1>5 DEF Queue
    <2>2. Greeted(c3) = [[c3 EXCEPT !.down = Append(c.down, a)] EXCEPT
                             !.up = Tail(c.up), !.pc = "reading"]
        BY <2>1, <1>3 DEF Greeted
    <2>3. Greeted(c3) = [c EXCEPT !.ack = a, !.down = Append(c.down, a),
                                  !.up = Tail(c.up), !.pc = "reading"]
        BY <2>2, <1>3 DEF Connection
    <2>4. /\ Greeted(c3).tab = c.tab /\ Greeted(c3).node = c.node
          /\ Greeted(c3).pc = "reading" /\ Greeted(c3).open = c.open
          /\ Greeted(c3).up = Tail(c.up) /\ Greeted(c3).down = Append(c.down, a)
        BY <2>3 DEF Connection
    <2>. QED
        BY <2>4, <1>1, <1>2, <1>4, <1>5
<1>6. CASE ~ (c.open /\ Len(c.down) < QueueCap)
    <2>1. Queue(c3, c3.ack) = c3
        BY <1>3, <1>6 DEF Queue
    <2>2. Greeted(c3) = [c3 EXCEPT !.up = Tail(c.up), !.pc = "reading"]
        BY <2>1, <1>3 DEF Greeted
    <2>. QED
        BY <2>2, <1>1, <1>2, <1>3, <1>6 DEF Connection
<1>. QED
    BY <1>5, <1>6

LEMMA RedirectConn ==
    ASSUME NEW N, NEW c \in Connection(N), NEW m
    PROVE  LET g == Queue([c EXCEPT !.up = Tail(@)], m)
           IN  /\ g.tab = c.tab /\ g.node = c.node /\ g.pc = c.pc
               /\ g.open = c.open /\ g.up = Tail(c.up)
               /\ ~ c.open => g.down = c.down
               /\ (c.open /\ Len(c.down) < QueueCap) => g.down = Append(c.down, m)
<1>. DEFINE b == [c EXCEPT !.up = Tail(@)]
<1>1. /\ b.tab = c.tab /\ b.node = c.node /\ b.open = c.open /\ b.up = Tail(c.up)
      /\ b.down = c.down /\ b.pc = c.pc /\ b = [c EXCEPT !.up = Tail(c.up)]
    BY DEF Connection
<1>. HIDE DEF b
<1>2. CASE c.open /\ Len(c.down) < QueueCap
    <2>1. Queue(b, m) = [b EXCEPT !.down = Append(c.down, m)]
        BY <1>1, <1>2 DEF Queue
    <2>. QED
        BY <2>1, <1>1, <1>2 DEF Connection, b
<1>3. CASE ~ (c.open /\ Len(c.down) < QueueCap)
    <2>1. Queue(b, m) = b
        BY <1>1, <1>3 DEF Queue
    <2>. QED
        BY <2>1, <1>1, <1>3 DEF b
<1>. QED
    BY <1>2, <1>3

\* A CONNECT that waits for a readPump: its tab is not editing.
LEMMA ConnectFacts ==
    ASSUME Core, NEW k \in DOMAIN conns, NEW t, t = conns[k].tab,
           conns[k].up # <<>>, Head(conns[k].up).type = "CONNECT",
           conns[k].pc = "reading"
    PROVE  LET c == conns[k]
               s == tab[t]
           IN  /\ Tail(c.up) = <<>> /\ c.down = <<>>
               /\ c.open <=> current[t] = k
               /\ current[t] \in {0, k}
               /\ c.open => ~ s.editing /\ Head(c.up).rev = s.rev
               /\ Head(c.up).rev \in Nat
<1>. DEFINE c == conns[k]
            s == tab[t]
<1>1. /\ t \in Tab /\ c.up \in Seq(UpMessage) /\ k # 0 /\ Len(c.up) \in Nat
      /\ Pumped(c, k, current[t])
    BY ConnOf
<1>2. Head(c.up).rev \in Nat
    BY <1>1, HeadOfSeq, UpKinds
<1>3. current[t] \in {0, k}
    <2>1. SUFFICES ASSUME current[t] # 0, current[t] # k PROVE FALSE
        OBVIOUS
    <2>2. current[t] \in DOMAIN conns /\ conns[current[t]].tab = t
        BY <2>1, <1>1, TabFacts DEF LinkOf
    <2>3. conns[current[t]].pc = "reading"
        BY <2>2, ConnOf DEF Pumped
    <2>. QED
        BY <2>1, <2>2, <2>3 DEF Core, Rest, AloneInv
<1>4. CASE c.open
    <2>1. current[t] = k
        BY <1>1, <1>4 DEF Pumped
    <2>2. Linked(c, k, s, t, Truth, headRev(doc[leader]), leader, clients[leader][t])
        BY <2>1, <1>1, TabFacts DEF LinkOf
    <2>. HIDE DEF c, s
    <2>3. ~ s.editing /\ Waits(c, s)
        BY <2>2 DEF Linked, Redirected, Welcomed, Edits, c
    <2>4. Tail(c.up) = <<>> /\ c.down = <<>> /\ Head(c.up).rev = s.rev
        BY <2>3 DEF Waits
    <2>. QED
        BY <2>1, <2>3, <2>4, <1>2, <1>4 DEF c, s
<1>5. CASE ~ c.open
    <2>1. c.down = <<>> /\ Len(c.up) = 1 /\ current[t] # k
        BY <1>1, <1>5 DEF Pumped
    <2>2. Tail(c.up) = <<>>
        <3>1. ASSUME NEW q \in Seq(UpMessage), Len(q) = 1 PROVE Tail(q) = <<>>
            <4>1. q # <<>>
                BY <3>1, EmptySeq
            <4>2. Tail(q) \in Seq(UpMessage) /\ Len(Tail(q)) = 0
                BY <3>1, <4>1, HeadTailProperties
            <4>. QED
                BY <4>2, EmptySeq
        <3>. HIDE DEF c
        <3>. QED
            BY <3>1, <2>1, <1>1
    <2>. QED
        BY <2>1, <2>2, <1>2, <1>3, <1>5
<1>. QED
    BY <1>4, <1>5

\* The CONNECT has been read and the client registered, answered with m.
LEMMA RestAnswered ==
    ASSUME Core, NEW k \in DOMAIN conns, NEW t, t = conns[k].tab, NEW n,
           n = conns[k].node, NEW g, conns' = [conns EXCEPT ![k] = g],
           clients' = [clients EXCEPT ![n][t] = k],
           UNCHANGED <<raftVars, docVars, tabVars, scenario>>,
           conns[k].pc = "reading", current[t] \in {0, k},
           g.tab = t, g.node = n, g.pc = "reading", g.open = conns[k].open,
           g.up = <<>>, ~ g.open => g.down = <<>>,
           current[t] = k => Linked(g, k, tab[t], t, Truth, headRev(doc[leader]),
                                    leader, clients'[leader][t])
    PROVE  Rest'
<1>1. /\ conns[k] \in Connection(Node) /\ conns \in Seq(Connection(Node)) /\ t \in Tab
      /\ Pumped(conns[k], k, current[t]) /\ t \in ClientIds /\ n \in Node /\ k # 0
      /\ clients \in [Node -> [ClientIds -> Nat]] /\ leader \in Node
    BY ConnOf, TabFacts, CoreFacts DEF Core, TypeOK, DocTypes
<1>2. /\ tab' = tab /\ current' = current /\ doc' = doc /\ results' = results
      /\ log' = log /\ leader' = leader /\ Node' = Node
      /\ proposals' = proposals /\ scenario' = scenario
    BY DEF raftVars, docVars, tabVars, Node
<1>3. Pumped(g, k, current[t])
    BY <1>1 DEF Pumped
<1>4. TabInv /\ CarrierInv /\ LinkInv /\ RegisteredInv
    BY DEF Core, Rest
<1>5. /\ DOMAIN conns' = DOMAIN conns /\ conns'[k] = g
      /\ \A l \in DOMAIN conns : l # k => conns'[l] = conns[l]
      /\ ConnsInv' /\ AloneInv' /\ NoResults'
    BY <1>1, <1>2, <1>3, ConnStep
<1>6. /\ clients'[n][t] = k
      /\ \A o \in Node, i \in ClientIds :
             (o # n \/ i # t) => clients'[o][i] = clients[o][i]
    BY <1>1
<1>7. \A l \in DOMAIN conns : /\ conns'[l].tab = conns[l].tab
                              /\ conns'[l].node = conns[l].node
                              /\ conns'[l].up = conns[l].up \/ conns'[l].up = <<>>
    BY <1>5
<1>8. TabInv'
    BY <1>2, <1>4, TabFrame
<1>9. \A u \in Tab : \A m \in SubmitMessage : Sent(u, m)' => Sent(u, m)
    BY <1>5, <1>7, SentFrame
<1>10. CarrierInv'
    BY <1>2, <1>4, <1>9, CarrierFrame
<1>11. RegisteredInv'
    <2>1. ASSUME NEW o \in Node, NEW i \in ClientIds, clients'[o][i] # 0
          PROVE  /\ clients'[o][i] \in DOMAIN conns'
                 /\ conns'[clients'[o][i]].tab = i /\ conns'[clients'[o][i]].node = o
                 /\ ~ Greets(conns'[clients'[o][i]])
        <3>1. CASE o = n /\ i = t
            BY <3>1, <1>5, <1>6 DEF Greets
        <3>2. CASE o # n \/ i # t
            <4>1. clients'[o][i] = clients[o][i]
                BY <3>2, <1>6
            <4>2. /\ clients[o][i] \in DOMAIN conns
                  /\ conns[clients[o][i]].tab = i /\ conns[clients[o][i]].node = o
                  /\ ~ Greets(conns[clients[o][i]])
                BY <2>1, <4>1, <1>4, Zenon DEF RegisteredInv
            <4>. QED
                BY <4>1, <4>2, <1>5, <1>7 DEF Greets
        <3>. QED
            BY <3>1, <3>2
    <2>. QED
        BY <2>1, <1>2 DEF RegisteredInv
<1>12. LinkInv'
    <2>1. ASSUME NEW u \in Tab \ {t} PROVE clients'[leader][u] = clients[leader][u]
        <3>1. u \in ClientIds
            BY TabFacts
        <3>. QED
            BY <3>1, <1>1, <1>6
    <2>2. CASE current[t] = k
        <3>1. Linked(g, k, tab'[t], t, Truth, headRev(doc[leader]), leader,
                     clients'[leader][t])
            BY <2>2, <1>2
        <3>2. /\ t = conns[k].tab /\ g.tab = conns[k].tab
              /\ UNCHANGED <<log, leader, doc, current>>
              /\ \A u \in Tab \ {t} : /\ tab'[u] = tab[u]
                                      /\ clients'[leader][u] = clients[leader][u]
            BY <2>1, <1>2
        <3>3. current[t] # k => /\ tab'[t] = tab[t]
                                /\ clients'[leader][t] = clients[leader][t]
            BY <2>2
        <3>. HIDE DEF Core
        <3>. QED
            BY <3>1, <3>2, <3>3, <2>2, LinkStep
    <2>3. CASE current[t] = 0
        <3>1. \A u \in Tab : current[u] # 0 =>
                  current[u] # k /\ clients'[leader][u] = clients[leader][u]
            BY <2>1, <2>3, <1>1, LinkUser
        <3>. QED
            BY <3>1, <1>2, <1>5, LinkUnused
    <2>. QED
        BY <2>2, <2>3
<1>. QED
    BY <1>5, <1>8, <1>10, <1>11, <1>12 DEF Rest

LEMMA RestHandleConnect ==
    ASSUME Core, Room, NEW k \in DOMAIN conns, Enters(k)
    PROVE  Rest'
<1>0. PICK t, n, c, s : t = conns[k].tab /\ n = conns[k].node /\ c = conns[k] /\ s = tab[t]
    OBVIOUS
<1>1. Race = {} /\ IdOf(t) = t /\ MayGreet(k) /\ ConnectAtOnce(k)
    BY <1>0, OwnId, ConnOf DEF Core, Enters
<1>2. /\ c.pc = "reading" /\ c.up # <<>> /\ Head(c.up).type = "CONNECT"
      /\ Head(c.up).rev <= headRev(doc[n])
      /\ clients' = [clients EXCEPT ![n][t] = k]
      /\ UNCHANGED <<raftVars, docVars, tabVars, scenario>>
    BY <1>0, <1>1 DEF MayGreet, ConnectAtOnce, Admit, bounds
<1>3. /\ c \in Connection(Node) /\ n \in Node /\ leader \in Node /\ t \in Tab
      /\ Nobody \notin Node /\ clients \in [Node -> [ClientIds -> Nat]]
      /\ t \in ClientIds
    BY <1>0, ConnOf, CoreFacts, ScenarioFacts, TabFacts DEF Core, TypeOK, DocTypes
<1>4. /\ Tail(c.up) = <<>> /\ c.down = <<>>
      /\ c.open <=> current[t] = k
      /\ current[t] \in {0, k}
      /\ c.open => ~ s.editing /\ Head(c.up).rev = s.rev
      /\ Head(c.up).rev \in Nat
    BY <1>0, <1>2, ConnectFacts
<1>5. Len(c.down) < QueueCap
    BY <1>0 DEF Room
<1>6. CASE n # leader
    <2>1. \E h : conns' = [conns EXCEPT ![k] = Queue([c EXCEPT !.up = Tail(@)],
                                             [type |-> "REDIRECT", address |-> h])]
        <3>1. Hints(n) = {leader}
            BY <1>1, <1>6 DEF Hints
        <3>. QED
            BY <3>1, <1>0, <1>1, <1>3, <1>6 DEF ConnectAtOnce, Admit
    <2>2. PICK m : m.type = "REDIRECT" /\
                   conns' = [conns EXCEPT ![k] = Queue([c EXCEPT !.up = Tail(@)], m)]
        BY <2>1
    <2>. DEFINE g == Queue([c EXCEPT !.up = Tail(@)], m)
    <2>3. /\ g.tab = c.tab /\ g.node = c.node /\ g.pc = c.pc
          /\ g.open = c.open /\ g.up = Tail(c.up)
          /\ ~ c.open => g.down = c.down
          /\ (c.open /\ Len(c.down) < QueueCap) => g.down = Append(c.down, m)
        BY <1>3, RedirectConn
    <2>4. conns' = [conns EXCEPT ![k] = g]
        BY <2>2
    <2>. HIDE DEF g
    <2>5. current[t] = k => Linked(g, k, tab[t], t, Truth, headRev(doc[leader]),
                                   leader, clients'[leader][t])
        <3>1. SUFFICES ASSUME current[t] = k
                       PROVE  ~ s.editing /\ Redirected(g)
            BY <1>0 DEF Linked
        <3>2. g.up = <<>> /\ g.down = <<m>>
            BY <3>1, <2>3, <1>4, <1>5
        <3>. QED
            BY <3>1, <3>2, <2>2, <1>4 DEF Redirected
    <2>6. /\ g.tab = t /\ g.node = n /\ g.pc = "reading" /\ g.open = conns[k].open
          /\ g.up = <<>> /\ (~ g.open => g.down = <<>>) /\ conns[k].pc = "reading"
        BY <2>3, <1>0, <1>2, <1>4
    <2>. QED
        BY <2>4, <2>5, <2>6, <1>0, <1>2, <1>4, RestAnswered
<1>7. CASE n = leader
    <2>. DEFINE d == doc[n]
                g == Greeted(AllParts(c, d))
                p == Head(c.up).rev
                r == headRev(d)
    <2>1. conns' = [conns EXCEPT ![k] = g]
        BY <1>0, <1>1, <1>7 DEF ConnectAtOnce, Admit, AllParts, Hints
    <2>2. /\ d \in Document /\ History(d) /\ Truth \in Document /\ Grown(d, Truth)
          /\ r \in Nat /\ r <= headRev(Truth) /\ headRev(Truth) \in Nat
        BY <1>3, CoreFacts
    <2>. HIDE DEF d
    <2>3. /\ g.tab = c.tab /\ g.node = c.node /\ g.pc = "reading"
          /\ g.open = c.open /\ g.up = Tail(c.up)
          /\ ~ c.open => g.down = c.down
          /\ (c.open /\ Len(c.down) < QueueCap) =>
                 g.down = Append(c.down, GreetingOf(d, p, r))
        BY <1>3, <1>4, <2>2, GreetedConn
    <2>4. p \in Nat /\ p <= r
        BY <1>2, <1>4 DEF d
    <2>5. GreetingOf(Truth, p, r) = GreetingOf(d, p, r)
        BY <2>2, <2>4, GreetingGrown
    <2>6. clients'[leader][t] = k
        BY <1>2, <1>3, <1>7
    <2>. HIDE DEF g, p, r
    <2>7. current[t] = k => Linked(g, k, tab[t], t, Truth, headRev(doc[leader]),
                                   leader, clients'[leader][t])
        <3>1. SUFFICES ASSUME current[t] = k
                       PROVE  /\ ~ s.editing /\ g.node = leader
                              /\ Welcomed(g, s, t, Truth, r)
            BY <2>6, <1>0, <1>7 DEF Linked, r, d
        <3>2. p = s.rev
            BY <3>1, <1>4 DEF p
        <3>3. g.up = <<>> /\ g.down = <<GreetingOf(Truth, p, r)>>
            BY <3>1, <2>3, <2>5, <1>4, <1>5
        <3>4. Head(g.down) = GreetingOf(Truth, p, r) /\ Tail(g.down) = <<>>
              /\ g.down # <<>>
            BY <3>3
        <3>5. Follows(<<>>, Truth, r, t)
            BY <2>2 DEF Follows
        <3>6. r \in s.rev..r /\ r + Len(Tail(g.down)) = r
            <4>1. Len(Tail(g.down)) = 0
                <5>1. Len(<<>>) = 0
                    OBVIOUS
                <5>. QED
                    BY <3>4, <5>1
            <4>2. s.rev \in Nat /\ s.rev <= r /\ r \in Nat
                BY <3>2, <2>2, <2>4
            <4>3. ASSUME NEW x, NEW y \in Nat, NEW z \in Nat, x = 0, y <= z
                  PROVE  z \in y..z /\ z + x = z
                BY <4>3
            <4>. QED
                BY <4>1, <4>2, <4>3
        <3>7. Welcomed(g, s, t, Truth, r)
            BY <3>2, <3>3, <3>4, <3>5, <3>6 DEF Welcomed
        <3>. QED
            BY <3>1, <3>7, <2>3, <1>0, <1>4, <1>7
    <2>8. /\ g.tab = t /\ g.node = n /\ g.pc = "reading" /\ g.open = conns[k].open
          /\ g.up = <<>> /\ (~ g.open => g.down = <<>>) /\ conns[k].pc = "reading"
        BY <2>3, <1>0, <1>2, <1>4
    <2>. QED
        BY <2>1, <2>7, <2>8, <1>0, <1>2, <1>4, RestAnswered
<1>. QED
    BY <1>6, <1>7

-----------------------------------------------------------------------------
(* A tab is sent a message *)

LEMMA FollowsTail ==
    ASSUME NEW D \in Document, NEW S, NEW msgs \in Seq(S), msgs # <<>>,
           NEW r \in Nat, NEW t, Follows(msgs, D, r, t)
    PROVE  /\ Head(msgs) = NextMessage(D, r + 1, t) /\ r < headRev(D)
           /\ Follows(Tail(msgs), D, r + 1, t)
           /\ (r + 1) + Len(Tail(msgs)) = r + Len(msgs)
<1>. DEFINE q == Tail(msgs)
<1>1. /\ Len(msgs) \in Nat /\ Len(msgs) > 0 /\ Len(q) = Len(msgs) - 1
      /\ Head(msgs) = msgs[1] /\ \A j \in 1..Len(q) : q[j] = msgs[j + 1]
    BY HeadOfSeq, HeadTailProperties
<1>2. headRev(D) \in Nat
    BY RevsFacts
<1>. HIDE DEF q
<1>3. 1 \in 1..Len(msgs) /\ r < headRev(D) /\ (r + 1) + Len(q) = r + Len(msgs)
      /\ (r + 1) + Len(q) <= headRev(D)
    BY <1>1, <1>2 DEF Follows
<1>4. ASSUME NEW j \in 1..Len(q) PROVE q[j] = NextMessage(D, (r + 1) + j, t)
    <2>1. j + 1 \in 1..Len(msgs) /\ r + (j + 1) = (r + 1) + j
        BY <1>1
    <2>2. msgs[j + 1] = NextMessage(D, r + (j + 1), t)
        BY <2>1 DEF Follows
    <2>. QED
        BY <2>1, <2>2, <1>1
<1>. QED
    BY <1>1, <1>3, <1>4 DEF Follows, q

\* What the tab makes of a message, and over what connection it edits then.
LEMMA ReceivedTab ==
    ASSUME Core, NEW t \in Tab, Incoming(t),
           Head(conns[current[t]].down).type # "REDIRECT"
    PROVE  LET k == current[t]
               s == tab[t]
               h == Handled(t, Head(conns[k].down))
           IN  /\ TextOK(h, Truth) /\ Own(h, t, Truth) /\ h.editing /\ h.joined
               /\ conns[k].node = leader /\ clients[leader][t] = k
               /\ \A c : (/\ c.up = conns[k].up
                          /\ c.down = Tail(conns[k].down))
                             => Edits(c, h, t, Truth, headRev(doc[leader]))
               /\ \A p : (p.cs \in Changeset /\ p.client = t /\ Carrier(p, s, Truth))
                             => Carrier(p, h, Truth)
               /\ (s.editing /\ h.waiting = s.waiting) => Shown(h)
<1>0. PICK k, s, m, D, hd : /\ k = current[t] /\ s = tab[t] /\ D = Truth
                            /\ m = Head(conns[k].down) /\ hd = headRev(doc[leader])
    OBVIOUS
<1>. DEFINE h == Handled(t, m)
            down == conns[k].down
<1>1. /\ k # 0 /\ k \in DOMAIN conns /\ down # <<>>
      /\ down \in Seq(DownMessage(Node)) /\ Len(down) \in Nat
      /\ m \in DownMessage(Node) /\ Tail(down) \in Seq(DownMessage(Node))
      /\ m.type # "REDIRECT"
    <2>1. k # 0 /\ k \in DOMAIN conns /\ down # <<>>
        BY <1>0, TabFacts DEF Incoming
    <2>. QED
        BY <1>0, <2>1, ConnOf, HeadOfSeq
<1>2. /\ s \in TabStates /\ t \in ClientIds /\ TextOK(s, D) /\ Own(s, t, D)
      /\ s.waiting => s.editing
      /\ s.editing => s.joined
      /\ s.rev \in Nat
    BY <1>0, TabFacts
<1>3. D \in Document /\ History(D) /\ Distinct(D) /\ hd \in Nat
      /\ headRev(D) \in Nat /\ hd <= headRev(D)
    BY <1>0, CoreFacts
<1>4. Linked(conns[k], k, s, t, D, hd, leader, clients[leader][t])
    BY <1>0, <1>1, TabFacts DEF LinkOf
<1>. HIDE DEF h, down
<1>5. CASE /\ ~ s.editing /\ conns[k].node = leader /\ clients[leader][t] = k
           /\ Welcomed(conns[k], s, t, D, hd)
    <2>1. PICK r \in s.rev..hd : /\ m = GreetingOf(D, s.rev, r)
                                 /\ Follows(Tail(down), D, r, t)
                                 /\ r + Len(Tail(down)) = hd
        BY <1>0, <1>5 DEF Welcomed, down
    <2>2. m.type = "CONNECT_ACK" /\ m.rev = r /\ m.text = TextAt(D, m.rev)
          /\ m.catchUp = SubSeq(D.revs, s.rev + 1, m.rev)
        BY <2>1 DEF GreetingOf
    <2>3. m \in Greeting
        BY <1>1, <2>2, MessageKinds
    <2>4. h = HandleConnectAck(s, m)
        BY <1>0, <2>2 DEF h, Handled
    <2>5. m.rev \in s.rev..headRev(D) /\ ~ s.waiting
        BY <2>1, <2>2, <1>2, <1>3, <1>5
    <2>6. /\ TextOK(h, D) /\ h.rev = m.rev
          /\ h.joined /\ h.editing /\ h.waiting = s.waiting /\ h.sub = s.sub
        BY <2>2, <2>3, <2>4, <2>5, <1>2, <1>3, HandleConnectAckText
    <2>7. Own(h, t, D)
        <3>1. ~ h.waiting /\ h.sub = s.sub /\ h.rev \in s.rev..headRev(D) /\ ~ s.waiting
            BY <2>5, <2>6
        <3>. QED
            BY <3>1, <1>2, <1>3, ConnectAckOwn
    <2>8. ASSUME NEW c, c.up = conns[k].up, c.down = Tail(down)
          PROVE  Edits(c, h, t, D, hd)
        <3>1. c.up = <<>>
            BY <2>8, <1>5 DEF Welcomed
        <3>. QED
            BY <3>1, <2>1, <2>2, <2>6, <2>8 DEF Edits
    <2>9. \A p : ~ Carrier(p, s, D)
        BY <2>5 DEF Carrier
    <2>. QED
        BY <2>6, <2>7, <2>8, <2>9, <1>0, <1>5 DEF h, down
<1>6. CASE /\ s.editing /\ conns[k].node = leader /\ clients[leader][t] = k
           /\ Edits(conns[k], s, t, D, hd)
    <2>1. /\ m = NextMessage(D, s.rev + 1, t) /\ s.rev < headRev(D)
          /\ Follows(Tail(down), D, s.rev + 1, t)
          /\ (s.rev + 1) + Len(Tail(down)) = hd
        <3>1. Follows(down, D, s.rev, t) /\ s.rev + Len(down) = hd
            BY <1>6 DEF Edits, down
        <3>2. m = Head(down)
            BY <1>0 DEF down
        <3>. QED
            BY <3>1, <3>2, <1>1, <1>2, <1>3, FollowsTail
    <2>2. ASSUME h.rev = s.rev + 1, NEW c, c.up = conns[k].up, c.down = Tail(down)
          PROVE  Edits(c, h, t, D, hd)
        BY <2>1, <2>2, <1>6 DEF Edits
    <2>3. CASE D.revs[s.rev + 1].source = t
        <3>1. m.type = "ACK" /\ m.rev = s.rev + 1
            BY <2>1, <2>3 DEF NextMessage
        <3>2. h = HandleAck(s, m)
            BY <1>0, <3>1 DEF h, Handled
        <3>3. /\ TextOK(h, D) /\ Own(h, t, D) /\ h.rev = s.rev + 1
              /\ h.joined /\ h.editing = s.editing
              /\ s.waiting /\ ~ h.waiting /\ D.last[t] = s.sub
            <4>1. /\ D \in Document /\ History(D) /\ Distinct(D) /\ s \in TabStates
                  /\ TextOK(s, D) /\ s.joined /\ t \in ClientIds /\ Own(s, t, D)
                  /\ s.rev < headRev(D) /\ D.revs[s.rev + 1].source = t
                  /\ m.rev = s.rev + 1
                BY <2>1, <2>3, <3>1, <1>2, <1>3, <1>6
            <4>. QED
                BY <4>1, <3>2, AckOwn
        <3>4. ASSUME NEW p, p.client = t PROVE ~ Carrier(p, s, D)
            <4>1. s.sub \in Nat
                BY <1>2 DEF TabStates
            <4>. QED
                BY <4>1, <3>3, <3>4 DEF Carrier
        <3>. QED
            BY <2>2, <3>3, <3>4, <1>0, <1>6 DEF h, down
    <2>4. CASE D.revs[s.rev + 1].source # t
        <3>1. m.type = "BROADCAST" /\ m.rev = s.rev + 1 /\ m.cs = D.revs[s.rev + 1].cs
            BY <2>1, <2>4 DEF NextMessage
        <3>2. h = HandleBroadcast(s, m)
            BY <1>0, <3>1 DEF h, Handled
        <3>3. /\ TextOK(h, D) /\ Own(h, t, D) /\ h.rev = s.rev + 1
              /\ h.joined /\ h.editing = s.editing /\ h.waiting = s.waiting
              /\ Shown(h)
              /\ \A p : (p.cs \in Changeset /\ Carrier(p, s, D)) => Carrier(p, h, D)
            BY <2>1, <2>4, <3>1, <3>2, <1>2, <1>3, <1>6, BroadcastOwn
        <3>. QED
            BY <2>2, <3>3, <1>0, <1>6 DEF h, down
    <2>. QED
        BY <2>3, <2>4
<1>7. ~ Waits(conns[k], s) /\ ~ Redirected(conns[k])
    BY <1>0, <1>1 DEF Waits, Redirected, down
<1>. QED
    BY <1>4, <1>5, <1>6, <1>7 DEF Linked

LEMMA RestReceived ==
    ASSUME Core, NEW t \in Tab, NEW k, k = current[t], k # 0,
           NEW h, tab' = [tab EXCEPT ![t] = h],
           NEW c, conns' = [conns EXCEPT ![k] = c],
           UNCHANGED <<raftVars, docVars, clients, current, scenario>>,
           c.tab = t, c.node = conns[k].node, c.pc = conns[k].pc,
           c.open = conns[k].open, c.up = conns[k].up,
           TextOK(h, Truth), Own(h, t, Truth), h.editing, h.joined,
           conns[k].node = leader, clients[leader][t] = k,
           Edits(c, h, t, Truth, headRev(doc[leader])),
           \A p : (p.cs \in Changeset /\ p.client = t /\ Carrier(p, tab[t], Truth))
                      => Carrier(p, h, Truth)
    PROVE  Rest'
<1>1. /\ k \in DOMAIN conns /\ conns[k].tab = t /\ Pumped(conns[k], k, k)
      /\ conns \in Seq(Connection(Node))
    BY TabFacts, ConnOf DEF LinkOf, Core, TypeOK
<1>2. /\ current' = current /\ doc' = doc /\ results' = results
      /\ clients' = clients /\ log' = log /\ leader' = leader /\ Node' = Node
      /\ proposals' = proposals /\ scenario' = scenario
    BY DEF raftVars, docVars, Node
<1>3. Pumped(c, k, current[t])
    BY <1>1 DEF Pumped
<1>4. CarrierInv /\ RegisteredInv
    BY DEF Core, Rest
<1>5. /\ DOMAIN conns' = DOMAIN conns /\ conns'[k] = c
      /\ \A l \in DOMAIN conns : l # k => conns'[l] = conns[l]
      /\ ConnsInv' /\ AloneInv' /\ NoResults'
    BY <1>1, <1>2, <1>3, ConnStep
<1>6. \A l \in DOMAIN conns : /\ conns'[l].tab = conns[l].tab
                              /\ conns'[l].node = conns[l].node
                              /\ conns'[l].up = conns[l].up
    BY <1>1, <1>5
<1>7. /\ TabInv' /\ tab'[t] = h /\ Truth' = Truth
      /\ \A u \in Tab \ {t} : tab'[u] = tab[u]
    BY <1>2, TabStepFrame
<1>8. CarrierInv'
    <2>1. \A u \in Tab : \A m \in SubmitMessage : Sent(u, m)' => Sent(u, m)
        BY <1>5, <1>6 DEF Sent
    <2>. QED
        BY <2>1, <1>2, <1>7, CarrierStep
<1>9. RegisteredInv'
    <2>1. \A l \in DOMAIN conns : Greets(conns'[l]) => Greets(conns[l])
        BY <1>6 DEF Greets
    <2>. QED
        BY <2>1, <1>2, <1>4, <1>5, <1>6, RegisteredFrame
<1>10. LinkInv'
    <2>1. Linked(c, k, tab'[t], t, Truth, headRev(doc[leader]), leader,
                 clients'[leader][t])
        BY <1>2, <1>7 DEF Linked
    <2>2. /\ t = conns[k].tab /\ c.tab = conns[k].tab /\ current[t] = k
          /\ UNCHANGED <<log, leader, doc, current>>
          /\ \A u \in Tab \ {t} : /\ tab'[u] = tab[u]
                                  /\ clients'[leader][u] = clients[leader][u]
        BY <1>1, <1>2, <1>7
    <2>. HIDE DEF Core
    <2>. QED
        BY <2>1, <2>2, <1>1, LinkStep
<1>. QED
    BY <1>5, <1>7, <1>8, <1>9, <1>10 DEF Rest

LEMMA RestReceive ==
    ASSUME Core, NEW t \in Tab, Receive(t)
    PROVE  Rest'
<1>0. PICK k, m : k = current[t] /\ m = Head(conns[k].down)
    OBVIOUS
<1>1. /\ Incoming(t) /\ k # 0
      /\ UNCHANGED <<raftVars, docVars, clients, scenario>>
    BY <1>0 DEF Receive, Incoming, bounds
<1>2. /\ k \in DOMAIN conns /\ conns[k].tab = t
      /\ conns \in Seq(Connection(Node)) /\ conns[k] \in Connection(Node)
    BY <1>0, <1>1, TabFacts, ConnOf DEF LinkOf, Core, TypeOK
<1>3. CASE m.type = "REDIRECT"
    <2>1. \E a : Hangup(t, a)
        BY <1>0, <1>3, Zenon DEF Receive
    <2>2. ~ tab[t].waiting
        <3>1. SUFFICES ASSUME tab[t].waiting PROVE FALSE
            OBVIOUS
        <3>2. tab[t].editing /\ tab[t].rev \in Nat
            BY <3>1, TabFacts
        <3>3. Edits(conns[k], tab[t], t, Truth, headRev(doc[leader]))
            BY <3>2, <1>0, EditorFacts
        <3>4. Follows(conns[k].down, Truth, tab[t].rev, t)
            BY <3>3 DEF Edits
        <3>5. conns[k].down # <<>> /\ conns[k].down \in Seq(DownMessage(Node))
            BY <1>0, <1>1, <1>2, ConnOf DEF Incoming
        <3>6. m = NextMessage(Truth, tab[t].rev + 1, t)
            BY <3>2, <3>4, <3>5, <1>0, CoreFacts, FollowsTail
        <3>. QED
            BY <3>6, <1>3 DEF NextMessage
    <2>. QED
        BY <2>1, <2>2, <1>0, <1>1, RestHangup
<1>4. CASE m.type # "REDIRECT"
    <2>. DEFINE h == Handled(t, m)
                c == [conns[k] EXCEPT !.down = Tail(@)]
    <2>1. /\ tab' = [tab EXCEPT ![t] = h] /\ current' = current
          /\ conns' = [conns EXCEPT ![k].down = Tail(@)]
        BY <1>0, <1>4 DEF Receive
    <2>2. conns' = [conns EXCEPT ![k] = c]
        BY <2>1, <1>2
    <2>3. /\ c.tab = t /\ c.node = conns[k].node /\ c.pc = conns[k].pc
          /\ c.open = conns[k].open /\ c.up = conns[k].up
          /\ c.down = Tail(conns[k].down)
        BY <1>2 DEF Connection
    <2>4. /\ TextOK(h, Truth) /\ Own(h, t, Truth) /\ h.editing /\ h.joined
          /\ conns[k].node = leader /\ clients[leader][t] = k
          /\ \A x : (x.up = conns[k].up /\ x.down = Tail(conns[k].down))
                        => Edits(x, h, t, Truth, headRev(doc[leader]))
          /\ \A p : (p.cs \in Changeset /\ p.client = t /\ Carrier(p, tab[t], Truth))
                        => Carrier(p, h, Truth)
        BY <1>0, <1>1, <1>4, ReceivedTab
    <2>. HIDE DEF h, c
    <2>5. Edits(c, h, t, Truth, headRev(doc[leader]))
        BY <2>3, <2>4
    <2>6. /\ TextOK(h, Truth) /\ Own(h, t, Truth) /\ h.editing /\ h.joined
          /\ conns[k].node = leader /\ clients[leader][t] = k
        BY <2>4
    <2>7. \A p : (p.cs \in Changeset /\ p.client = t /\ Carrier(p, tab[t], Truth))
                     => Carrier(p, h, Truth)
        BY <2>4
    <2>8. tab' = [tab EXCEPT ![t] = h]
          /\ UNCHANGED <<raftVars, docVars, clients, current, scenario>>
        BY <2>1, <1>1
    <2>9. /\ c.tab = t /\ c.node = conns[k].node /\ c.pc = conns[k].pc
          /\ c.open = conns[k].open /\ c.up = conns[k].up
        BY <2>3
    <2>. HIDE DEF Core
    <2>. QED
        BY <2>2, <2>5, <2>6, <2>7, <2>8, <2>9, <1>0, <1>1, RestReceived
<1>. QED
    BY <1>3, <1>4

-----------------------------------------------------------------------------
(* A server applies the next entry *)

LEMMA QueueConn ==
    ASSUME NEW N, NEW c \in Connection(N), NEW m
    PROVE  LET g == Queue(c, m)
           IN  /\ g.tab = c.tab /\ g.node = c.node /\ g.pc = c.pc
               /\ g.open = c.open /\ g.up = c.up
               /\ ~ c.open => g = c
               /\ (c.open /\ Len(c.down) < QueueCap) => g.down = Append(c.down, m)
               /\ g.down \in {c.down, Append(c.down, m)}
BY DEF Queue, Connection

LEMMA FollowsAppend ==
    ASSUME NEW D \in Document, NEW S, NEW msgs \in Seq(S), NEW r \in Nat, NEW t,
           Follows(msgs, D, r, t), NEW h, r + Len(msgs) = h, h + 1 <= headRev(D),
           NEW m, m = NextMessage(D, h + 1, t)
    PROVE  Follows(Append(msgs, m), D, r, t) /\ r + Len(Append(msgs, m)) = h + 1
<1>. DEFINE q == Append(msgs, m)
<1>1. Len(msgs) \in Nat /\ headRev(D) \in Nat
    BY RevsFacts, LenProperties
<1>2. /\ Len(q) = Len(msgs) + 1 /\ q[Len(msgs) + 1] = m
      /\ \A j \in 1..Len(msgs) : q[j] = msgs[j]
    BY <1>1
<1>. HIDE DEF q
<1>3. r + Len(q) = h + 1 /\ r + Len(q) <= headRev(D)
    BY <1>1, <1>2
<1>4. ASSUME NEW j \in 1..Len(q) PROVE q[j] = NextMessage(D, r + j, t)
    <2>1. CASE j = Len(msgs) + 1
        <3>1. r + j = h + 1
            BY <2>1, <1>1
        <3>. QED
            BY <2>1, <3>1, <1>2
    <2>2. CASE j # Len(msgs) + 1
        <3>1. j \in 1..Len(msgs)
            BY <2>2, <1>1, <1>2
        <3>. QED
            BY <3>1, <1>2 DEF Follows
    <2>. QED
        BY <2>1, <2>2
<1>. QED
    BY <1>3, <1>4 DEF Follows, q

\* The entry is a revision of the document, or an initial text proposed twice.
LEMMA NextEntry ==
    ASSUME Core, NEW n \in Node, applied[n] < Len(log)
    PROVE  LET e == log[applied[n] + 1]
               d == doc[n]
               u == AfterEntry(d, e)
               r == headRev(d) + 1
           IN  /\ e \in Entry /\ u \in Document
               /\ \/ IsDuplicate(d, e) /\ e.client = System /\ u = d
                  \/ /\ ~ IsDuplicate(d, e) /\ u # d
                     /\ headRev(u) = r /\ r <= headRev(Truth)
                     /\ Truth.revs[r].source = e.client
                     /\ Truth.revs[r].cs = Last(u.revs).cs
<1>0. PICK a, e, d, u : /\ a = applied[n] /\ e = log[a + 1] /\ d = doc[n]
                        /\ u = AfterEntry(d, e)
    OBVIOUS
<1>1. /\ log \in Seq(Entry) /\ Len(log) \in Nat /\ a \in 0..Len(log)
      /\ a + 1 \in 1..Len(log) /\ a + 1 \in 0..Len(log) /\ (a + 1) - 1 = a
      /\ d = DocumentAfter(log, a) /\ d \in Document
      /\ Truth \in Document /\ headRev(Truth) \in Nat
    BY <1>0, CoreFacts
<1>2. e \in Entry
    BY <1>0, <1>1
<1>3. u \in Document
    BY <1>0, <1>1, <1>2, AfterEntryCases
<1>4. Unapplied(log, a + 1)
    BY <1>1 DEF Core, LogInv, LogOK
<1>5. IF IsDuplicate(d, e) THEN e.client = System ELSE u # d
    BY <1>0, <1>1, <1>4 DEF Unapplied
<1>6. CASE IsDuplicate(d, e)
    <2>1. u = d
        BY <1>0, <1>1, <1>2, <1>6, AfterEntryCases
    <2>. QED
        BY <2>1, <1>0, <1>2, <1>3, <1>5, <1>6
<1>7. CASE ~ IsDuplicate(d, e)
    <2>1. Appended(d, e, u)
        BY <1>0, <1>1, <1>2, <1>5, <1>7, AfterEntryCases
    <2>2. /\ headRev(u) = headRev(d) + 1
          /\ u.revs[headRev(d) + 1] = [cs |-> Rebase(d, e), source |-> e.client,
                                       sub |-> e.sub]
        BY <2>1, <1>1, <1>2, <1>3, AppendedFacts
    <2>3. u = DocumentAfter(log, a + 1)
        <3>1. a + 1 > 0
            BY <1>1
        <3>. QED
            BY <3>1, <1>0, <1>1, DocumentAfterStep
    <2>4. Grown(u, Truth)
        <3>1. Len(log) \in (a + 1)..Len(log)
            BY <1>1
        <3>. QED
            BY <3>1, <2>3, <1>1, DocumentGrows DEF Truth
    <2>. DEFINE r == headRev(d) + 1
    <2>5. headRev(d) \in Nat /\ headRev(u) = Len(u.revs) /\ u.revs \in Seq(Revision)
        BY <1>1, <1>3, RevsFacts
    <2>6. r \in 1..Len(u.revs) /\ r = Len(u.revs)
        BY <2>2, <2>5
    <2>7. Truth.revs[r] = u.revs[r] /\ r <= headRev(Truth)
        BY <2>4, <2>6 DEF Grown, headRev
    <2>8. Last(u.revs) = u.revs[r]
        BY <2>6 DEF Last
    <2>. QED
        BY <2>2, <2>7, <2>8, <1>0, <1>2, <1>3, <1>5, <1>7
<1>. QED
    BY <1>6, <1>7

\* A connection is in the registry of a server at most under its own client.
LEMMA RegisteredAs ==
    ASSUME Core, NEW n \in Node, NEW i \in ClientIds, NEW k \in DOMAIN conns,
           clients[n][i] = k
    PROVE  conns[k].tab = i /\ conns[k].node = n /\ ~ Greets(conns[k]) /\ i \in Tab
<1>1. k # 0 /\ conns[k].tab \in Tab
    BY ConnOf
<1>2. clients[n][i] # 0
    BY <1>1
<1>3. /\ conns[clients[n][i]].tab = i /\ conns[clients[n][i]].node = n
      /\ ~ Greets(conns[clients[n][i]])
    BY <1>2, Zenon DEF Core, Rest, RegisteredInv
<1>. QED
    BY <1>1, <1>3

LEMMA ApplyConns ==
    ASSUME Core, NEW n \in Node, ApplyAtOnce(n)
    PROVE  LET r == headRev(doc[n]) + 1
           IN  \/ conns' = conns /\ headRev(doc'[n]) = headRev(doc[n])
               \/ /\ headRev(doc'[n]) = r /\ r <= headRev(Truth)
                  /\ DOMAIN conns' = DOMAIN conns
                  /\ \A k \in DOMAIN conns :
                         conns'[k] =
                             IF clients[n][conns[k].tab] = k
                             THEN Queue(conns[k], NextMessage(Truth, r, conns[k].tab))
                             ELSE conns[k]
<1>0. PICK e, d, u, r, rs : /\ e = log[applied[n] + 1] /\ d = doc[n]
                            /\ u = AfterEntry(d, e) /\ r = headRev(d) + 1
                            /\ rs = Results(d, e, u)
    OBVIOUS
<1>1. /\ applied[n] < Len(log) /\ doc'[n] = u
      /\ conns' = IF rs = <<>> THEN conns ELSE Delivered(conns, n, rs[1])
    <2>1. doc \in [Node -> Document] /\ Race = {}
        BY DEF Core, TypeOK, DocTypes
    <2>. QED
        BY <2>1, <1>0 DEF ApplyAtOnce, ApplyEntry, News
<1>2. conns \in Seq(Connection(Node)) /\ clients \in [Node -> [ClientIds -> Nat]]
    BY DEF Core, TypeOK, DocTypes
<1>3. /\ e \in Entry /\ u \in Document /\ e.client \in ClientIds
      /\ \/ IsDuplicate(d, e) /\ e.client = System /\ u = d
         \/ /\ ~ IsDuplicate(d, e) /\ u # d
            /\ headRev(u) = r /\ r <= headRev(Truth)
            /\ Truth.revs[r].source = e.client
            /\ Truth.revs[r].cs = Last(u.revs).cs
    BY <1>0, <1>1, NextEntry DEF Entry
<1>4. CASE IsDuplicate(d, e) /\ e.client = System /\ u = d
    <2>. DEFINE x == [client |-> e.client, rev |-> headRev(d), dup |-> TRUE,
                      cs |-> Identity(0)]
    <2>1. rs = <<x>> /\ x.client = System /\ x.dup
        BY <1>0, <1>4 DEF Results
    <2>2. conns' = Delivered(conns, n, x)
        BY <2>1, <1>1
    <2>. HIDE DEF x
    <2>3. ASSUME NEW k \in DOMAIN conns PROVE clients[n][System] # k
        BY RegisteredAs, IdAssumption
    <2>4. Delivered(conns, n, x) = [k \in DOMAIN conns |-> conns[k]]
        BY <2>1, <2>3 DEF Delivered
    <2>. QED
        BY <2>2, <2>4, <1>0, <1>1, <1>2, <1>4
<1>5. CASE /\ ~ IsDuplicate(d, e) /\ u # d
           /\ headRev(u) = r /\ r <= headRev(Truth)
           /\ Truth.revs[r].source = e.client
           /\ Truth.revs[r].cs = Last(u.revs).cs
    <2>. DEFINE x == [client |-> e.client, rev |-> r, dup |-> FALSE,
                      cs |-> Truth.revs[r].cs]
    <2>1. rs = <<x>> /\ x.client = e.client /\ ~ x.dup /\ x.rev = r
          /\ x.cs = Truth.revs[r].cs
        BY <1>0, <1>5 DEF Results
    <2>2. conns' = Delivered(conns, n, x)
        BY <2>1, <1>1
    <2>. HIDE DEF x
    <2>3. DOMAIN conns' = DOMAIN conns
        BY <2>2 DEF Delivered
    <2>4. ASSUME NEW k \in DOMAIN conns
          PROVE  conns'[k] = IF clients[n][conns[k].tab] = k
                             THEN Queue(conns[k], NextMessage(Truth, r, conns[k].tab))
                             ELSE conns[k]
        <3>. DEFINE ack == Queue(conns[k], [type |-> "ACK", rev |-> r])
                    cast == Queue(conns[k], [type |-> "BROADCAST", rev |-> r,
                                             cs |-> Truth.revs[r].cs])
        <3>0. PICK i : i = conns[k].tab
            OBVIOUS
        <3>1. i \in ClientIds
            BY <3>0, ConnOf, IdAssumption
        <3>2. conns'[k] = CASE clients[n][e.client] = k -> ack
                            [] /\ ~ x.dup
                               /\ \E j \in ClientIds \ {e.client} : clients[n][j] = k
                                   -> cast
                            [] OTHER -> conns[k]
            BY <2>1, <2>2 DEF Delivered
        <3>3. \A j \in ClientIds : clients[n][j] = k => j = i
            BY <3>0, RegisteredAs
        <3>. HIDE DEF ack, cast
        <3>4. CASE clients[n][i] = k /\ i = e.client
            <4>0. ~ \E j \in ClientIds \ {e.client} : clients[n][j] = k
                BY <3>3, <3>4
            <4>1. conns'[k] = ack
                BY <3>2, <3>4, <4>0
            <4>2. NextMessage(Truth, r, i) = [type |-> "ACK", rev |-> r]
                BY <3>4, <1>5 DEF NextMessage
            <4>. QED
                BY <4>1, <4>2, <3>0, <3>4 DEF ack
        <3>5. CASE clients[n][i] = k /\ i # e.client
            <4>1. clients[n][e.client] # k
                BY <3>3, <3>5, <1>3
            <4>2. i \in ClientIds \ {e.client}
                BY <3>1, <3>5
            <4>3. conns'[k] = cast
                BY <3>2, <3>5, <4>1, <4>2, <2>1
            <4>4. NextMessage(Truth, r, i) = [type |-> "BROADCAST", rev |-> r,
                                              cs |-> Truth.revs[r].cs]
                BY <3>5, <1>5 DEF NextMessage
            <4>. QED
                BY <4>3, <4>4, <3>0, <3>5 DEF cast
        <3>6. CASE clients[n][i] # k
            <4>1. \A j \in ClientIds : clients[n][j] # k
                BY <3>3, <3>6
            <4>2. conns'[k] = conns[k]
                BY <3>2, <4>1, <1>3
            <4>. QED
                BY <4>2, <3>0, <3>6
        <3>. QED
            BY <3>4, <3>5, <3>6
    <2>. QED
        BY <2>3, <2>4, <1>0, <1>1, <1>5
<1>. QED
    BY <1>3, <1>4, <1>5

RedirectedKept(c, g) ==
    /\ g.down # <<>> /\ Head(g.down) = Head(c.down)
    /\ \A j \in DOMAIN g.down : g.down[j].type # "CONNECT_ACK"

LEMMA RedirectStays ==
    ASSUME NEW c, NEW S, c.down \in Seq(S), c.down # <<>>, NEW g, NEW m,
           g.down = Append(c.down, m), m.type # "CONNECT_ACK",
           \A j \in DOMAIN c.down : c.down[j].type # "CONNECT_ACK"
    PROVE  RedirectedKept(c, g)
<1>. DEFINE q == c.down
            a == Append(q, m)
<1>1. q \in Seq(S \cup {m}) /\ q # <<>> /\ m \in S \cup {m}
    OBVIOUS
<1>. HIDE DEF q
<1>2. /\ a \in Seq(S \cup {m}) /\ a # <<>> /\ Len(a) = Len(q) + 1 /\ Len(q) \in Nat
      /\ a[Len(q) + 1] = m /\ \A j \in 1..Len(q) : a[j] = q[j]
    BY <1>1, AppendProperties, LenProperties
<1>. HIDE DEF a
<1>3. Head(a) = a[1] /\ Head(q) = q[1] /\ Len(q) > 0
    BY <1>1, <1>2, HeadOfSeq
<1>4. Head(a) = Head(q)
    BY <1>2, <1>3
<1>5. DOMAIN a = 1..(Len(q) + 1) /\ DOMAIN q = 1..Len(q)
    BY <1>1, <1>2, LenProperties
<1>6. \A j \in DOMAIN q : q[j].type # "CONNECT_ACK"
    BY DEF q
<1>7. ASSUME NEW j \in DOMAIN a PROVE a[j].type # "CONNECT_ACK"
    BY <1>2, <1>5, <1>6
<1>. QED
    BY <1>2, <1>4, <1>7 DEF RedirectedKept, q, a

\* A revision that is sent to a tab is the next one for it.
LEMMA LinkedNext ==
    ASSUME NEW D \in Document, NEW h \in Nat, h + 1 <= headRev(D), NEW c, NEW S,
           c.down \in Seq(S), NEW g, NEW k, NEW s, s.rev \in Nat, NEW t, NEW l,
           Linked(c, k, s, t, D, h, l, k), ~ Greets(c), c.node = l,
           g.up = c.up, g.node = c.node,
           g.down = Append(c.down, NextMessage(D, h + 1, t))
    PROVE  Linked(g, k, s, t, D, h + 1, l, k)
<1>0. PICK m : m = NextMessage(D, h + 1, t)
    OBVIOUS
<1>1. /\ g.down = Append(c.down, m)
      /\ c.down # <<>> => /\ g.down # <<>> /\ Head(g.down) = Head(c.down)
                          /\ Tail(g.down) = Append(Tail(c.down), m)
                          /\ Tail(c.down) \in Seq(S)
    <2>1. g.down = Append(c.down, m)
        BY <1>0
    <2>2. ASSUME NEW q \in Seq(S), q # <<>>
          PROVE  /\ Append(q, m) # <<>> /\ Head(Append(q, m)) = Head(q)
                 /\ Tail(Append(q, m)) = Append(Tail(q), m) /\ Tail(q) \in Seq(S)
        <3>. DEFINE T == S \cup {m}
        <3>1. q \in Seq(T) /\ m \in T
            BY <2>2
        <3>. HIDE DEF T
        <3>2. Append(q, m) \in Seq(T) /\ Append(q, m) # <<>>
            BY <3>1, AppendProperties
        <3>3. Len(q) \in Nat /\ Len(q) > 0 /\ Tail(q) \in Seq(T)
              /\ Len(Tail(q)) = Len(q) - 1 /\ Tail(q) \in Seq(S)
              /\ \A i \in 1..Len(Tail(q)) : Tail(q)[i] = q[i + 1]
              /\ Head(q) = q[1]
            BY <2>2, <3>1, HeadOfSeq, HeadTailProperties
        <3>. DEFINE x == Tail(Append(q, m))
                    y == Append(Tail(q), m)
        <3>4. /\ Len(Append(q, m)) = Len(q) + 1 /\ Append(q, m)[Len(q) + 1] = m
              /\ \A i \in 1..Len(q) : Append(q, m)[i] = q[i]
            BY <2>2
        <3>5. /\ x \in Seq(T) /\ Len(x) = Len(q)
              /\ \A i \in 1..Len(q) : x[i] = Append(q, m)[i + 1]
              /\ Head(Append(q, m)) = Append(q, m)[1]
            <4>. DEFINE a == Append(q, m)
            <4>1. a \in Seq(T) /\ a # <<>> /\ Len(a) = Len(q) + 1 /\ Len(q) \in Nat
                BY <3>2, <3>3, <3>4
            <4>. HIDE DEF a
            <4>2. /\ Tail(a) \in Seq(T) /\ Len(Tail(a)) = Len(a) - 1
                  /\ Head(a) = a[1]
                  /\ \A i \in 1..Len(Tail(a)) : Tail(a)[i] = a[i + 1]
                BY <4>1, HeadOfSeq, HeadTailProperties
            <4>3. Len(Tail(a)) = Len(q)
                BY <4>1, <4>2
            <4>. QED
                BY <4>2, <4>3 DEF a
        <3>6. /\ y \in Seq(T) /\ Len(y) = Len(q) /\ y[Len(q)] = m
              /\ \A i \in 1..(Len(q) - 1) : y[i] = Tail(q)[i]
            BY <3>1, <3>3, AppendProperties
        <3>. HIDE DEF x, y
        <3>7. ASSUME NEW i \in 1..Len(q) PROVE x[i] = y[i]
            <4>1. CASE i = Len(q)
                BY <4>1, <3>4, <3>5, <3>6
            <4>2. CASE i # Len(q)
                <5>0. ASSUME NEW z \in Nat, NEW b \in 1..z, b # z
                      PROVE  b \in 1..(z - 1) /\ b + 1 \in 1..z
                    BY <5>0
                <5>1. i \in 1..(Len(q) - 1) /\ i + 1 \in 1..Len(q)
                    BY <5>0, <4>2, <3>3
                <5>. QED
                    BY <5>1, <3>3, <3>4, <3>5, <3>6
            <4>. QED
                BY <4>1, <4>2
        <3>8. x = y
            BY <3>5, <3>6, <3>7, SeqEqual
        <3>9. Head(Append(q, m)) = Head(q)
            BY <3>3, <3>4, <3>5
        <3>. QED
            BY <3>2, <3>3, <3>8, <3>9 DEF x, y
    <2>. QED
        BY <2>1, <2>2
<1>2. ~ Waits(c, s)
    BY DEF Waits, Greets
<1>3. CASE ~ s.editing /\ Redirected(c)
    <2>0. m.type # "CONNECT_ACK"
        BY <1>0 DEF NextMessage
    <2>1. Redirected(g)
        <3>1. RedirectedKept(c, g)
            BY <2>0, <1>1, <1>3, RedirectStays DEF Redirected
        <3>. QED
            BY <3>1, <1>3 DEF Redirected, RedirectedKept
    <2>. QED
        BY <2>1, <1>3 DEF Linked
<1>4. CASE ~ s.editing /\ c.node = l /\ Welcomed(c, s, t, D, h)
    <2>1. PICK r \in s.rev..h : /\ Head(c.down) = GreetingOf(D, s.rev, r)
                                /\ Follows(Tail(c.down), D, r, t)
                                /\ r + Len(Tail(c.down)) = h
        BY <1>4 DEF Welcomed
    <2>2. c.up = <<>> /\ c.down # <<>> /\ r \in Nat /\ r \in s.rev..(h + 1)
        BY <1>4 DEF Welcomed
    <2>3. /\ Follows(Append(Tail(c.down), m), D, r, t)
          /\ r + Len(Append(Tail(c.down), m)) = h + 1
        <3>. DEFINE q == Tail(c.down)
        <3>1. q \in Seq(S) /\ r \in Nat /\ Follows(q, D, r, t) /\ r + Len(q) = h
            BY <2>1, <2>2, <1>1
        <3>. HIDE DEF q
        <3>2. Follows(Append(q, m), D, r, t) /\ r + Len(Append(q, m)) = h + 1
            BY <3>1, <1>0, FollowsAppend
        <3>. QED
            BY <3>2 DEF q
    <2>4. Welcomed(g, s, t, D, h + 1)
        BY <2>1, <2>2, <2>3, <1>1 DEF Welcomed
    <2>. QED
        BY <2>4, <1>4 DEF Linked
<1>5. CASE s.editing /\ c.node = l /\ Edits(c, s, t, D, h)
    <2>1. /\ Follows(Append(c.down, m), D, s.rev, t)
          /\ s.rev + Len(Append(c.down, m)) = h + 1
        <3>. DEFINE q == c.down
                    r == s.rev
        <3>1. q \in Seq(S) /\ r \in Nat /\ Follows(q, D, r, t) /\ r + Len(q) = h
            BY <1>5 DEF Edits
        <3>. HIDE DEF q, r
        <3>2. Follows(Append(q, m), D, r, t) /\ r + Len(Append(q, m)) = h + 1
            BY <3>1, <1>0, FollowsAppend
        <3>. QED
            BY <3>2 DEF q, r
    <2>2. Edits(g, s, t, D, h + 1)
        BY <2>1, <1>1, <1>5 DEF Edits
    <2>. QED
        BY <2>2, <1>5 DEF Linked
<1>. QED
    BY <1>2, <1>3, <1>4, <1>5 DEF Linked

\* Over a connection that is not in the registry of the leader only a CONNECT
\* or a redirect is on its way.
LEMMA LinkedApart ==
    ASSUME NEW D, NEW h, NEW c, NEW k, NEW s, NEW t, NEW l, NEW reg, NEW i,
           Linked(c, k, s, t, D, h, l, reg), c.node # l \/ reg # k
    PROVE  Linked(c, k, s, t, D, i, l, reg)
BY DEF Linked

LEMMA LinkedBehind ==
    ASSUME NEW D, NEW h, NEW c, NEW g, NEW k, NEW s, NEW t, NEW l, NEW reg,
           Linked(c, k, s, t, D, h, l, reg), c.node # l, ~ Greets(c),
           g.up = c.up, g.node = c.node,
           NEW S, NEW m, c.down \in Seq(S), g.down = Append(c.down, m),
           m.type # "CONNECT_ACK"
    PROVE  Linked(g, k, s, t, D, h, l, reg)
<1>1. ~ s.editing /\ (Waits(c, s) \/ Redirected(c))
    BY DEF Linked
<1>2. ~ Waits(c, s)
    BY DEF Waits, Greets
<1>3. RedirectedKept(c, g)
    BY <1>1, <1>2, RedirectStays DEF Redirected
<1>4. Redirected(g)
    BY <1>1, <1>2, <1>3 DEF Redirected, RedirectedKept
<1>. QED
    BY <1>1, <1>4 DEF Linked

LEMMA LinkedApplied ==
    ASSUME Core, NEW n \in Node, NEW h, h = headRev(doc[n]),
           h + 1 <= headRev(Truth), NEW t \in Tab, NEW k, k = current[t],
           k \in DOMAIN conns, conns[k].tab = t, NEW g,
           Len(conns[k].down) < QueueCap,
           g = IF clients[n][t] = k
               THEN Queue(conns[k], NextMessage(Truth, h + 1, t)) ELSE conns[k],
           Linked(conns[k], k, tab[t], t, Truth, headRev(doc[leader]), leader,
                  clients[leader][t])
    PROVE  Linked(g, k, tab[t], t, Truth,
                  IF n = leader THEN h + 1 ELSE headRev(doc[leader]), leader,
                  clients[leader][t])
<1>0. PICK c, s, m, D : /\ c = conns[k] /\ s = tab[t] /\ D = Truth
                        /\ m = NextMessage(Truth, h + 1, t)
    OBVIOUS
<1>1. /\ c \in Connection(Node) /\ c.down \in Seq(DownMessage(Node)) /\ c.open
      /\ t \in ClientIds /\ s.rev \in Nat /\ D \in Document /\ h \in Nat
      /\ Len(c.down) \in Nat
    <2>1. k # 0
        BY ConnOf
    <2>2. c.open
        BY <1>0, ConnOf DEF Pumped
    <2>. QED
        BY <2>2, <1>0, ConnOf, TabFacts, CoreFacts
<1>2. CASE clients[n][t] = k
    <2>1. c.node = n /\ ~ Greets(c)
        BY <1>0, <1>1, <1>2, RegisteredAs
    <2>2. g = Queue(c, m)
        BY <1>0, <1>2
    <2>3. /\ g.node = c.node /\ g.up = c.up /\ g.down = Append(c.down, m)
        BY <1>0, <1>1, <2>2, QueueConn
    <2>4. CASE n = leader
        <3>1. clients[leader][t] = k /\ c.node = leader
            BY <2>1, <2>4, <1>2
        <3>2. Linked(c, k, s, t, D, h, leader, k)
            BY <3>1, <2>4, <1>0
        <3>3. Linked(g, k, s, t, D, h + 1, leader, k)
            <4>1. /\ h + 1 <= headRev(D) /\ g.down = Append(c.down, NextMessage(D, h + 1, t))
                  /\ g.node = c.node /\ g.up = c.up /\ c.node = leader /\ ~ Greets(c)
                BY <3>1, <2>1, <2>3, <1>0
            <4>2. D \in Document /\ h \in Nat /\ s.rev \in Nat
                  /\ c.down \in Seq(DownMessage(Node))
                BY <1>1
            <4>. QED
                BY <3>2, <4>1, <4>2, LinkedNext
        <3>. QED
            BY <3>1, <3>3, <2>4, <1>0
    <2>5. CASE n # leader
        <3>1. m.type # "CONNECT_ACK"
            BY <1>0 DEF NextMessage
        <3>2. Linked(c, k, s, t, D, headRev(doc[leader]), leader, clients[leader][t])
            BY <1>0
        <3>3. c.node # leader
            BY <2>1, <2>5
        <3>4. Linked(g, k, s, t, D, headRev(doc[leader]), leader, clients[leader][t])
            <4>1. /\ c.down \in Seq(DownMessage(Node)) /\ g.down = Append(c.down, m)
                  /\ g.up = c.up /\ g.node = c.node /\ ~ Greets(c)
                BY <2>1, <2>3, <1>1
            <4>. QED
                BY <4>1, <3>1, <3>2, <3>3, LinkedBehind
        <3>. QED
            BY <3>4, <2>5, <1>0
    <2>. QED
        BY <2>4, <2>5
<1>3. CASE clients[n][t] # k
    <2>1. g = c
        BY <1>0, <1>3
    <2>2. CASE n = leader
        <3>1. clients[leader][t] # k
            BY <2>2, <1>3
        <3>2. Linked(c, k, s, t, D, headRev(doc[leader]), leader, clients[leader][t])
            BY <1>0
        <3>3. Linked(g, k, s, t, D, h + 1, leader, clients[leader][t])
            BY <3>1, <3>2, <2>1, LinkedApart
        <3>. QED
            BY <3>3, <2>2, <1>0
    <2>3. CASE n # leader
        BY <2>1, <2>3, <1>0
    <2>. QED
        BY <2>2, <2>3
<1>. QED
    BY <1>2, <1>3

LEMMA RestApplyNext ==
    ASSUME Core, Room, NEW n \in Node, ApplyAtOnce(n)
    PROVE  Rest'
<1>1. /\ doc \in [Node -> Document] /\ Race = {} /\ conns \in Seq(Connection(Node))
      /\ leader \in Node /\ clients \in [Node -> [ClientIds -> Nat]]
    BY CoreFacts DEF Core, TypeOK, DocTypes
<1>2. /\ tab' = tab /\ current' = current /\ clients' = clients /\ log' = log
      /\ leader' = leader /\ Node' = Node /\ results' = results
      /\ proposals' = proposals /\ scenario' = scenario /\ Truth' = Truth
    BY <1>1, TruthSame DEF ApplyAtOnce, ApplyEntry, raftVars, tabVars, bounds, Node
<1>3. doc' \in [Node -> Document] /\ \A o \in Node \ {n} : doc'[o] = doc[o]
    <2>1. TypeOK'
        BY TypeApplyNext DEF Core
    <2>. QED
        BY <2>1, <1>1, <1>2 DEF TypeOK, DocTypes, ApplyAtOnce, ApplyEntry
<1>4. /\ TabInv /\ CarrierInv /\ LinkInv /\ RegisteredInv /\ ConnsInv /\ AloneInv
      /\ NoResults
    BY DEF Core, Rest
<1>5. PICK h : h = headRev(doc[n]) /\ h \in Nat
    BY CoreFacts
<1>6. CASE conns' = conns /\ headRev(doc'[n]) = headRev(doc[n])
    <2>1. headRev(doc'[leader]) = headRev(doc[leader])
        BY <1>1, <1>3, <1>6
    <2>2. LinkInv'
        BY <2>1, <1>2, <1>4, <1>6 DEF LinkInv, LinkOf
    <2>3. TabInv'
        BY <1>2, <1>4 DEF TabInv
    <2>4. CarrierInv'
        <3>1. \A t \in Tab : \A m \in SubmitMessage : Sent(t, m)' => Sent(t, m)
            BY <1>6 DEF Sent
        <3>. QED
            BY <3>1, <1>2, <1>4, CarrierFrame
    <2>5. ConnsInv' /\ AloneInv'
        BY <1>2, <1>4, <1>6 DEF ConnsInv, AloneInv
    <2>6. RegisteredInv' /\ NoResults'
        BY <1>2, <1>4, <1>6 DEF RegisteredInv, NoResults
    <2>. QED
        BY <2>2, <2>3, <2>4, <2>5, <2>6 DEF Rest
<1>7. CASE /\ headRev(doc'[n]) = h + 1 /\ h + 1 <= headRev(Truth)
           /\ DOMAIN conns' = DOMAIN conns
           /\ \A k \in DOMAIN conns :
                  conns'[k] =
                      IF clients[n][conns[k].tab] = k
                      THEN Queue(conns[k], NextMessage(Truth, h + 1, conns[k].tab))
                      ELSE conns[k]
    <2>1. ASSUME NEW k \in DOMAIN conns
          PROVE  /\ conns'[k].tab = conns[k].tab /\ conns'[k].node = conns[k].node
                 /\ conns'[k].pc = conns[k].pc /\ conns'[k].open = conns[k].open
                 /\ conns'[k].up = conns[k].up
                 /\ ~ conns[k].open => conns'[k] = conns[k]
        <3>1. conns[k] \in Connection(Node)
            BY ConnOf
        <3>2. CASE clients[n][conns[k].tab] = k
            <4>1. conns'[k] = Queue(conns[k], NextMessage(Truth, h + 1, conns[k].tab))
                BY <3>2, <1>7
            <4>. QED
                BY <3>1, <4>1, QueueConn
        <3>3. CASE clients[n][conns[k].tab] # k
            BY <3>3, <1>7
        <3>. QED
            BY <3>2, <3>3
    <2>2. TabInv'
        BY <1>2, <1>4 DEF TabInv
    <2>3. CarrierInv'
        <3>1. \A t \in Tab : \A m \in SubmitMessage : Sent(t, m)' => Sent(t, m)
            BY <2>1, <1>7 DEF Sent
        <3>. QED
            BY <3>1, <1>2, <1>4, CarrierFrame
    <2>4. ConnsInv'
        <3>1. ASSUME NEW k \in DOMAIN conns
              PROVE  Pumped(conns'[k], k, current'[conns'[k].tab])
            <4>1. Pumped(conns[k], k, current[conns[k].tab])
                BY ConnOf
            <4>. QED
                BY <4>1, <2>1, <1>2 DEF Pumped, Greets
        <3>. QED
            BY <3>1, <1>7 DEF ConnsInv
    <2>5. AloneInv'
        BY <2>1, <1>4, <1>7, AloneFrame
    <2>6. RegisteredInv'
        <3>1. \A l \in DOMAIN conns : Greets(conns'[l]) => Greets(conns[l])
            BY <2>1 DEF Greets
        <3>. QED
            BY <3>1, <2>1, <1>2, <1>4, <1>7, RegisteredFrame
    <2>7. NoResults'
        BY <1>2, <1>4 DEF NoResults
    <2>8. ASSUME NEW t \in Tab PROVE LinkOf(t)'
        <3>1. LinkOf(t) /\ (current[t] # 0 => current[t] \in DOMAIN conns)
            BY TabFacts
        <3>2. CASE current[t] = 0
            BY <3>1, <3>2, <1>2 DEF LinkOf
        <3>3. CASE current[t] # 0
            <4>. DEFINE k == current[t]
                        g == conns'[k]
            <4>1. /\ k \in DOMAIN conns /\ conns[k].tab = t
                  /\ Linked(conns[k], k, tab[t], t, Truth, headRev(doc[leader]),
                            leader, clients[leader][t])
                BY <3>1, <3>3, Zenon DEF LinkOf
            <4>2. g = IF clients[n][t] = k
                      THEN Queue(conns[k], NextMessage(Truth, h + 1, t))
                      ELSE conns[k]
                BY <4>1, <1>7
            <4>3. Len(conns[k].down) < QueueCap
                BY <4>1 DEF Room
            <4>4. k = current[t] /\ h = headRev(doc[n]) /\ h + 1 <= headRev(Truth)
                BY <1>5, <1>7
            <4>. HIDE DEF k, g
            <4>5. Linked(g, k, tab[t], t, Truth,
                         IF n = leader THEN h + 1 ELSE headRev(doc[leader]), leader,
                         clients[leader][t])
                BY <4>1, <4>2, <4>3, <4>4, LinkedApplied
            <4>6. headRev(doc'[leader]) =
                      IF n = leader THEN h + 1 ELSE headRev(doc[leader])
                BY <1>1, <1>3, <1>7
            <4>7. conns'[current[t]].tab = t
                BY <4>1, <2>1 DEF k
            <4>. QED
                BY <4>5, <4>6, <4>7, <3>3, <1>2 DEF LinkOf, k, g
        <3>. QED
            BY <3>2, <3>3
    <2>9. LinkInv'
        BY <2>8 DEF LinkInv
    <2>. QED
        BY <2>2, <2>3, <2>4, <2>5, <2>6, <2>7, <2>9 DEF Rest
<1>. QED
    BY <1>5, <1>6, <1>7, ApplyConns

LEMMA RestRestart ==
    ASSUME Core, NEW n \in Node, MayRestart(n), Restart(n)
    PROVE  Rest'
<1>. DEFINE Hit(t) == current[t] # 0 /\ conns[current[t]].node = n
<1>1. /\ doc \in [Node -> Document] /\ Race = {} /\ conns \in Seq(Connection(Node))
      /\ leader \in Node /\ clients \in [Node -> [ClientIds -> Nat]]
      /\ results \in [Node -> Seq(Outcome)]
    BY CoreFacts DEF Core, TypeOK, DocTypes
<1>2. /\ log' = log /\ leader' = leader /\ Node' = Node
      /\ proposals' = proposals /\ scenario' = scenario /\ Truth' = Truth
    BY TruthSame DEF Restart, Node
<1>3. /\ doc' = [doc EXCEPT ![n] = NewDocument]
      /\ results' = [results EXCEPT ![n] = <<>>]
      /\ clients' = [clients EXCEPT ![n] = [i \in ClientIds |-> 0]]
      /\ DOMAIN conns' = DOMAIN conns
      /\ \A k \in DOMAIN conns : conns[k].node = n =>
             conns'[k] = [conns[k] EXCEPT !.open = FALSE, !.pc = "gone", !.up = <<>>,
                                          !.down = <<>>, !.future = 0]
      /\ \A k \in DOMAIN conns : conns[k].node # n => conns'[k] = conns[k]
    BY DEF Restart
<1>4. ASSUME NEW t \in Tab
      PROVE  /\ Hit(t) => /\ tab'[t] = Closed(tab[t]) /\ current'[t] = 0
                          /\ ~ tab[t].waiting
             /\ ~ Hit(t) => tab'[t] = tab[t] /\ current'[t] = current[t]
    BY <1>1 DEF Restart, MayRestart, MayBreak, AtRest
<1>. HIDE DEF Hit
<1>5. ASSUME NEW k \in DOMAIN conns
      PROVE  /\ conns'[k].tab = conns[k].tab /\ conns'[k].node = conns[k].node
             /\ conns'[k].up = conns[k].up \/ conns'[k].up = <<>>
             /\ conns'[k].pc = conns[k].pc \/ conns'[k].pc = "gone"
             /\ conns[k].node = n => /\ ~ conns'[k].open /\ conns'[k].pc = "gone"
                                     /\ conns'[k].up = <<>> /\ conns'[k].down = <<>>
    <2>1. conns[k] \in Connection(Node)
        BY ConnOf
    <2>2. CASE conns[k].node = n
        <3>. DEFINE c == [conns[k] EXCEPT !.open = FALSE, !.pc = "gone", !.up = <<>>,
                                          !.down = <<>>, !.future = 0]
        <3>1. /\ c.tab = conns[k].tab /\ c.node = conns[k].node /\ c.up = <<>>
              /\ ~ c.open /\ c.pc = "gone" /\ c.down = <<>>
            BY <2>1 DEF Connection
        <3>2. conns'[k] = c
            BY <2>2, <1>3
        <3>. HIDE DEF c
        <3>. QED
            BY <3>1, <3>2
    <2>3. CASE conns[k].node # n
        BY <2>3, <1>3
    <2>. QED
        BY <2>2, <2>3
<1>6. /\ TabInv /\ CarrierInv /\ RegisteredInv /\ ConnsInv /\ AloneInv
      /\ NoResults
    BY DEF Core, Rest
<1>7. ASSUME NEW t \in Tab
      PROVE  /\ TextOK(tab'[t], Truth) /\ Own(tab'[t], t, Truth)
             /\ tab'[t].waiting => tab'[t].editing
             /\ tab'[t].editing => tab'[t].joined
             /\ \A m : Carrier(m, tab[t], Truth) => Carrier(m, tab'[t], Truth)
    <2>. DEFINE s == tab[t]
                h == Closed(s)
    <2>1. /\ s \in TabStates /\ TextOK(s, Truth) /\ Own(s, t, Truth)
          /\ s.waiting => s.editing
          /\ s.editing => s.joined
        BY TabFacts
    <2>2. Alike(s, h) /\ h.editing = FALSE
        <3>. HIDE DEF s
        <3>. QED
            BY <2>1 DEF Closed, Alike, TabStates
    <2>. HIDE DEF s, h
    <2>3. /\ TextOK(h, Truth) /\ Own(h, t, Truth)
          /\ \A m : Carrier(m, s, Truth) => Carrier(m, h, Truth)
        BY <2>1, <2>2, AlikeOK
    <2>4. CASE Hit(t)
        <3>1. tab'[t] = h /\ ~ s.waiting
            BY <2>4, <1>4 DEF s, h
        <3>. QED
            BY <3>1, <2>2, <2>3 DEF Alike, s
    <2>5. CASE ~ Hit(t)
        BY <2>1, <2>5, <1>4 DEF s
    <2>. QED
        BY <2>4, <2>5
<1>8. TabInv'
    BY <1>2, <1>7 DEF TabInv
<1>9. \A t \in Tab : \A m \in SubmitMessage : Sent(t, m)' => Sent(t, m)
    BY <1>3, <1>5, SentFrame
<1>10. ASSUME NEW t \in Tab, NEW m \in SubmitMessage, Sent(t, m)'
       PROVE  /\ m.client = t /\ Carrier(m, tab'[t], Truth')
              /\ \A q \in proposals' : q.client # t
    <2>1. /\ m.client = t /\ Carrier(m, tab[t], Truth)
          /\ \A q \in proposals : q.client # t
        BY <1>6, <1>9, <1>10, Zenon DEF CarrierInv
    <2>. QED
        BY <2>1, <1>2, <1>7
<1>11. ASSUME NEW q \in proposals'
       PROVE  IF q.client = System
              THEN q.sub = 1 /\ q.base = 0 /\ Fits(<<>>, q.cs)
              ELSE /\ Carrier(q, tab'[q.client], Truth')
                   /\ \A o \in proposals' : o.client = q.client => o = q
    <2>1. q \in proposals
        BY <1>2
    <2>2. IF q.client = System
          THEN q.sub = 1 /\ q.base = 0 /\ Fits(<<>>, q.cs)
          ELSE /\ Carrier(q, tab[q.client], Truth)
               /\ \A o \in proposals : o.client = q.client => o = q
        BY <2>1, <1>6, Zenon DEF CarrierInv
    <2>3. q.client # System => q.client \in Tab
        BY <2>1, ProposalFits
    <2>. QED
        BY <2>2, <2>3, <1>2, <1>7
<1>12. CarrierInv'
    BY <1>10, <1>11, Zenon DEF CarrierInv
<1>13. ConnsInv'
    <2>1. ASSUME NEW k \in DOMAIN conns
          PROVE  Pumped(conns'[k], k, current'[conns'[k].tab])
        <3>0. PICK t : t = conns[k].tab
            OBVIOUS
        <3>1. Pumped(conns[k], k, current[t]) /\ t \in Tab /\ k # 0
            BY <3>0, ConnOf
        <3>2. CASE conns[k].node = n
            <4>1. current'[t] # k
                BY <3>1, <3>2, <1>4 DEF Hit
            <4>. QED
                BY <4>1, <3>0, <3>2, <1>5 DEF Pumped
        <3>3. CASE conns[k].node # n
            <4>1. current'[t] = k <=> current[t] = k
                BY <3>1, <3>3, <1>4 DEF Hit
            <4>2. conns'[k] = conns[k]
                BY <3>3, <1>3
            <4>. QED
                BY <4>1, <4>2, <3>0, <3>1 DEF Pumped
        <3>. QED
            BY <3>2, <3>3
    <2>. QED
        BY <2>1, <1>3 DEF ConnsInv
<1>14. AloneInv'
    BY <1>3, <1>5, <1>6, AloneFrame
<1>15. RegisteredInv'
    <2>1. \A o \in Node, i \in ClientIds :
              clients'[o][i] = clients[o][i] \/ clients'[o][i] = 0
        BY <1>1, <1>3
    <2>2. \A l \in DOMAIN conns : Greets(conns'[l]) => Greets(conns[l])
        BY <1>5 DEF Greets
    <2>. QED
        BY <2>1, <2>2, <1>2, <1>3, <1>5, <1>6, RegisteredFrame
<1>16. NoResults'
    BY <1>1, <1>2, <1>3, <1>6 DEF NoResults
<1>17. ASSUME NEW t \in Tab PROVE LinkOf(t)'
    <2>1. LinkOf(t) /\ (current[t] # 0 => current[t] \in DOMAIN conns)
        BY TabFacts
    <2>2. CASE Hit(t)
        <3>1. tab[t] \in TabStates
            BY TabFacts
        <3>2. ~ tab'[t].editing /\ current'[t] = 0
            BY <2>2, <3>1, <1>4 DEF Closed, TabStates
        <3>. QED
            BY <3>2 DEF LinkOf
    <2>3. CASE ~ Hit(t) /\ current[t] = 0
        BY <2>1, <2>3, <1>4 DEF LinkOf
    <2>4. CASE ~ Hit(t) /\ current[t] # 0
        <3>. DEFINE k == current[t]
                    c == conns[k]
                    s == tab[t]
                    h == headRev(doc[leader])
                    i == headRev(doc'[leader])
                    reg == clients[leader][t]
        <3>1. /\ k \in DOMAIN conns /\ c.tab = t /\ c.node # n
              /\ Linked(c, k, s, t, Truth, h, leader, reg)
            BY <2>1, <2>4, Zenon DEF LinkOf, Hit
        <3>2. conns'[k] = c /\ tab'[t] = s /\ current'[t] = k
            BY <2>4, <3>1, <1>3, <1>4
        <3>3. CASE n = leader
            <4>1. c.node # leader
                BY <3>1, <3>3
            <4>. HIDE DEF k, c, s, h, i, reg
            <4>2. Linked(c, k, s, t, Truth, i, leader, reg)
                BY <3>1, <4>1, LinkedApart
            <4>3. ~ s.editing /\ (Waits(c, s) \/ Redirected(c))
                BY <3>1, <4>1 DEF Linked
            <4>4. Linked(c, k, s, t, Truth, i, leader, clients'[leader][t])
                BY <4>3 DEF Linked
            <4>5. i = headRev(doc'[leader'])
                BY <1>2 DEF i
            <4>6. current'[t] # 0
                BY <2>4, <3>2 DEF k
            <4>. QED
                BY <4>4, <4>5, <4>6, <3>1, <3>2, <1>2 DEF LinkOf
        <3>4. CASE n # leader
            <4>1. i = h /\ clients'[leader][t] = reg
                BY <3>4, <1>1, <1>3
            <4>2. i = headRev(doc'[leader'])
                BY <1>2
            <4>3. current'[t] # 0
                BY <2>4, <3>2
            <4>. HIDE DEF k, c, s, h, i, reg
            <4>. QED
                BY <4>1, <4>2, <4>3, <3>1, <3>2, <1>2 DEF LinkOf
        <3>. QED
            BY <3>3, <3>4
    <2>. QED
        BY <2>2, <2>3, <2>4
<1>18. LinkInv'
    BY <1>17 DEF LinkInv
<1>. QED
    BY <1>8, <1>12, <1>13, <1>14, <1>15, <1>16, <1>18 DEF Rest

LEMMA RestStutters ==
    ASSUME Core, UNCHANGED vars
    PROVE  Rest'
<1>1. /\ UNCHANGED <<docVars, clients, conns, tabVars, log, leader, scenario>>
      /\ UNCHANGED <<tab, log>> /\ proposals' \subseteq proposals
    BY DEF vars, docVars, tabVars
<1>2. CarrierInv'
    BY <1>1, RestLogStep, CarrierFrame DEF Core, Rest
<1>. QED
    BY <1>1, <1>2, RestLogStep DEF Rest

LEMMA RestKept == Core /\ Room /\ [Next]_vars => Rest'
<1>. SUFFICES ASSUME Core, Room, [Next]_vars PROVE Rest'
    OBVIOUS
<1>1. ASSUME NEW t \in Tab, TabStep(t) PROVE Rest'
    BY <1>1, RestConnect, RestDisconnect, RestType, RestSubmitTick, RestResend,
       RestReceive DEF TabStep
<1>2. ASSUME NEW k \in DOMAIN conns, ServerStep(k) PROVE Rest'
    BY <1>2, RestHandleConnect, RestReadNext, RestHandleSubmit,
       RestFutureAnswered, RestFutureFails, RestPumpExit DEF ServerStep
<1>3. ASSUME NEW n \in Node, NodeStep(n) PROVE Rest'
    BY <1>3, RestApplyNext, RestOnCommit, RestRestart DEF NodeStep, Applies, Core
<1>4. CASE Commit \/ LoseProposal \/ (MayMove /\ Failover) \/ Bootstrap
    BY <1>4, RestCommit, RestLoseProposal, RestFailover, RestBootstrap
<1>5. CASE UNCHANGED vars
    BY <1>5, RestStutters
<1>. QED
    BY <1>1, <1>2, <1>3, <1>4, <1>5 DEF Next

LEMMA LogKept == Core /\ [Next]_vars => LogInv'
<1>. SUFFICES ASSUME Core, [Next]_vars PROVE LogInv'
    OBVIOUS
<1>0. LogInv
    BY DEF Core
<1>1. ASSUME log' = log PROVE LogInv'
    BY <1>0, <1>1 DEF LogInv
<1>2. ASSUME NEW t \in Tab, TabStep(t) PROVE log' = log
    BY <1>2 DEF TabStep, Connect, Disconnect, Type, SubmitTick, Resend, Receive,
       raftVars
<1>3. ASSUME NEW k \in DOMAIN conns, ServerStep(k) PROVE log' = log
    BY <1>3 DEF ServerStep, Enters, HandleConnect, ConnectAtOnce, Admit, ReadNext,
       HandleSubmit, FutureAnswered,
       FutureFails, PumpExit, raftVars
<1>4. ASSUME NEW n \in Node, NodeStep(n) PROVE log' = log
    BY <1>4 DEF NodeStep, Applies, ApplyNext, ApplyAtOnce, ApplyEntry, OnCommit,
       Restart, raftVars
<1>5. CASE LoseProposal \/ Failover \/ Bootstrap \/ UNCHANGED vars
    BY <1>1, <1>5 DEF LoseProposal, Failover, Bootstrap, vars
<1>6. CASE Commit
    BY <1>6, LogCommit
<1>. QED
    BY <1>1, <1>2, <1>3, <1>4, <1>5, <1>6 DEF Next

LEMMA CoreKept == Core /\ Orderly /\ Orderly' /\ [Next]_vars => Core'
<1>1. Core => TypeOK /\ DocsInv
    BY DEF Core
<1>. QED
    BY <1>1, TypesKept, DocsKept, LogKept, RestKept DEF Core, Orderly

LEMMA InitLog == Init => LogInv /\ Truth = NewDocument
<1>. SUFFICES ASSUME Init PROVE LogInv /\ Truth = NewDocument
    OBVIOUS
<1>1. log \in Seq(Entry) /\ Len(log) = 0 /\ 0 \in 0..Len(log) /\ log = <<>>
    BY DEF Init
<1>2. /\ DocumentAfter(log, 0) = NewDocument /\ Truth = NewDocument
      /\ NewDocument \in Document
    BY <1>1, DocumentAfterStep DEF Truth
<1>3. /\ headRev(NewDocument) = 0 /\ NewDocument.text = <<>>
      /\ NewDocument.last = [i \in ClientIds |-> 0]
    BY DEF NewDocument, headRev
<1>4. History(NewDocument)
    <2>1. TextAt(NewDocument, 0) = <<>>
        BY <1>2, <1>3, TextAtStep
    <2>. QED
        BY <1>3, <2>1 DEF History
<1>5. Numbered(NewDocument)
    BY <1>3 DEF Numbered
<1>6. TakesEffect(log, NewDocument)
    BY <1>1 DEF TakesEffect
<1>7. \A j \in 0..Len(log) : History(DocumentAfter(log, j))
    <2>1. SUFFICES ASSUME NEW j \in 0..Len(log) PROVE History(DocumentAfter(log, j))
        OBVIOUS
    <2>2. j = 0
        BY <1>1
    <2>. QED
        BY <2>2, <1>2, <1>4
<1>8. \A j \in 1..Len(log) : Unapplied(log, j)
    BY <1>1
<1>. QED
    BY <1>1, <1>2, <1>5, <1>6, <1>7, <1>8 DEF LogInv, LogOK

LEMMA InitTab ==
    ASSUME NEW t \in ClientIds
    PROVE  TextOK(NewTab, NewDocument) /\ Own(NewTab, t, NewDocument)
<1>1. /\ headRev(NewDocument) = 0 /\ NewDocument.last[t] = 0
      /\ NewDocument \in Document /\ 0 \in 0..headRev(NewDocument)
    BY NewDocumentType DEF NewDocument, headRev
<1>2. /\ NewTab.rev = 0 /\ NewTab.sub = 0 /\ NewTab.waiting = FALSE
      /\ NewTab.A = identity(0) /\ NewTab.X = identity(0)
    BY DEF NewTab
<1>3. TextAt(NewDocument, 0) = <<>>
    BY <1>1, TextAtStep
<1>4. Edit(<<>>, identity(0), <<>>) /\ identity(0).ops \in Seq(Retains)
    BY EmptyText, IdentityEdit DEF identity
<1>5. Leads(<<>>, identity(0), <<>>)
    BY <1>4 DEF Edit
<1>6. TextOK(NewTab, NewDocument)
    BY <1>1, <1>2, <1>3, <1>4, <1>5 DEF TextOK, Fits
<1>7. Own(NewTab, t, NewDocument)
    BY <1>1, <1>2 DEF Own
<1>. QED
    BY <1>6, <1>7

LEMMA InitCore == Init /\ Race = {} => Core
<1>. SUFFICES ASSUME Init, Race = {} PROVE Core
    OBVIOUS
<1>1. TypeOK /\ DocsInv /\ LogInv /\ Truth = NewDocument
    BY InitTypes, InitDocs, InitLog
<1>2. /\ tab = [t \in Tab |-> NewTab] /\ conns = <<>> /\ proposals = {}
      /\ current = [t \in Tab |-> 0] /\ results = [n \in Node |-> <<>>]
      /\ clients = [n \in Node |-> [i \in ClientIds |-> 0]]
    BY DEF Init
<1>3. DOMAIN conns = {}
    BY <1>2
<1>4. NewTab.waiting = FALSE /\ NewTab.editing = FALSE
    BY DEF NewTab
<1>5. TabInv
    <2>1. ASSUME NEW t \in Tab
          PROVE  TextOK(NewTab, NewDocument) /\ Own(NewTab, t, NewDocument)
        BY IdAssumption, InitTab
    <2>. QED
        BY <1>1, <1>2, <1>4, <2>1 DEF TabInv
<1>6. CarrierInv
    BY <1>2, <1>3 DEF CarrierInv, Sent
<1>7. LinkInv
    BY <1>2, <1>4 DEF LinkInv, LinkOf
<1>8. ConnsInv /\ AloneInv
    BY <1>3 DEF ConnsInv, AloneInv
<1>9. RegisteredInv /\ NoResults
    BY <1>2 DEF RegisteredInv, NoResults
<1>. QED
    BY <1>1, <1>5, <1>6, <1>7, <1>8, <1>9 DEF Core, Rest

(***************************************************************************)
(* The invariant, as long as no race and no full queue comes in between.   *)
(***************************************************************************)
THEOREM CoreHolds == Spec /\ []Orderly => []Core
<1>1. Init /\ Orderly => Core
    BY InitCore DEF Orderly
<1>. QED
    BY <1>1, CoreKept, PTL DEF Spec

-----------------------------------------------------------------------------
(* What follows from the invariant *)

(***************************************************************************)
(* The server's text of the client's revision is what the client holds.    *)
(***************************************************************************)
THEOREM InStep == Spec /\ []Orderly => []ClientInStep
<1>1. ASSUME Core, NEW t \in Tab, tab[t].joined
      PROVE  /\ tab[t].rev <= headRev(Truth)
             /\ baseText(tab[t]) = TextAt(Truth, tab[t].rev)
    <2>1. tab[t] \in TabStates /\ Truth \in Document /\ TextOK(tab[t], Truth)
          /\ tab[t].rev <= headRev(Truth)
        BY <1>1, TabFacts, CoreFacts
    <2>. QED
        BY <2>1, TextFacts
<1>2. Core => ClientInStep
    BY <1>1, Zenon DEF ClientInStep
<1>. QED
    BY <1>2, CoreHolds, PTL

(***************************************************************************)
(* Every committed submission is a revision: it fits, however far it has   *)
(* been rebased.                                                           *)
(***************************************************************************)
THEOREM EffectTaken == Spec /\ []Orderly => []CommittedTakesEffect
<1>1. ASSUME Core, NEW j \in DOMAIN log
      PROVE  \E i \in DOMAIN Truth.revs : /\ Truth.revs[i].source = log[j].client
                                          /\ Truth.revs[i].sub = log[j].sub
    <2>1. TakesEffect(log, Truth) /\ DOMAIN log = 1..Len(log)
        BY <1>1, CoreFacts DEF Core, LogInv, LogOK, Truth
    <2>2. DOMAIN Truth.revs = 1..headRev(Truth)
        BY <1>1, CoreFacts, RevsFacts
    <2>. QED
        BY <1>1, <2>1, <2>2, Zenon DEF TakesEffect
<1>2. Core => CommittedTakesEffect
    BY <1>1, Zenon DEF CommittedTakesEffect
<1>. QED
    BY <1>2, CoreHolds, PTL

LEMMA SameText ==
    ASSUME NEW t, NEW c, NEW u, Edit(t, c, u), IsIdentity(c)
    PROVE  u = t
<1>1. /\ t \in Text /\ u \in Text /\ Leads(t, c, u)
      /\ c.oldLen = Len(t) /\ c.newLen = Len(u) /\ c.ops \in Seq(OpSet)
    BY DEF Edit, Leads
<1>2. CASE c.oldLen = 0
    <2>1. c.newLen = 0
        BY <1>2 DEF IsIdentity
    <2>. QED
        BY <1>1, <1>2, <2>1, EmptySeq DEF Text
<1>3. CASE c.ops = <<Retain(c.oldLen)>>
    <2>1. Retain(c.oldLen).op = "retain"
        BY DEF Retain
    <2>2. Len(c.ops) = 1 /\ c.ops[1] = Retain(c.oldLen)
        BY <1>3
    <2>3. c.ops[1] \in OpSet
        BY <2>2, <1>1, ElementOfSeq
    <2>4. Retain(c.oldLen) \in Retains
        BY <2>1, <2>2, <2>3 DEF Retains
    <2>5. <<Retain(c.oldLen)>> \in Seq(Retains)
        BY <2>4
    <2>6. c.ops \in Seq(Retains)
        BY <2>5, <1>3
    <2>. QED
        BY <2>6, <1>1, RetainsKeep
<1>. QED
    BY <1>2, <1>3 DEF IsIdentity

(***************************************************************************)
(* At rest everybody sees the document.                                    *)
(***************************************************************************)
THEOREM AllConverge == Spec /\ []Orderly => []Converged
<1>1. ASSUME Core, Settled, NEW t \in Tab, tab[t].editing, AtRest(t)
      PROVE  tab[t].rev = headRev(Truth) /\ tab[t].screen = Truth.text
    <2>1. PICK s, D : s = tab[t] /\ D = Truth
        OBVIOUS
    <2>2. /\ s \in TabStates /\ TextOK(s, D) /\ D \in Document /\ History(D)
          /\ s.rev \in Nat /\ ~ s.waiting
        BY <1>1, <2>1, TabFacts, CoreFacts DEF AtRest
    <2>3. doc[leader] = D
        BY <1>1, <2>1, CoreFacts DEF Settled, Truth
    <2>4. conns[current[t]].down = <<>>
        BY <1>1, EditorFacts DEF Settled
    <2>5. s.rev + Len(conns[current[t]].down) = headRev(doc[leader])
        BY <1>1, <2>1, EditorFacts DEF Edits
    <2>6. s.rev = headRev(D)
        BY <2>2, <2>3, <2>4, <2>5
    <2>7. Edit(TextAt(D, s.rev), Unsent(s), s.screen)
        BY <2>2, UnsentEdit
    <2>8. s.screen = TextAt(D, s.rev)
        BY <2>7, <2>1, <1>1, SameText DEF AtRest
    <2>9. D.text = TextAt(D, headRev(D))
        BY <2>2 DEF History
    <2>. QED
        BY <2>1, <2>6, <2>8, <2>9
<1>2. Core => Converged
    BY <1>1, Zenon DEF Converged
<1>. QED
    BY <1>2, CoreHolds, PTL

\* Only a message moves the revision of a tab.
LEMMA RevisionMoves ==
    ASSUME Core, [Next]_vars, NEW t \in Tab, tab'[t].rev # tab[t].rev
    PROVE  LET m == Head(conns[current[t]].down)
           IN  Incoming(t) /\ m.type # "REDIRECT" /\ tab'[t] = Handled(t, m)
<1>. DEFINE m == Head(conns[current[t]].down)
            Goal == Incoming(t) /\ m.type # "REDIRECT" /\ tab'[t] = Handled(t, m)
<1>0. tab \in [Tab -> TabStates] /\ tab' # tab
    BY DEF Core, TypeOK, TabTypes
<1>. HIDE DEF m, Goal
<1>1. ASSUME NEW u \in Tab, NEW s \in TabStates, tab' = [tab EXCEPT ![u] = s],
             s.rev = tab[u].rev
      PROVE  FALSE
    BY <1>0, <1>1
<1>2. ASSUME NEW u \in Tab, NEW a, Hangup(u, a) PROVE FALSE
    <2>1. tab' = [tab EXCEPT ![u] = Closed(tab[u])]
        BY <1>2 DEF Hangup
    <2>2. Closed(tab[u]).rev = tab[u].rev /\ Closed(tab[u]) \in TabStates
        BY <1>0 DEF Closed, TabStates
    <2>. QED
        BY <2>1, <2>2, <1>1
<1>3. ASSUME NEW u \in Tab, TabStep(u) PROVE Goal
    <2>1. CASE Connect(u) \/ Resend(u)
        BY <2>1, <1>0 DEF Connect, Resend, tabVars
    <2>2. CASE Disconnect(u)
        BY <2>2, <1>2 DEF Disconnect
    <2>3. CASE Type(u)
        <3>1. TypeOK'
            BY <2>3, TypeType DEF Core
        <3>2. \E x : tab' = [tab EXCEPT ![u].screen = x]
            BY <2>3, Zenon DEF Type
        <3>3. tab'[t].rev = tab[t].rev
            BY <3>2, <1>0 DEF TabStates
        <3>. QED
            BY <3>3
    <2>4. CASE SubmitTick(u)
        <3>1. tab' = [tab EXCEPT ![u] = MoveToX(tab[u])]
            BY <2>4 DEF SubmitTick
        <3>2. MoveToX(tab[u]) \in TabStates
            BY <1>0, MoveToXType
        <3>3. MoveToX(tab[u]).rev = tab[u].rev
            BY <1>0 DEF MoveToX, TabStates
        <3>. QED
            BY <3>1, <3>2, <3>3, <1>1
    <2>5. CASE Receive(u)
        <3>1. PICK n : n = Head(conns[current[u]].down)
            OBVIOUS
        <3>2. n.type # "REDIRECT" /\ tab' = [tab EXCEPT ![u] = Handled(u, n)]
              /\ Incoming(u)
            BY <2>5, <3>1, <1>2, Zenon DEF Receive
        <3>3. u = t
            BY <3>2, <1>0
        <3>4. tab'[t] = Handled(t, n)
            BY <3>2, <3>3, <1>0
        <3>. QED
            BY <3>1, <3>2, <3>3, <3>4 DEF Goal, m
    <2>. QED
        BY <1>3, <2>1, <2>2, <2>3, <2>4, <2>5 DEF TabStep
<1>4. ASSUME NEW k \in DOMAIN conns, ServerStep(k) PROVE FALSE
    BY <1>4, <1>0 DEF ServerStep, Enters, HandleConnect, ConnectAtOnce, Admit,
       ReadNext, HandleSubmit, FutureAnswered, FutureFails, PumpExit, tabVars
<1>5. ASSUME NEW n \in Node, NodeStep(n) PROVE FALSE
    <2>1. CASE Applies(n) \/ OnCommit(n)
        BY <2>1, <1>0 DEF Applies, ApplyNext, ApplyAtOnce, ApplyEntry, OnCommit,
           tabVars
    <2>2. CASE Restart(n)
        <3>1. tab'[t] \in {tab[t], Closed(tab[t])}
            BY <2>2 DEF Restart
        <3>2. Closed(tab[t]).rev = tab[t].rev
            BY <1>0 DEF Closed, TabStates
        <3>. QED
            BY <3>1, <3>2
    <2>. QED
        BY <1>5, <2>1, <2>2 DEF NodeStep
<1>6. ~ Commit /\ ~ LoseProposal /\ ~ Failover /\ ~ Bootstrap /\ ~ UNCHANGED vars
    BY <1>0 DEF Commit, LoseProposal, Failover, Bootstrap, tabVars, vars
<1>7. Goal
    BY <1>3, <1>4, <1>5, <1>6, Zenon DEF Next
<1>. QED
    BY <1>7 DEF Goal, m

(***************************************************************************)
(* A broadcast keeps the screen equal to A then X then Y.                  *)
(***************************************************************************)
THEOREM ShownRight == Spec /\ []Orderly => BroadcastShown
<1>. DEFINE Kept == \A t \in Tab :
                (/\ tab'[t].rev # tab[t].rev /\ tab[t].editing
                 /\ tab'[t].waiting = tab[t].waiting)
                    => LET u == tab'[t]
                           afterX == JsApply(baseText(u), u.X)
                           afterY == JsApply(afterX.text, u.Y)
                       IN  afterX.ok /\ afterY.ok /\ u.screen = afterY.text
<1>1. ASSUME Core, [Next]_vars PROVE Kept
    <2>1. ASSUME NEW t \in Tab, tab'[t].rev # tab[t].rev, tab[t].editing,
                 tab'[t].waiting = tab[t].waiting
          PROVE  Shown(tab'[t])
        <3>1. /\ Incoming(t) /\ Head(conns[current[t]].down).type # "REDIRECT"
              /\ tab'[t] = Handled(t, Head(conns[current[t]].down))
            BY <1>1, <2>1, RevisionMoves
        <3>. QED
            BY <1>1, <2>1, <3>1, ReceivedTab
    <2>. QED
        BY <2>1, Zenon DEF Shown
<1>2. Core /\ [Next]_vars => [Kept]_vars
    BY <1>1
<1>. QED
    BY <1>2, CoreHolds, PTL DEF Spec, BroadcastShown

=============================================================================
