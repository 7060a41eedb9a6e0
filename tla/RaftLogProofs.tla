--------------------------- MODULE RaftLogProofs ---------------------------
(***************************************************************************)
(* Proofs about the logs of Raft, for every set of servers and every value *)
(* of the bounds, provided that no replicator steps its node down behind   *)
(* an election (RacyStepDown = FALSE, as in ElectionSafe).                 *)
(*                                                                         *)
(* LogMatching says nothing of the requests under way, and so is not       *)
(* inductive.  LogInv is: with leaderLog, the last log that the winner of  *)
(* each term had as Leader, every log is traced, that is, it agrees up to  *)
(* each of its entries with the Leader of that entry's term; every request *)
(* is a piece of its Leader's log; who has accepted a request holds what   *)
(* it says as long as its term lasts.  The steps fall into three kinds     *)
(* (Obeys, Writes, Wins), and the merge of handleAppendEntries is the only *)
(* one that takes entries away: Merging says which.                        *)
(*                                                                         *)
(* What is committed and the refinement of ReplicatedLog come after that,  *)
(* each with its own invariant on top of LogInv.                           *)
(***************************************************************************)
EXTENDS RaftHistory, RaftImplementsLog, RaftProofs

(* Logs *)

\* The log holds an entry of term t at index k.
Has(lg, k, t) == k \in 1..Len(lg) /\ lg[k].term = t

\* Two logs are equal up to index k, and both reach that far.
Agree(a, b, k) == k <= Len(a) /\ k <= Len(b) /\ \A j \in 1..k : a[j] = b[j]

(***************************************************************************)
(* The log lg holds only entries of terms up to u that were won (L is the  *)
(* log of the Leader of each won term), and with every entry it holds what *)
(* the Leader of the entry's term has up to there.                         *)
(***************************************************************************)
Traced(L, lg, u) ==
    \A k \in 1..Len(lg) :
        /\ lg[k].term \in DOMAIN L
        /\ lg[k].term <= u
        /\ Agree(lg, L[lg[k].term], k)

\* L gives a traced log to each of some terms.
Ledger(L) ==
    /\ DOMAIN L \subseteq Nat
    /\ L \in [DOMAIN L -> Seq(Entry)]
    /\ \A t \in DOMAIN L : Traced(L, L[t], t)

\* The last index that a request speaks of.
ReqEnd(req) == req.prevIndex + Len(req.entries)

\* The request is a piece of the log of the Leader of its term.
Piece(L, req) ==
    /\ req.term \in DOMAIN L
    /\ ReqEnd(req) <= Len(L[req.term])
    /\ \A i \in 1..Len(req.entries) :
           req.entries[i] = L[req.term][req.prevIndex + i]
    /\ req.prevIndex > 0 => req.prevTerm = L[req.term][req.prevIndex].term

\* From L to M, Leaders' logs only grow, by entries of the Leader's own term.
Grows(L, M) ==
    /\ DOMAIN L \subseteq DOMAIN M
    /\ \A t \in DOMAIN L :
           /\ Agree(L[t], M[t], Len(L[t]))
           /\ \A k \in (Len(L[t]) + 1)..Len(M[t]) : M[t][k].term = t

\* Agreement is that of the shorter prefixes too, and is transitive.
LEMMA AgreePrefix ==
    ASSUME NEW a \in Seq(Entry), NEW b \in Seq(Entry), NEW k \in Nat,
           NEW j \in Nat, j <= k, Agree(a, b, k)
    PROVE  Agree(a, b, j)
    BY DEF Agree

LEMMA AgreeTrans ==
    ASSUME NEW a \in Seq(Entry), NEW b \in Seq(Entry), NEW c \in Seq(Entry),
           NEW k \in Nat, Agree(a, b, k), Agree(b, c, k)
    PROVE  Agree(a, c, k)
    BY DEF Agree

LEMMA AgreeSym ==
    ASSUME NEW a, NEW b, NEW k, Agree(a, b, k)
    PROVE  Agree(b, a, k)
    BY DEF Agree

\* The terms in a log are numbers.
LEMMA EntryTerm ==
    ASSUME NEW lg \in Seq(Entry), NEW k \in 1..Len(lg)
    PROVE  lg[k] \in Entry /\ lg[k].term \in Nat
<1>1. lg[k] \in Entry
    BY ElementOfSeq
<1>. QED
    BY <1>1 DEF Entry

\* Log Matching for two traced logs.
LEMMA TracedMatch ==
    ASSUME NEW L, Ledger(L), NEW a \in Seq(Entry), NEW b \in Seq(Entry),
           NEW u \in Nat, NEW w \in Nat, Traced(L, a, u), Traced(L, b, w),
           NEW k \in 1..Len(a), k <= Len(b), a[k].term = b[k].term
    PROVE  Agree(a, b, k)
<1>. DEFINE t == a[k].term
<1>1. t \in DOMAIN L /\ Agree(a, L[t], k) /\ Agree(b, L[t], k)
    BY DEF Traced
<1>2. L[t] \in Seq(Entry)
    BY <1>1 DEF Ledger
<1>. QED
    BY <1>1, <1>2 DEF Agree

\* A log that holds an entry of a won term agrees with the Leader of it.
LEMMA HasAgree ==
    ASSUME NEW L, Ledger(L), NEW a \in Seq(Entry), NEW u \in Nat,
           Traced(L, a, u), NEW k, NEW t, Has(a, k, t)
    PROVE  /\ k \in Nat \ {0} /\ k <= Len(a) /\ t \in DOMAIN L /\ t \in Nat
           /\ t <= u /\ Agree(a, L[t], k) /\ Has(L[t], k, t)
<1>1. k \in 1..Len(a) /\ a[k].term = t /\ Len(a) \in Nat
    BY DEF Has
<1>2. t \in DOMAIN L /\ t <= u /\ Agree(a, L[t], k)
    BY <1>1 DEF Traced
<1>3. t \in Nat /\ L[t] \in Seq(Entry)
    BY <1>2 DEF Ledger
<1>. QED
    BY <1>1, <1>2, <1>3 DEF Agree, Has

\* Along a traced log the terms do not decrease.
LEMMA TermsGrow ==
    ASSUME NEW L, Ledger(L), NEW a \in Seq(Entry), NEW u \in Nat,
           Traced(L, a, u), NEW j \in 1..Len(a), NEW i \in 1..j
    PROVE  a[i].term <= a[j].term
<1>. DEFINE t == a[j].term
<1>1. t \in DOMAIN L /\ Agree(a, L[t], j)
    BY DEF Traced
<1>2. L[t] \in Seq(Entry) /\ Traced(L, L[t], t)
    BY <1>1 DEF Ledger
<1>3. a[i] = L[t][i] /\ i \in 1..Len(L[t])
    BY <1>1, <1>2 DEF Agree
<1>. QED
    BY <1>2, <1>3 DEF Traced

\* What is traced stays so while the Leaders' logs grow.
LEMMA TracedGrows ==
    ASSUME NEW L, NEW M, Ledger(L), Grows(L, M),
           \A t \in DOMAIN L : M[t] \in Seq(Entry),
           NEW a \in Seq(Entry), NEW u \in Nat, NEW w \in Nat, u <= w,
           Traced(L, a, u)
    PROVE  Traced(M, a, w)
<1>. SUFFICES ASSUME NEW k \in 1..Len(a)
              PROVE  /\ a[k].term \in DOMAIN M
                     /\ a[k].term <= w
                     /\ Agree(a, M[a[k].term], k)
    BY DEF Traced
<1>. DEFINE t == a[k].term
<1>1. t \in DOMAIN L /\ t <= u /\ Agree(a, L[t], k) /\ t \in Nat
    BY EntryTerm DEF Traced
<1>2. L[t] \in Seq(Entry) /\ M[t] \in Seq(Entry)
    BY <1>1 DEF Ledger
<1>3. Agree(L[t], M[t], k)
    <2>1. Agree(L[t], M[t], Len(L[t])) /\ k <= Len(L[t])
        BY <1>1 DEF Grows, Agree
    <2>. QED
        BY <1>2, <2>1, AgreePrefix
<1>4. Agree(a, M[t], k)
    BY <1>1, <1>2, <1>3, AgreeTrans
<1>. QED
    BY <1>1, <1>4 DEF Grows

\* A piece of a Leader's log stays one.
LEMMA PieceGrows ==
    ASSUME NEW L, NEW M, Ledger(L), Grows(L, M),
           \A t \in DOMAIN L : M[t] \in Seq(Entry),
           NEW req \in AppendReq, Piece(L, req)
    PROVE  Piece(M, req)
<1>. DEFINE t == req.term
<1>1. /\ t \in DOMAIN L /\ L[t] \in Seq(Entry) /\ M[t] \in Seq(Entry)
      /\ t \in DOMAIN M
    BY DEF Piece, Ledger, Grows
<1>2. /\ req.prevIndex \in Nat /\ req.entries \in Seq(Entry)
      /\ req.prevIndex + Len(req.entries) <= Len(L[t])
    BY DEF Piece, AppendReq, ReqEnd
<1>3. /\ Len(L[t]) <= Len(M[t])
      /\ \A j \in 1..Len(L[t]) : M[t][j] = L[t][j]
    BY <1>1 DEF Grows, Agree
<1>4. \A i \in 1..Len(req.entries) :
          req.entries[i] = L[t][req.prevIndex + i]
              /\ req.prevIndex + i \in 1..Len(L[t])
    BY <1>1, <1>2 DEF Piece
<1>5. req.prevIndex > 0 => req.prevTerm = M[t][req.prevIndex].term
    <2>. SUFFICES ASSUME req.prevIndex > 0
                  PROVE  req.prevTerm = M[t][req.prevIndex].term
        OBVIOUS
    <2>1. req.prevIndex \in 1..Len(L[t])
        BY <1>1, <1>2
    <2>2. req.prevTerm = L[t][req.prevIndex].term
        BY DEF Piece
    <2>. QED
        BY <1>3, <2>1, <2>2
<1>6. req.prevIndex + Len(req.entries) <= Len(M[t])
    BY <1>1, <1>2, <1>3
<1>7. \A i \in 1..Len(req.entries) : req.entries[i] = M[t][req.prevIndex + i]
    BY <1>3, <1>4
<1>. QED
    BY <1>1, <1>5, <1>6, <1>7, Zenon DEF Piece, ReqEnd

\* A Leader's log has an old entry exactly when it had it.
LEMMA HasGrows ==
    ASSUME NEW L, NEW M, Ledger(L), Grows(L, M), NEW w \in DOMAIN L,
           M[w] \in Seq(Entry), NEW k, NEW t
    PROVE  /\ Has(L[w], k, t) => Has(M[w], k, t)
           /\ t # w /\ Has(M[w], k, t) => Has(L[w], k, t)
<1>1. /\ L[w] \in Seq(Entry)
      /\ Agree(L[w], M[w], Len(L[w]))
      /\ \A i \in (Len(L[w]) + 1)..Len(M[w]) : M[w][i].term = w
    BY DEF Ledger, Grows
<1>. QED
    BY <1>1 DEF Has, Agree

\* What agrees with a traced log over its whole length is traced.
LEMMA TracedPrefix ==
    ASSUME NEW L, Ledger(L), NEW a \in Seq(Entry), NEW b \in Seq(Entry),
           NEW u \in Nat, Traced(L, b, u), Agree(a, b, Len(a))
    PROVE  Traced(L, a, u)
<1>. SUFFICES ASSUME NEW k \in 1..Len(a)
              PROVE  /\ a[k].term \in DOMAIN L
                     /\ a[k].term <= u
                     /\ Agree(a, L[a[k].term], k)
    BY DEF Traced
<1>. DEFINE t == b[k].term
<1>1. k \in 1..Len(b) /\ a[k] = b[k] /\ Agree(a, b, k)
    BY DEF Agree
<1>2. t \in DOMAIN L /\ t <= u /\ Agree(b, L[t], k)
    BY <1>1 DEF Traced
<1>3. L[t] \in Seq(Entry)
    BY <1>2 DEF Ledger
<1>4. Agree(a, L[t], k)
    BY <1>1, <1>2, <1>3, AgreeTrans
<1>. QED
    BY <1>1, <1>2, <1>4

(***************************************************************************)
(* A request that passes the consistency check at a traced log: the log    *)
(* agrees with the Leader up to the first mismatch, or all along the       *)
(* request, and no further than a mismatch.                                *)
(***************************************************************************)
LEMMA Consistent ==
    ASSUME NEW L, Ledger(L), NEW lg \in Seq(Entry), NEW u \in Nat,
           Traced(L, lg, u), NEW req \in AppendReq, Piece(L, req),
           LogConsistent(lg, req.prevIndex, req.prevTerm)
    PROVE  LET M == L[req.term]
               bad == Mismatches(lg, req.prevIndex, req.entries)
               p == req.prevIndex + Least(bad) - 1
           IN  /\ req.prevIndex \in 0..Len(lg)
               /\ bad = {} => Agree(lg, M, ReqEnd(req))
               /\ bad # {} =>
                      /\ Least(bad) \in 1..Len(req.entries)
                      /\ p \in 0..Len(lg)
                      /\ Agree(lg, M, p)
                      /\ \A m \in Nat : Agree(lg, M, m) => m <= p
<1>. DEFINE T == req.term
            M == L[T]
            prev == req.prevIndex
            es == req.entries
            bad == Mismatches(lg, prev, es)
            i == Least(bad)
            p == prev + i - 1
<1>1. /\ T \in Nat /\ M \in Seq(Entry) /\ Traced(L, M, T)
      /\ prev \in Nat /\ es \in Seq(Entry) /\ prev + Len(es) <= Len(M)
    BY DEF Piece, Ledger, AppendReq, ReqEnd
<1>2. \A j \in 1..Len(es) : es[j] = M[prev + j] /\ prev + j \in 1..Len(M)
    <2>1. \A j \in 1..Len(es) : es[j] = M[prev + j]
        BY DEF Piece
    <2>2. prev \in Nat /\ Len(es) \in Nat /\ Len(M) \in Nat
        BY <1>1
    <2>. HIDE DEF prev, es, M
    <2>. QED
        BY <1>1, <2>1, <2>2
<1>3. prev > 0 => req.prevTerm = M[prev].term
    BY DEF Piece
<1>4. prev \in 0..Len(lg)
    BY <1>1 DEF LogConsistent
<1>. HIDE DEF T, M, prev, es
<1>5. ASSUME NEW k \in Nat, k <= Len(lg), k <= Len(M),
             k = 0 \/ lg[k].term = M[k].term
      PROVE  Agree(lg, M, k)
    <2>1. CASE k = 0
        BY <1>1, <2>1 DEF Agree
    <2>2. CASE k # 0
        <3>1. k \in 1..Len(lg)
            BY <1>5, <2>2
        <3>. QED
            BY <1>1, <1>5, <2>2, <3>1, TracedMatch
    <2>. QED
        BY <2>1, <2>2
<1>6. Agree(lg, M, prev)
    <2>1. LogConsistent(lg, prev, req.prevTerm)
        BY DEF prev
    <2>2. prev = 0 \/ lg[prev].term = M[prev].term
        BY <1>1, <1>3, <2>1 DEF LogConsistent
    <2>. QED
        BY <1>1, <1>4, <1>5, <2>2
<1>7. ASSUME NEW j \in 1..Len(es), j \notin bad PROVE Agree(lg, M, prev + j)
    <2>1. prev + j <= Len(lg) /\ lg[prev + j].term = M[prev + j].term
        BY <1>1, <1>2, <1>4, <1>7 DEF Mismatches
    <2>. QED
        BY <1>1, <1>2, <1>5, <2>1
<1>8. ASSUME bad = {} PROVE Agree(lg, M, prev + Len(es))
    <2>1. CASE Len(es) = 0
        BY <1>1, <1>6, <2>1
    <2>2. CASE Len(es) # 0
        <3>1. Len(es) \in 1..Len(es) /\ Len(es) \notin bad
            BY <1>1, <1>8, <2>2
        <3>. QED
            BY <1>7, <3>1
    <2>. QED
        BY <2>1, <2>2
<1>9. ASSUME bad # {}
      PROVE  /\ i \in 1..Len(es) /\ p \in 0..Len(lg) /\ Agree(lg, M, p)
             /\ \A m \in Nat : Agree(lg, M, m) => m <= p
    <2>1. i \in 1..Len(es) /\ p \in 0..Len(lg)
        BY <1>1, <1>4, <1>9, FirstMismatch
    <2>2. i \in bad /\ \A j \in bad : i <= j
        <3>1. bad \in SUBSET Nat
            BY <1>1 DEF Mismatches
        <3>. QED
            BY <1>9, <3>1, LeastNat
    <2>3. Agree(lg, M, p)
        <3>1. CASE i = 1
            BY <1>1, <1>6, <3>1
        <3>2. CASE i # 1
            <4>1. i - 1 \in 1..Len(es) /\ i - 1 \notin bad
                BY <1>1, <2>1, <2>2, <3>2
            <4>2. Agree(lg, M, prev + (i - 1))
                BY <1>7, <4>1
            <4>3. prev + (i - 1) = p
                BY <1>1, <2>1
            <4>. QED
                BY <4>2, <4>3
        <3>. QED
            BY <3>1, <3>2
    <2>4. prev + i > Len(lg) \/ lg[prev + i].term # M[prev + i].term
        BY <1>2, <2>1, <2>2 DEF Mismatches
    <2>5. ASSUME NEW m \in Nat, Agree(lg, M, m) PROVE m <= p
        <3>. SUFFICES ASSUME m > p PROVE FALSE
            BY <1>1, <2>1
        <3>1. prev + i \in 1..m /\ m <= Len(lg)
            BY <1>1, <2>1, <2>5 DEF Agree
        <3>2. lg[prev + i] = M[prev + i]
            BY <2>5, <3>1 DEF Agree
        <3>. QED
            BY <2>4, <3>1, <3>2
    <2>. QED
        BY <2>1, <2>3, <2>5
<1>. QED
    BY <1>4, <1>8, <1>9 DEF ReqEnd, T, M, prev, es

(***************************************************************************)
(* handleAppendEntries, step 3, at a traced log: afterwards the log is     *)
(* traced, agrees with the Leader all along the request, and has lost      *)
(* nothing that it had in common with the Leader.                          *)
(***************************************************************************)
LEMMA Merging ==
    ASSUME NEW L, Ledger(L), NEW lg \in Seq(Entry), NEW u \in Nat,
           Traced(L, lg, u), NEW req \in AppendReq, Piece(L, req),
           u <= req.term, LogConsistent(lg, req.prevIndex, req.prevTerm)
    PROVE  LET r == MergeEntries(lg, req.prevIndex, req.entries)
               M == L[req.term]
           IN  /\ r \in Seq(Entry)
               /\ Agree(r, M, ReqEnd(req))
               /\ Traced(L, r, req.term)
               /\ \A m \in Nat : Agree(lg, M, m) => Agree(r, M, m)
<1>. DEFINE T == req.term
            M == L[T]
            prev == req.prevIndex
            es == req.entries
            bad == Mismatches(lg, prev, es)
            i == Least(bad)
            p == prev + i - 1
            r == MergeEntries(lg, prev, es)
<1>1. /\ T \in Nat /\ M \in Seq(Entry) /\ Traced(L, M, T)
      /\ prev \in Nat /\ es \in Seq(Entry) /\ prev + Len(es) <= Len(M)
    BY DEF Piece, Ledger, AppendReq, ReqEnd
<1>2. \A j \in 1..Len(es) : es[j] = M[prev + j] /\ prev + j \in 1..Len(M)
    <2>1. \A j \in 1..Len(es) : es[j] = M[prev + j]
        BY DEF Piece
    <2>2. prev \in Nat /\ Len(es) \in Nat /\ Len(M) \in Nat
        BY <1>1
    <2>. HIDE DEF prev, es, M
    <2>. QED
        BY <1>1, <2>1, <2>2
<1>3. /\ prev \in 0..Len(lg)
      /\ bad = {} => Agree(lg, M, prev + Len(es))
      /\ bad # {} => /\ i \in 1..Len(es) /\ p \in 0..Len(lg)
                     /\ Agree(lg, M, p)
                     /\ \A m \in Nat : Agree(lg, M, m) => m <= p
    BY Consistent DEF ReqEnd
<1>4. u <= T
    OBVIOUS
<1>5. ReqEnd(req) = prev + Len(es)
    BY DEF ReqEnd
<1>. HIDE DEF T, M, prev, es
<1>6. CASE bad = {}
    <2>1. r = lg
        BY <1>6 DEF MergeEntries
    <2>2. Traced(L, lg, T)
        BY <1>1, <1>4, EntryTerm DEF Traced
    <2>. QED
        BY <1>3, <1>5, <1>6, <2>1, <2>2 DEF T, M, prev, es
<1>7. CASE bad # {}
    <2>. DEFINE a == SubSeq(lg, 1, p)
                b == SubSeq(es, i, Len(es))
    <2>1. r = a \o b
        BY <1>7 DEF MergeEntries
    <2>2. /\ i \in 1..Len(es) /\ p \in 0..Len(lg) /\ Agree(lg, M, p)
          /\ \A m \in Nat : Agree(lg, M, m) => m <= p
          /\ p = prev + i - 1
        BY <1>3, <1>7
    <2>. HIDE DEF i, p, bad
    <2>3. /\ a \in Seq(Entry) /\ Len(a) = p
          /\ \A j \in 1..p : a[j] = lg[j]
        BY <2>2, SubSeqProperties
    <2>4. /\ b \in Seq(Entry) /\ Len(b) = Len(es) - i + 1
          /\ \A j \in 1..Len(b) : b[j] = es[i + j - 1]
        <3>1. \A j \in i..Len(es) : es[j] \in Entry
            BY <1>1, <2>2, ElementOfSeq
        <3>2. i \in Int /\ Len(es) \in Int /\ i <= Len(es) + 1
            BY <1>1, <2>2
        <3>3. /\ b \in Seq(Entry)
              /\ Len(b) = IF i <= Len(es) THEN Len(es) - i + 1 ELSE 0
              /\ \A j \in 1..(Len(es) - i + 1) : b[j] = es[i + j - 1]
            BY <1>1, <2>2, <3>1, <3>2, SubSeqProperties
        <3>. QED
            BY <1>1, <2>2, <3>3
    <2>. HIDE DEF a, b
    <2>5. /\ r \in Seq(Entry) /\ Len(r) = prev + Len(es)
          /\ \A j \in 1..p : r[j] = lg[j]
          /\ \A j \in (p + 1)..Len(r) : r[j] = es[j - prev]
        <3>1. /\ a \o b \in Seq(Entry) /\ Len(a \o b) = Len(a) + Len(b)
              /\ \A j \in 1..(Len(a) + Len(b)) :
                     (a \o b)[j] = IF j <= Len(a) THEN a[j] ELSE b[j - Len(a)]
            BY <2>3, <2>4, ConcatProperties
        <3>2. Len(a \o b) = prev + Len(es)
            BY <1>1, <2>2, <2>3, <2>4, <3>1
        <3>3. \A j \in 1..p : (a \o b)[j] = lg[j]
            BY <1>1, <2>2, <2>3, <2>4, <3>1
        <3>4. ASSUME NEW j \in (p + 1)..(prev + Len(es))
              PROVE  (a \o b)[j] = es[j - prev]
            <4>0. /\ j \in 1..(Len(a) + Len(b)) /\ ~ (j <= Len(a))
                  /\ j - p \in 1..Len(b)
                BY <1>1, <2>2, <2>3, <2>4
            <4>1. (a \o b)[j] = b[j - p]
                BY <2>3, <3>1, <4>0
            <4>2. i + (j - p) - 1 = j - prev
                BY <1>1, <2>2
            <4>. QED
                BY <2>4, <4>0, <4>1, <4>2
        <3>. QED
            BY <2>1, <3>1, <3>2, <3>3, <3>4
    <2>. HIDE DEF r
    <2>6. Agree(r, M, Len(r))
        <3>1. \A j \in 1..p : r[j] = M[j]
            BY <2>2, <2>5 DEF Agree
        <3>2. ASSUME NEW j \in (p + 1)..Len(r) PROVE r[j] = M[j]
            <4>1. j - prev \in 1..Len(es)
                BY <1>1, <2>2, <2>5
            <4>2. prev + (j - prev) = j
                BY <1>1, <2>2, <2>5
            <4>. QED
                BY <1>2, <2>5, <4>1, <4>2
        <3>3. \A j \in 1..Len(r) : j \in 1..p \/ j \in (p + 1)..Len(r)
            BY <1>1, <2>2, <2>5
        <3>. QED
            BY <1>1, <2>5, <3>1, <3>2, <3>3 DEF Agree
    <2>7. Traced(L, r, T)
        BY <1>1, <2>5, <2>6, TracedPrefix
    <2>8. ASSUME NEW m \in Nat, Agree(lg, M, m) PROVE Agree(r, M, m)
        <3>1. m <= Len(r)
            BY <1>1, <2>2, <2>5, <2>8
        <3>. QED
            BY <1>1, <2>5, <2>6, <3>1, AgreePrefix
    <2>. QED
        BY <1>5, <2>5, <2>6, <2>7, <2>8 DEF T, M, prev, es, r
<1>. QED
    BY <1>6, <1>7

\* The first half of that step, when a crash forgets the second.
LEMMA Deleting ==
    ASSUME NEW L, Ledger(L), NEW lg \in Seq(Entry), NEW u \in Nat,
           Traced(L, lg, u), NEW req \in AppendReq, Piece(L, req),
           u <= req.term, LogConsistent(lg, req.prevIndex, req.prevTerm)
    PROVE  LET r == DeleteConflicts(lg, req.prevIndex, req.entries)
               M == L[req.term]
           IN  /\ r \in Seq(Entry)
               /\ Traced(L, r, req.term)
               /\ \A m \in Nat : Agree(lg, M, m) => Agree(r, M, m)
<1>. DEFINE T == req.term
            M == L[T]
            bad == Mismatches(lg, req.prevIndex, req.entries)
            p == req.prevIndex + Least(bad) - 1
            r == DeleteConflicts(lg, req.prevIndex, req.entries)
<1>1. /\ T \in Nat /\ M \in Seq(Entry) /\ u <= T
    BY DEF Piece, Ledger, AppendReq
<1>2. bad # {} => /\ p \in 0..Len(lg)
                  /\ Agree(lg, M, p)
                  /\ \A m \in Nat : Agree(lg, M, m) => m <= p
    BY Consistent
<1>3. Traced(L, lg, T)
    BY <1>1, EntryTerm DEF Traced
<1>4. r = lg \/ (bad # {} /\ r = SubSeq(lg, 1, p))
    BY DEF DeleteConflicts
<1>. HIDE DEF T, M, bad, p, r
<1>5. CASE r = lg
    BY <1>3, <1>5 DEF r, M, T
<1>6. CASE bad # {} /\ r = SubSeq(lg, 1, p)
    <2>1. /\ r \in Seq(Entry) /\ Len(r) = p
          /\ \A j \in 1..p : r[j] = lg[j]
        BY <1>2, <1>6, SubSeqProperties
    <2>2. Agree(r, lg, Len(r)) /\ Agree(r, M, Len(r))
        BY <1>1, <1>2, <1>6, <2>1 DEF Agree
    <2>3. Traced(L, r, T)
        BY <1>1, <1>3, <2>1, <2>2, TracedPrefix
    <2>4. ASSUME NEW m \in Nat, Agree(lg, M, m) PROVE Agree(r, M, m)
        <3>1. m <= Len(r) /\ Len(r) \in Nat
            BY <1>2, <1>6, <2>1, <2>4
        <3>. QED
            BY <1>1, <2>1, <2>2, <3>1, AgreePrefix
    <2>. QED
        BY <2>1, <2>3, <2>4 DEF r, M, T
<1>. QED
    BY <1>4, <1>5, <1>6

-----------------------------------------------------------------------------
(* The invariants *)

\* Every log is traced, the last logs of the Leaders too, and what a Leader
\* has now is its last log.
TraceInv ==
    /\ DOMAIN leaderLog = WonTerms
    /\ Ledger(leaderLog)
    /\ \A s \in Server : Traced(leaderLog, log[s], currentTerm[s])
    /\ \A s \in Server :
           state[s] = "Leader" => leaderLog[currentTerm[s]] = log[s]

\* A candidate has not won the term it stands in yet.
FreshInv ==
    \A n \in Server : loop[n] = "candidate" => ~ Won(n, currentTerm[n])

\* Peer p has gone as far as term t, and if it is still there it holds the
\* first m entries of the Leader of t.
Holds(p, t, m) ==
    m > 0 => /\ t <= currentTerm[p]
             /\ m <= Len(leaderLog[t])
             /\ currentTerm[p] = t => Agree(log[p], leaderLog[t], m)

\* A request is a piece of its Leader's log; a refusal names an index that the
\* request reached; who has said yes holds what was sent, as long as its term
\* lasts; a replicator that its Leader still listens to speaks for its term.
RequestOK(c) ==
    /\ Piece(leaderLog, c.req)
    /\ c.reply.hint.index <= c.req.prevIndex
    /\ c.reply.success => Holds(c.req.to, c.req.term, ReqEnd(c.req))
    /\ c.status = "live" /\ state[c.req.from] = "Leader"
           => c.req.term = currentTerm[c.req.from]

RequestInv == \A c \in calls : RequestOK(c)

\* A Leader sends from within its log and counts what its peers hold.
PeerInv ==
    \A l, p \in Server :
        state[l] = "Leader" =>
            /\ nextIndex[l][p] <= Len(log[l]) + 1
            /\ Holds(p, currentTerm[l], matchIndex[l][p])

LogInv == TraceInv /\ FreshInv /\ RequestInv /\ PeerInv

-----------------------------------------------------------------------------
(***************************************************************************)
(* What the steps of Raft do to the logs: most of them nothing, or they    *)
(* rewrite the log of a Follower at the request of the Leader of its term  *)
(* (Obeys); a Leader appends to its own log (Writes); a server becomes     *)
(* Leader (Wins).                                                          *)
(***************************************************************************)

\* Server s has a new log, and has lost nothing it had in common with the
\* Leader of the term it is in now.
Rewrites(s) ==
    LET M == leaderLog[currentTerm'[s]]
    IN  /\ currentTerm'[s] \in DOMAIN leaderLog
        /\ Traced(leaderLog, log'[s], currentTerm'[s])
        /\ \A m \in Nat : Agree(log[s], M, m) => Agree(log'[s], M, m)

Obeys ==
    /\ elections' = elections
    /\ \A s \in Server :
           /\ currentTerm[s] <= currentTerm'[s]
           /\ state'[s] = "Leader" =>
                  /\ state[s] = "Leader" /\ currentTerm'[s] = currentTerm[s]
                  /\ log'[s] = log[s]
           /\ log'[s] = log[s] \/ Rewrites(s)

Writes(n) ==
    /\ state[n] = "Leader"
    /\ \E e \in Entry : /\ e.term = currentTerm[n]
                        /\ log' = [log EXCEPT ![n] = Append(@, e)]
    /\ UNCHANGED <<currentTerm, state, elections>>

Wins(n) ==
    /\ ~ Won(n, currentTerm'[n])
    /\ state' = [state EXCEPT ![n] = "Leader"]
    /\ \E V \in SUBSET Server :
           elections' = elections \cup
               {[term |-> currentTerm'[n], leader |-> n, votes |-> V]}
    /\ currentTerm[n] <= currentTerm'[n]
    /\ \A s \in Server : s # n => currentTerm'[s] = currentTerm[s]
    /\ log' = log

\* What RecordHistory writes: the log of whoever leads a term, and what was
\* there for a term that nobody leads any more.
LEMMA Recorded ==
    ASSUME TypeOK', ElectionInv', RecordHistory
    PROVE  /\ DOMAIN leaderLog' = WonTerms'
           /\ \A n \in Server : state'[n] = "Leader" =>
                  /\ currentTerm'[n] \in WonTerms'
                  /\ leaderLog'[currentTerm'[n]] = log'[n]
           /\ \A t \in WonTerms' :
                  (\A n \in Server : ~ (state'[n] = "Leader" /\ currentTerm'[n] = t))
                      => leaderLog'[t] = leaderLog[t]
<1>1. leaderLog' = [t \in WonTerms' |->
           IF \E n \in Server : state'[n] = "Leader" /\ currentTerm'[n] = t
           THEN log'[CHOOSE n \in Server : state'[n] = "Leader" /\ currentTerm'[n] = t]
           ELSE leaderLog[t]]
    BY DEF RecordHistory, Leads
<1>2. ASSUME NEW n \in Server, state'[n] = "Leader"
      PROVE  currentTerm'[n] \in WonTerms' /\ leaderLog'[currentTerm'[n]] = log'[n]
    <2>. DEFINE t == currentTerm'[n]
                m == CHOOSE k \in Server : state'[k] = "Leader" /\ currentTerm'[k] = t
    <2>1. m \in Server /\ state'[m] = "Leader" /\ currentTerm'[m] = t
        BY <1>2
    <2>2. /\ \E e \in elections' : e.term = t /\ e.leader = n
          /\ \E e \in elections' : e.term = t /\ e.leader = m
        BY <1>2, <2>1 DEF ElectionInv, LoopInv, Won
    <2>3. m = n
        BY <2>2 DEF ElectionInv, ElectionSafety
    <2>4. t \in WonTerms'
        BY <2>2 DEF WonTerms
    <2>. QED
        BY <1>1, <1>2, <2>3, <2>4
<1>. QED
    BY <1>1, <1>2

LEMMA Obeying ==
    ASSUME TypeOK, TypeOK', ElectionInv', TraceInv, RecordHistory, Obeys
    PROVE  leaderLog' = leaderLog /\ TraceInv'
<1>1. WonTerms' = WonTerms
    BY DEF Obeys, WonTerms
<1>2. DOMAIN leaderLog' = DOMAIN leaderLog /\ DOMAIN leaderLog = WonTerms
    BY <1>1, Recorded DEF TraceInv
<1>3. ASSUME NEW t \in WonTerms PROVE leaderLog'[t] = leaderLog[t]
    <2>1. CASE \E n \in Server : state'[n] = "Leader" /\ currentTerm'[n] = t
        <3>1. PICK n \in Server : state'[n] = "Leader" /\ currentTerm'[n] = t
            BY <2>1
        <3>2. leaderLog'[t] = log'[n]
            BY <3>1, Recorded
        <3>3. state[n] = "Leader" /\ currentTerm[n] = t /\ log'[n] = log[n]
            BY <3>1 DEF Obeys
        <3>. QED
            BY <3>2, <3>3 DEF TraceInv
    <2>2. CASE ~ \E n \in Server : state'[n] = "Leader" /\ currentTerm'[n] = t
        BY <1>1, <2>2, Recorded
    <2>. QED
        BY <2>1, <2>2
<1>4. leaderLog' = leaderLog
    <2>1. leaderLog' = [t \in WonTerms |-> leaderLog'[t]]
        <3>1. leaderLog' = [t \in DOMAIN leaderLog' |-> leaderLog'[t]]
            BY DEF RecordHistory
        <3>. QED
            BY <1>2, <3>1
    <2>2. leaderLog = [t \in WonTerms |-> leaderLog[t]]
        BY <1>2 DEF TraceInv, Ledger
    <2>. QED
        BY <1>3, <2>1, <2>2
<1>5. ASSUME NEW s \in Server
      PROVE  Traced(leaderLog, log'[s], currentTerm'[s])
    <2>1. /\ Traced(leaderLog, log[s], currentTerm[s])
          /\ currentTerm[s] <= currentTerm'[s]
          /\ log[s] \in Seq(Entry) /\ currentTerm[s] \in Nat
          /\ currentTerm'[s] \in Nat
        BY DEF TraceInv, Obeys, TypeOK
    <2>2. CASE log'[s] = log[s]
        BY <2>1, <2>2, EntryTerm DEF Traced
    <2>3. CASE Rewrites(s)
        BY <2>3 DEF Rewrites
    <2>. QED
        BY <2>2, <2>3 DEF Obeys
<1>6. \A s \in Server :
          state'[s] = "Leader" => leaderLog'[currentTerm'[s]] = log'[s]
    BY Recorded
<1>. QED
    BY <1>1, <1>2, <1>4, <1>5, <1>6 DEF TraceInv

\* A Leader appends: its last log grows by an entry of its term.
LEMMA Writing ==
    ASSUME TypeOK, TypeOK', ElectionInv, ElectionInv', TraceInv, RecordHistory,
           NEW n \in Server, Writes(n)
    PROVE  Grows(leaderLog, leaderLog') /\ TraceInv'
<1>. DEFINE T == currentTerm[n]
<1>1. PICK e \in Entry : e.term = T /\ log' = [log EXCEPT ![n] = Append(@, e)]
    BY DEF Writes
<1>2. /\ UNCHANGED <<currentTerm, state, elections>>
      /\ state[n] = "Leader" /\ T \in Nat /\ log[n] \in Seq(Entry)
    BY DEF Writes, TypeOK
<1>3. /\ WonTerms' = WonTerms /\ DOMAIN leaderLog' = WonTerms
      /\ DOMAIN leaderLog = WonTerms /\ T \in WonTerms
    BY <1>2, Recorded DEF WonTerms, TraceInv
<1>4. leaderLog[T] = log[n] /\ leaderLog'[T] = Append(log[n], e)
    BY <1>1, <1>2, Recorded DEF TraceInv, TypeOK
<1>5. /\ Append(log[n], e) \in Seq(Entry)
      /\ Len(Append(log[n], e)) = Len(log[n]) + 1
      /\ \A k \in 1..Len(log[n]) : Append(log[n], e)[k] = log[n][k]
      /\ Append(log[n], e)[Len(log[n]) + 1] = e
    BY <1>2, AppendProperties
<1>6. ASSUME NEW t \in WonTerms, t # T PROVE leaderLog'[t] = leaderLog[t]
    <2>1. CASE \E m \in Server : state[m] = "Leader" /\ currentTerm[m] = t
        <3>1. PICK m \in Server : state[m] = "Leader" /\ currentTerm[m] = t
            BY <2>1
        <3>2. leaderLog'[t] = log'[m] /\ leaderLog[t] = log[m] /\ m # n
            BY <1>2, <1>6, <3>1, Recorded DEF TraceInv
        <3>. QED
            BY <1>1, <3>2 DEF TypeOK
    <2>2. CASE ~ \E m \in Server : state[m] = "Leader" /\ currentTerm[m] = t
        BY <1>2, <1>3, <2>2, Recorded
    <2>. QED
        BY <2>1, <2>2
<1>7. \A t \in WonTerms : leaderLog'[t] \in Seq(Entry)
    BY <1>3, <1>4, <1>5, <1>6 DEF TraceInv, Ledger
<1>8. Grows(leaderLog, leaderLog')
    <2>. SUFFICES ASSUME NEW t \in WonTerms
                  PROVE  /\ Agree(leaderLog[t], leaderLog'[t], Len(leaderLog[t]))
                         /\ \A k \in (Len(leaderLog[t]) + 1)..Len(leaderLog'[t]) :
                                leaderLog'[t][k].term = t
        BY <1>3 DEF Grows
    <2>1. leaderLog[t] \in Seq(Entry)
        BY <1>3 DEF TraceInv, Ledger
    <2>2. CASE t = T
        <3>. DEFINE b == Append(log[n], e)
        <3>1. leaderLog[t] = log[n] /\ leaderLog'[t] = b
            BY <1>4, <2>2
        <3>2. \A k \in (Len(log[n]) + 1)..Len(b) : b[k].term = t
            BY <1>1, <1>2, <1>5, <2>2
        <3>3. Agree(log[n], b, Len(log[n]))
            BY <1>2, <1>5 DEF Agree
        <3>. QED
            BY <3>1, <3>2, <3>3
    <2>3. CASE t # T
        BY <1>6, <2>1, <2>3 DEF Agree
    <2>. QED
        BY <2>2, <2>3
<1>9. Ledger(leaderLog)
    BY DEF TraceInv
<1>10. ASSUME NEW a \in Seq(Entry), NEW u \in Nat, Traced(leaderLog, a, u)
       PROVE  Traced(leaderLog', a, u)
    BY <1>3, <1>7, <1>8, <1>9, <1>10, TracedGrows
<1>11. Traced(leaderLog', Append(log[n], e), T)
    <2>. DEFINE b == Append(log[n], e)
    <2>0. Traced(leaderLog', log[n], T)
        BY <1>2, <1>10 DEF TraceInv
    <2>. HIDE DEF T
    <2>. SUFFICES ASSUME NEW k \in 1..Len(b)
                  PROVE  /\ b[k].term \in DOMAIN leaderLog'
                         /\ b[k].term <= T
                         /\ Agree(b, leaderLog'[b[k].term], k)
        BY DEF Traced
    <2>1. CASE k = Len(log[n]) + 1
        <3>1. b[k].term = T /\ leaderLog'[T] = b
            BY <1>1, <1>4, <1>5, <2>1
        <3>. QED
            BY <1>2, <1>3, <1>5, <3>1 DEF Agree
    <2>2. CASE k # Len(log[n]) + 1
        <3>1. k \in 1..Len(log[n]) /\ b[k] = log[n][k]
            BY <1>2, <1>5, <2>2
        <3>2. /\ b[k].term \in DOMAIN leaderLog'
              /\ b[k].term <= T
              /\ Agree(log[n], leaderLog'[b[k].term], k)
            BY <2>0, <3>1 DEF Traced
        <3>3. Agree(b, log[n], k)
            BY <1>2, <1>5, <3>1 DEF Agree
        <3>4. leaderLog'[b[k].term] \in Seq(Entry)
            BY <1>3, <1>7, <3>2
        <3>. QED
            <4>1. k \in Nat /\ b \in Seq(Entry) /\ log[n] \in Seq(Entry)
                BY <1>2, <1>5, <3>1
            <4>. HIDE DEF b
            <4>2. Agree(b, leaderLog'[b[k].term], k)
                BY <3>2, <3>3, <3>4, <4>1, AgreeTrans
            <4>. QED
                BY <3>2, <4>2
    <2>. QED
        BY <2>1, <2>2
<1>12. Ledger(leaderLog')
    <2>1. DOMAIN leaderLog' \subseteq Nat
        BY <1>3, <1>9 DEF Ledger
    <2>2. leaderLog' \in [DOMAIN leaderLog' -> Seq(Entry)]
        BY <1>3, <1>7 DEF RecordHistory
    <2>3. \A t \in DOMAIN leaderLog' : Traced(leaderLog', leaderLog'[t], t)
        <3>. SUFFICES ASSUME NEW t \in WonTerms
                      PROVE  Traced(leaderLog', leaderLog'[t], t)
            BY <1>3
        <3>1. CASE t = T
            BY <1>4, <1>11, <3>1
        <3>2. CASE t # T
            BY <1>3, <1>6, <1>9, <1>10, <2>1, <3>2 DEF Ledger
        <3>. QED
            BY <3>1, <3>2
    <2>. QED
        BY <2>1, <2>2, <2>3 DEF Ledger
<1>13. \A s \in Server : Traced(leaderLog', log'[s], currentTerm'[s])
    <2>. SUFFICES ASSUME NEW s \in Server
                  PROVE  Traced(leaderLog', log'[s], currentTerm[s])
        BY <1>2
    <2>1. CASE s = n
        BY <1>1, <1>11, <2>1 DEF TypeOK
    <2>2. CASE s # n
        <3>1. log'[s] = log[s] /\ log[s] \in Seq(Entry) /\ currentTerm[s] \in Nat
            BY <1>1, <2>2 DEF TypeOK
        <3>. QED
            BY <1>10, <3>1 DEF TraceInv
    <2>. QED
        BY <2>1, <2>2
<1>. QED
    BY <1>3, <1>8, <1>12, <1>13, Recorded DEF TraceInv

\* A candidate wins: its log is that of a term that had none.
LEMMA Gaining ==
    ASSUME TypeOK, TypeOK', ElectionInv, ElectionInv', TraceInv, RecordHistory,
           NEW n \in Server, Wins(n)
    PROVE  /\ Grows(leaderLog, leaderLog') /\ TraceInv'
           /\ currentTerm'[n] \notin WonTerms
           /\ WonTerms' = WonTerms \cup {currentTerm'[n]}
           /\ \A t \in WonTerms : leaderLog'[t] = leaderLog[t]
           /\ leaderLog'[currentTerm'[n]] = log[n]
<1>. DEFINE T == currentTerm'[n]
<1>1. PICK V \in SUBSET Server :
          elections' = elections \cup {[term |-> T, leader |-> n, votes |-> V]}
    BY DEF Wins
<1>2. /\ log' = log /\ state'[n] = "Leader" /\ T \in Nat
      /\ log[n] \in Seq(Entry) /\ currentTerm[n] \in Nat /\ currentTerm[n] <= T
      /\ \A s \in Server : s # n =>
             state'[s] = state[s] /\ currentTerm'[s] = currentTerm[s]
    BY DEF Wins, TypeOK
<1>3. T \notin WonTerms
    <2>. SUFFICES ASSUME NEW e \in elections, e.term = T PROVE FALSE
        BY DEF WonTerms
    <2>. DEFINE f == [term |-> T, leader |-> n, votes |-> V]
    <2>1. e \in elections' /\ f \in elections' /\ f.term = T /\ f.leader = n
        BY <1>1
    <2>2. e.leader = n
        BY <2>1 DEF ElectionInv, ElectionSafety
    <2>. QED
        BY <2>2 DEF Wins, Won
<1>4. WonTerms' = WonTerms \cup {T}
    <2>. DEFINE f == [term |-> T, leader |-> n, votes |-> V]
    <2>1. f.term = T /\ elections' = elections \cup {f}
        BY <1>1
    <2>. HIDE DEF f
    <2>. QED
        BY <2>1 DEF WonTerms
<1>5. DOMAIN leaderLog' = WonTerms' /\ DOMAIN leaderLog = WonTerms
    BY Recorded DEF TraceInv
<1>6. leaderLog'[T] = log[n]
    BY <1>2, Recorded
<1>7. ASSUME NEW t \in WonTerms PROVE leaderLog'[t] = leaderLog[t]
    <2>1. CASE \E m \in Server : state'[m] = "Leader" /\ currentTerm'[m] = t
        <3>1. PICK m \in Server : state'[m] = "Leader" /\ currentTerm'[m] = t
            BY <2>1
        <3>2. m # n /\ state[m] = "Leader" /\ currentTerm[m] = t
            BY <1>2, <1>3, <3>1
        <3>. QED
            BY <1>2, <3>1, <3>2, Recorded DEF TraceInv
    <2>2. CASE ~ \E m \in Server : state'[m] = "Leader" /\ currentTerm'[m] = t
        BY <1>4, <2>2, Recorded
    <2>. QED
        BY <2>1, <2>2
<1>8. Ledger(leaderLog)
    BY DEF TraceInv
<1>. HIDE DEF T
<1>9. \A t \in WonTerms : leaderLog[t] \in Seq(Entry) /\ t \in Nat
    BY <1>5, <1>8 DEF Ledger
<1>10. Grows(leaderLog, leaderLog')
    <2>. SUFFICES ASSUME NEW t \in WonTerms
                  PROVE  /\ Agree(leaderLog[t], leaderLog'[t], Len(leaderLog[t]))
                         /\ \A k \in (Len(leaderLog[t]) + 1)..Len(leaderLog'[t]) :
                                leaderLog'[t][k].term = t
        BY <1>4, <1>5 DEF Grows
    <2>. QED
        BY <1>7, <1>9 DEF Agree
<1>11. ASSUME NEW a \in Seq(Entry), NEW u \in Nat, NEW w \in Nat, u <= w,
              Traced(leaderLog, a, u)
       PROVE  Traced(leaderLog', a, w)
    BY <1>5, <1>7, <1>8, <1>9, <1>10, <1>11, TracedGrows
<1>12. Ledger(leaderLog')
    <2>1. DOMAIN leaderLog' \subseteq Nat
        BY <1>2, <1>4, <1>5, <1>9
    <2>2. leaderLog' \in [DOMAIN leaderLog' -> Seq(Entry)]
        BY <1>2, <1>4, <1>5, <1>6, <1>7, <1>9 DEF RecordHistory
    <2>3. ASSUME NEW t \in WonTerms \cup {T}
          PROVE  Traced(leaderLog', leaderLog'[t], t)
        <3>1. CASE t = T
            BY <1>2, <1>6, <1>11, <3>1 DEF TraceInv
        <3>2. CASE t # T
            <4>1. t \in WonTerms /\ Traced(leaderLog, leaderLog[t], t)
                BY <1>5, <1>8, <2>3, <3>2 DEF Ledger
            <4>2. t <= t
                BY <1>9, <4>1
            <4>. QED
                BY <1>7, <1>9, <1>11, <4>1, <4>2
        <3>. QED
            BY <3>1, <3>2
    <2>. QED
        BY <1>4, <1>5, <2>1, <2>2, <2>3 DEF Ledger
<1>13. ASSUME NEW s \in Server PROVE Traced(leaderLog', log'[s], currentTerm'[s])
    <2>1. /\ log[s] \in Seq(Entry) /\ currentTerm[s] \in Nat
          /\ currentTerm'[s] \in Nat /\ currentTerm[s] <= currentTerm'[s]
          /\ Traced(leaderLog, log[s], currentTerm[s])
        <3>1. /\ log[s] \in Seq(Entry) /\ currentTerm[s] \in Nat
              /\ currentTerm'[s] \in Nat /\ Traced(leaderLog, log[s], currentTerm[s])
            BY DEF TypeOK, TraceInv
        <3>2. currentTerm[s] <= currentTerm'[s]
            BY <1>2, <3>1 DEF T
        <3>. QED
            BY <3>1, <3>2
    <2>. QED
        BY <1>2, <1>11, <2>1
<1>. QED
    BY <1>3, <1>4, <1>5, <1>6, <1>7, <1>10, <1>12, <1>13, Recorded DEF TraceInv, T

\* A step of one of the three kinds.
LogStep == Obeys \/ \E n \in Server : Writes(n) \/ Wins(n)

\* All of them keep the logs traced and let the Leaders' logs grow.
LEMMA Growing ==
    ASSUME TypeOK, TypeOK', ElectionInv, ElectionInv', TraceInv, RecordHistory,
           LogStep
    PROVE  /\ TraceInv' /\ Grows(leaderLog, leaderLog')
           /\ \A t \in DOMAIN leaderLog : leaderLog'[t] \in Seq(Entry)
           /\ \A s \in Server : currentTerm[s] <= currentTerm'[s]
<1>1. TraceInv' /\ Grows(leaderLog, leaderLog')
    <2>1. CASE Obeys
        <3>1. leaderLog' = leaderLog /\ TraceInv'
            BY <2>1, Obeying
        <3>2. \A t \in DOMAIN leaderLog : leaderLog[t] \in Seq(Entry)
            BY DEF TraceInv, Ledger
        <3>3. Grows(leaderLog, leaderLog)
            BY <3>2 DEF Grows, Agree
        <3>. QED
            BY <3>1, <3>3
    <2>2. ASSUME NEW n \in Server, Writes(n)
          PROVE  TraceInv' /\ Grows(leaderLog, leaderLog')
        BY <2>2, Writing
    <2>3. ASSUME NEW n \in Server, Wins(n)
          PROVE  TraceInv' /\ Grows(leaderLog, leaderLog')
        BY <2>3, Gaining
    <2>. QED
        BY <2>1, <2>2, <2>3 DEF LogStep
<1>2. \A t \in DOMAIN leaderLog : leaderLog'[t] \in Seq(Entry)
    BY <1>1 DEF TraceInv, Ledger, Grows
<1>3. ASSUME NEW s \in Server PROVE currentTerm[s] <= currentTerm'[s]
    <2>1. currentTerm[s] \in Nat
        BY DEF TypeOK
    <2>. QED
        BY <2>1 DEF LogStep, Obeys, Writes, Wins
<1>. QED
    BY <1>1, <1>2, <1>3

\* None of them takes from a peer what it holds of a Leader's log.
LEMMA Holding ==
    ASSUME TypeOK, TypeOK', ElectionInv, ElectionInv', TraceInv, RecordHistory,
           LogStep, NEW p \in Server, NEW t \in WonTerms, NEW m \in Nat,
           Holds(p, t, m)
    PROVE  Holds(p, t, m)'
<1>. SUFFICES ASSUME m > 0
              PROVE  /\ t <= currentTerm'[p]
                     /\ m <= Len(leaderLog'[t])
                     /\ currentTerm'[p] = t => Agree(log'[p], leaderLog'[t], m)
    BY DEF Holds
<1>1. /\ t <= currentTerm[p] /\ m <= Len(leaderLog[t])
      /\ currentTerm[p] = t => Agree(log[p], leaderLog[t], m)
    BY DEF Holds
<1>2. /\ currentTerm[p] \in Nat /\ currentTerm'[p] \in Nat
      /\ log[p] \in Seq(Entry) /\ log'[p] \in Seq(Entry)
      /\ currentTerm[p] <= currentTerm'[p]
    BY Growing DEF TypeOK
<1>3. /\ t \in DOMAIN leaderLog /\ t \in Nat /\ leaderLog[t] \in Seq(Entry)
      /\ leaderLog'[t] \in Seq(Entry)
    BY Growing DEF TraceInv, Ledger
<1>4. Agree(leaderLog[t], leaderLog'[t], m)
    <2>1. Agree(leaderLog[t], leaderLog'[t], Len(leaderLog[t]))
        BY <1>3, Growing DEF Grows
    <2>. QED
        BY <1>1, <1>3, <2>1, AgreePrefix
<1>5. t <= currentTerm'[p] /\ m <= Len(leaderLog'[t])
    BY <1>1, <1>2, <1>3, <1>4 DEF Agree
<1>6. ASSUME currentTerm'[p] = t PROVE Agree(log'[p], leaderLog'[t], m)
    <2>1. currentTerm[p] = t /\ Agree(log[p], leaderLog[t], m)
        BY <1>1, <1>2, <1>3, <1>6
    <2>2. Agree(log'[p], leaderLog[t], m)
        <3>1. CASE log'[p] = log[p]
            BY <2>1, <3>1
        <3>2. CASE Obeys /\ log'[p] # log[p]
            BY <1>6, <2>1, <3>2 DEF Obeys, Rewrites
        <3>3. ASSUME NEW n \in Server, Writes(n), log'[p] # log[p]
              PROVE  Agree(log'[p], leaderLog[t], m)
            <4>1. PICK e \in Entry : log' = [log EXCEPT ![n] = Append(@, e)]
                BY <3>3 DEF Writes
            <4>2. p = n /\ log'[p] = Append(log[p], e)
                BY <3>3, <4>1 DEF TypeOK
            <4>3. Agree(Append(log[p], e), log[p], m)
                <5>1. /\ Len(Append(log[p], e)) = Len(log[p]) + 1
                      /\ \A j \in 1..Len(log[p]) : Append(log[p], e)[j] = log[p][j]
                    BY <1>2, AppendProperties
                <5>2. m <= Len(log[p]) /\ Len(log[p]) \in Nat
                    BY <1>2, <2>1 DEF Agree
                <5>. QED
                    BY <5>1, <5>2 DEF Agree
            <4>4. Append(log[p], e) \in Seq(Entry)
                BY <1>2, <4>2
            <4>5. Agree(Append(log[p], e), leaderLog[t], m)
                BY <1>2, <1>3, <2>1, <4>3, <4>4, AgreeTrans
            <4>. QED
                BY <4>2, <4>5
        <3>4. (\E n \in Server : Wins(n)) => log' = log
            BY DEF Wins
        <3>. QED
            BY <3>1, <3>2, <3>3, <3>4 DEF LogStep
    <2>. QED
        BY <1>2, <1>3, <1>4, <2>2, AgreeTrans
<1>. QED
    BY <1>5, <1>6

-----------------------------------------------------------------------------
(* Every step is of one of the three kinds *)

\* A candidate leaves its log alone and its term too, until it stands again;
\* who wins an election is at the top of runLeader.
Candidacy ==
    /\ \A s \in Server : loop'[s] = "candidate" =>
           /\ log'[s] = log[s]
           /\ \/ loop[s] = "candidate" /\ currentTerm'[s] = currentTerm[s]
              \/ currentTerm'[s] = currentTerm[s] + 1
    /\ \A e \in elections' : e \in elections \/ loop'[e.leader] = "starting"

\* A step that touches no log and makes nobody Leader.
LEMMA Plain ==
    ASSUME TypeOK, NEW n \in Server, NEW t \in Nat, NEW st, NEW lp,
           currentTerm[n] <= t,
           currentTerm' = [currentTerm EXCEPT ![n] = t],
           state' = [state EXCEPT ![n] = st], loop' = [loop EXCEPT ![n] = lp],
           log' = log, elections' = elections,
           st = "Leader" => state[n] = "Leader" /\ t = currentTerm[n],
           lp = "candidate" =>
               \/ loop[n] = "candidate" /\ t = currentTerm[n]
               \/ t = currentTerm[n] + 1
    PROVE  LogStep /\ Candidacy
<1>1. \A s \in Server : currentTerm[s] \in Nat
    BY DEF TypeOK
<1>2. /\ currentTerm'[n] = t /\ state'[n] = st /\ loop'[n] = lp
      /\ \A s \in Server : s # n => /\ currentTerm'[s] = currentTerm[s]
                                  /\ state'[s] = state[s] /\ loop'[s] = loop[s]
    BY DEF TypeOK
<1>3. Obeys /\ Candidacy
    BY <1>1, <1>2 DEF Obeys, Candidacy
<1>. QED
    BY <1>3 DEF LogStep

\* A Follower rewrites its log at the request of its Leader.
LEMMA Rewriting ==
    ASSUME TypeOK, NEW n \in Server, NEW t \in Nat, NEW r,
           currentTerm[n] <= t, t \in DOMAIN leaderLog,
           currentTerm' = [currentTerm EXCEPT ![n] = t],
           state' = [state EXCEPT ![n] = "Follower"],
           loop' = [loop EXCEPT ![n] = "follower"],
           log' = [log EXCEPT ![n] = r], elections' = elections,
           Traced(leaderLog, r, t),
           \A m \in Nat : Agree(log[n], leaderLog[t], m)
                              => Agree(r, leaderLog[t], m)
    PROVE  LogStep /\ Candidacy
<1>1. \A s \in Server : currentTerm[s] \in Nat
    BY DEF TypeOK
<1>2. currentTerm'[n] = t /\ log'[n] = r /\ state'[n] = "Follower"
    BY DEF TypeOK
<1>3. Rewrites(n)
    BY <1>2 DEF Rewrites
<1>4. Obeys
    <2>. SUFFICES ASSUME NEW s \in Server
                  PROVE  /\ currentTerm[s] <= currentTerm'[s]
                         /\ state'[s] = "Leader" =>
                                /\ state[s] = "Leader"
                                /\ currentTerm'[s] = currentTerm[s]
                                /\ log'[s] = log[s]
                         /\ log'[s] = log[s] \/ Rewrites(s)
        BY DEF Obeys
    <2>1. CASE s = n
        BY <1>2, <1>3, <2>1
    <2>2. CASE s # n
        BY <1>1, <2>2 DEF TypeOK
    <2>. QED
        BY <2>1, <2>2
<1>5. Candidacy
    BY DEF Candidacy, TypeOK
<1>. QED
    BY <1>4, <1>5 DEF LogStep

\* Winning is Wins.
LEMMA Becoming ==
    ASSUME TypeOK, NEW n \in Server, NEW t \in Nat, NEW V \in SUBSET Server,
           currentTerm[n] <= t, ~ Won(n, t),
           currentTerm' = [currentTerm EXCEPT ![n] = t],
           BecomeLeader(n, t, V), log' = log
    PROVE  LogStep /\ Candidacy
<1>1. currentTerm'[n] = t /\ \A s \in Server : s # n => currentTerm'[s] = currentTerm[s]
    BY DEF TypeOK
<1>2. /\ state' = [state EXCEPT ![n] = "Leader"]
      /\ loop' = [loop EXCEPT ![n] = "starting"]
      /\ elections' = elections \cup {[term |-> t, leader |-> n, votes |-> V]}
    BY DEF BecomeLeader
<1>3. Wins(n)
    BY <1>1, <1>2 DEF Wins
<1>4. Candidacy
    BY <1>1, <1>2 DEF Candidacy, TypeOK
<1>. QED
    BY <1>3, <1>4 DEF LogStep

\* FollowLeader: a Follower of the request's term, in runFollower.
LEMMA FollowedLeader ==
    ASSUME TypeOK, NEW n \in Server, NEW c \in calls, FollowLeader(n, c.req)
    PROVE  /\ c.req.term \in Nat /\ currentTerm[n] <= c.req.term
           /\ currentTerm' = [currentTerm EXCEPT ![n] = c.req.term]
           /\ state' = [state EXCEPT ![n] = "Follower"]
           /\ loop' = [loop EXCEPT ![n] = "follower"]
<1>1. c.req.term \in Nat /\ currentTerm[n] \in Nat /\ currentTerm[n] <= c.req.term
    BY DEF FollowLeader, TypeOK, Call, AppendReq
<1>2. loop' = [loop EXCEPT ![n] = "follower"]
    BY DEF FollowLeader, Reenter
<1>3. /\ currentTerm' = [currentTerm EXCEPT ![n] = c.req.term]
      /\ state' = [state EXCEPT ![n] = "Follower"]
    <2>1. CASE StepDown(n, c.req.term, c.req.from)
        BY <2>1 DEF StepDown
    <2>2. CASE /\ c.req.term = currentTerm[n] /\ state[n] = "Follower"
               /\ UNCHANGED <<currentTerm, votedFor, state>>
        BY <2>2 DEF TypeOK
    <2>. QED
        BY <2>1, <2>2 DEF FollowLeader
<1>. QED
    BY <1>1, <1>2, <1>3

LEMMA Kinds ==
    ASSUME RacyStepDown = FALSE, TypeOK, ElectionInv, TraceInv, FreshInv,
           RequestInv, [Next]_vars
    PROVE  LogStep /\ Candidacy
<1>0. \A s \in Server : /\ currentTerm[s] \in Nat /\ currentTerm[s] <= currentTerm[s]
                        /\ ~ Won(s, currentTerm[s] + 1)
    <2>1. \A e \in elections : e.term \in Nat /\ e.term <= currentTerm[e.leader]
        BY DEF ElectionInv, WinnerInv, TypeOK
    <2>2. \A s \in Server : currentTerm[s] \in Nat
        BY DEF TypeOK
    <2>. QED
        BY <2>1, <2>2 DEF Won
<1>1. ASSUME NEW n \in Server, ElectionTimeout(n) PROVE LogStep /\ Candidacy
    <2>. DEFINE t == currentTerm[n] + 1
    <2>1. /\ currentTerm' = [currentTerm EXCEPT ![n] = t] /\ log' = log
          /\ t \in Nat /\ currentTerm[n] <= t
        BY <1>0, <1>1 DEF ElectionTimeout
    <2>2. CASE BecomeLeader(n, t, {n})
        <3>1. ~ Won(n, t) /\ {n} \in SUBSET Server
            BY <1>0
        <3>. QED
            BY <2>1, <2>2, <3>1, Becoming
    <2>3. CASE /\ state' = [state EXCEPT ![n] = "Candidate"]
               /\ loop' = [loop EXCEPT ![n] = "candidate"]
               /\ UNCHANGED elections
        BY <2>1, <2>3, Plain
    <2>. QED
        BY <1>1, <2>2, <2>3 DEF ElectionTimeout
<1>2. ASSUME NEW n \in Server, CandidateGivesUp(n) PROVE LogStep /\ Candidacy
    <2>1. /\ UNCHANGED <<currentTerm, state, log, elections>>
          /\ loop' = [loop EXCEPT ![n] = "follower"]
        BY <1>2 DEF CandidateGivesUp, Reenter, persistent
    <2>2. /\ currentTerm' = [currentTerm EXCEPT ![n] = currentTerm[n]]
          /\ state' = [state EXCEPT ![n] = state[n]]
        BY <2>1 DEF TypeOK
    <2>. QED
        BY <1>0, <2>1, <2>2, Plain
<1>3. ASSUME NEW n \in Server, NEW m \in voteReqs, HandleRequestVote(n, m)
      PROVE LogStep /\ Candidacy
    <2>1. m.term \in Nat
        BY DEF TypeOK, VoteReq
    <2>. DEFINE newer == m.term > currentTerm[n]
                t == IF newer THEN m.term ELSE currentTerm[n]
                st == IF newer THEN "Follower" ELSE state[n]
                lp == IF st = "Follower" THEN "follower" ELSE loop[n]
    <2>2. /\ currentTerm' = [currentTerm EXCEPT ![n] = t]
          /\ state' = [state EXCEPT ![n] = st]
          /\ log' = log /\ elections' = elections
        BY <1>3 DEF HandleRequestVote
    <2>3. loop' = [loop EXCEPT ![n] = lp]
        <3>1. state'[n] = st
            BY <2>2 DEF TypeOK
        <3>. QED
            BY <1>3, <3>1 DEF HandleRequestVote, Reenter
    <2>4. /\ t \in Nat /\ currentTerm[n] <= t
          /\ st = "Leader" => state[n] = "Leader" /\ t = currentTerm[n]
          /\ lp = "candidate" => loop[n] = "candidate" /\ t = currentTerm[n]
        BY <1>0, <2>1
    <2>. HIDE DEF t, st, lp
    <2>. QED
        BY <2>2, <2>3, <2>4, Plain
<1>4. ASSUME NEW n \in Server, NEW r \in voteReplies, HandleVoteReply(n, r)
      PROVE LogStep /\ Candidacy
    <2>1. r.term \in Nat /\ r.from \in Server
        BY DEF TypeOK, VoteReply
    <2>2. log' = log /\ loop[n] = "candidate"
        BY <1>4 DEF HandleVoteReply
    <2>3. CASE /\ r.term > currentTerm[n] /\ StepDown(n, r.term, Nil)
               /\ Reenter(n, "Follower") /\ UNCHANGED elections
        <3>1. /\ currentTerm' = [currentTerm EXCEPT ![n] = r.term]
              /\ state' = [state EXCEPT ![n] = "Follower"]
              /\ loop' = [loop EXCEPT ![n] = "follower"]
              /\ currentTerm[n] <= r.term
            BY <1>0, <2>1, <2>3 DEF StepDown, Reenter
        <3>. QED
            BY <2>1, <2>2, <2>3, <3>1, Plain
    <2>4. CASE /\ loop' = [loop EXCEPT
                     ![n] = IF state[n] = "Candidate" THEN @ ELSE "follower"]
               /\ UNCHANGED <<currentTerm, state, elections>>
        <3>. DEFINE lp == IF state[n] = "Candidate" THEN loop[n] ELSE "follower"
        <3>1. /\ currentTerm' = [currentTerm EXCEPT ![n] = currentTerm[n]]
              /\ state' = [state EXCEPT ![n] = state[n]]
              /\ loop' = [loop EXCEPT ![n] = lp]
              /\ elections' = elections
            BY <2>4 DEF TypeOK
        <3>2. lp = "candidate" => loop[n] = "candidate"
            OBVIOUS
        <3>. HIDE DEF lp
        <3>. QED
            BY <1>0, <2>2, <3>1, <3>2, Plain
    <2>5. CASE /\ BecomeLeader(n, currentTerm[n], votes[n] \cup {r.from})
               /\ UNCHANGED currentTerm
        <3>1. /\ currentTerm' = [currentTerm EXCEPT ![n] = currentTerm[n]]
              /\ votes[n] \cup {r.from} \in SUBSET Server
              /\ ~ Won(n, currentTerm[n])
            BY <2>1, <2>2, <2>5 DEF TypeOK, FreshInv
        <3>. QED
            BY <1>0, <2>2, <2>5, <3>1, Becoming
    <2>. QED
        BY <1>4, <2>3, <2>4, <2>5 DEF HandleVoteReply
<1>5. ASSUME UNCHANGED <<currentTerm, state, loop, log, elections>>
      PROVE  LogStep /\ Candidacy
    <2>1. PICK n \in Server : TRUE
        BY ServerAssumption
    <2>2. /\ currentTerm' = [currentTerm EXCEPT ![n] = currentTerm[n]]
          /\ state' = [state EXCEPT ![n] = state[n]]
          /\ loop' = [loop EXCEPT ![n] = loop[n]]
        BY <1>5 DEF TypeOK
    <2>. QED
        BY <1>0, <1>5, <2>2, Plain
<1>6. ASSUME NEW n \in Server, AppendNoOp(n) PROVE LogStep /\ Candidacy
    <2>1. /\ [term |-> currentTerm[n], data |-> NoOp] \in Entry
          /\ state[n] = "Leader"
        BY <1>0, <1>6 DEF AppendNoOp, ElectionInv, LoopInv, Entry
    <2>2. /\ log' = [log EXCEPT
                 ![n] = Append(@, [term |-> currentTerm[n], data |-> NoOp])]
          /\ UNCHANGED <<currentTerm, state, elections>>
          /\ loop' = [loop EXCEPT ![n] = "leader"]
        BY <1>6, <2>1 DEF AppendNoOp
    <2>3. Writes(n)
        BY <2>1, <2>2 DEF Writes
    <2>4. Candidacy
        BY <2>2 DEF Candidacy, TypeOK
    <2>. QED
        BY <2>3, <2>4 DEF LogStep
<1>7. ASSUME NEW n \in Server, NEW v \in Value, HandleApplyRequest(n, v)
      PROVE LogStep /\ Candidacy
    <2>1. UNCHANGED <<currentTerm, state, elections>> /\ loop[n] = "leader"
        BY <1>7 DEF HandleApplyRequest
    <2>2. CASE /\ state[n] = "Leader" /\ UNCHANGED loop
               /\ log' = [log EXCEPT
                     ![n] = Append(@, [term |-> currentTerm[n], data |-> v])]
        <3>1. [term |-> currentTerm[n], data |-> v] \in Entry
            BY <1>0 DEF Entry
        <3>2. Writes(n)
            BY <2>1, <2>2, <3>1 DEF Writes
        <3>3. Candidacy
            BY <2>1, <2>2 DEF Candidacy, TypeOK
        <3>. QED
            BY <3>2, <3>3 DEF LogStep
    <2>3. CASE /\ loop' = [loop EXCEPT ![n] = "follower"] /\ UNCHANGED log
        <3>1. /\ currentTerm' = [currentTerm EXCEPT ![n] = currentTerm[n]]
              /\ state' = [state EXCEPT ![n] = state[n]]
            BY <2>1 DEF TypeOK
        <3>. QED
            BY <1>0, <2>1, <2>3, <3>1, Plain
    <2>. QED
        BY <1>7, <2>2, <2>3 DEF HandleApplyRequest
<1>8. ASSUME NEW n \in Server, NEW c \in calls, HandleAppendEntries(n, c)
      PROVE LogStep /\ Candidacy
    <2>1. elections' = elections /\ c.req.to = n /\ c.req \in AppendReq
        BY <1>8 DEF HandleAppendEntries, TypeOK, Call
    <2>2. CASE RejectAppend(n, c)
        <3>. DEFINE lp == IF state[n] = "Follower" THEN "follower" ELSE loop[n]
        <3>1. /\ UNCHANGED <<currentTerm, state, log>>
              /\ loop' = [loop EXCEPT ![n] = lp]
            BY <2>2 DEF RejectAppend, Reenter, persistent
        <3>2. /\ currentTerm' = [currentTerm EXCEPT ![n] = currentTerm[n]]
              /\ state' = [state EXCEPT ![n] = state[n]]
            BY <3>1 DEF TypeOK
        <3>3. lp = "candidate" => loop[n] = "candidate"
            OBVIOUS
        <3>. HIDE DEF lp
        <3>. QED
            BY <1>0, <2>1, <3>1, <3>2, <3>3, Plain
    <2>3. CASE RefuseAppend(n, c)
        <3>1. FollowLeader(n, c.req) /\ log' = log
            BY <2>3 DEF RefuseAppend
        <3>2. /\ c.req.term \in Nat /\ currentTerm[n] <= c.req.term
              /\ currentTerm' = [currentTerm EXCEPT ![n] = c.req.term]
              /\ state' = [state EXCEPT ![n] = "Follower"]
              /\ loop' = [loop EXCEPT ![n] = "follower"]
            BY <3>1, FollowedLeader
        <3>. QED
            BY <2>1, <3>1, <3>2, Plain
    <2>4. CASE AcceptAppend(n, c)
        <3>. DEFINE r == MergeEntries(log[n], c.req.prevIndex, c.req.entries)
        <3>1. /\ FollowLeader(n, c.req) /\ log' = [log EXCEPT ![n] = r]
              /\ LogConsistent(log[n], c.req.prevIndex, c.req.prevTerm)
            BY <2>4 DEF AcceptAppend
        <3>2. /\ Ledger(leaderLog) /\ log[n] \in Seq(Entry)
              /\ Traced(leaderLog, log[n], currentTerm[n])
              /\ Piece(leaderLog, c.req) /\ c.req.term \in DOMAIN leaderLog
            BY DEF TraceInv, RequestInv, RequestOK, Piece, TypeOK
        <3>3. /\ c.req.term \in Nat /\ currentTerm[n] <= c.req.term
              /\ currentTerm' = [currentTerm EXCEPT ![n] = c.req.term]
              /\ state' = [state EXCEPT ![n] = "Follower"]
              /\ loop' = [loop EXCEPT ![n] = "follower"]
            BY <3>1, FollowedLeader
        <3>4. /\ Traced(leaderLog, r, c.req.term)
              /\ \A m \in Nat : Agree(log[n], leaderLog[c.req.term], m)
                     => Agree(r, leaderLog[c.req.term], m)
            BY <1>0, <2>1, <3>1, <3>2, <3>3, Merging
        <3>. HIDE DEF r
        <3>. QED
            BY <2>1, <3>1, <3>2, <3>3, <3>4, Rewriting
    <2>. QED
        BY <1>8, <2>2, <2>3, <2>4 DEF HandleAppendEntries
<1>9. ASSUME NEW n \in Server, NEW c \in calls, HandleAppendReply(n, c)
      PROVE LogStep /\ Candidacy
    <2>1. UNCHANGED <<log, loop, elections>>
        BY <1>9 DEF HandleAppendReply
    <2>2. CASE ReplyHigherTerm(n, c)
        <3>1. /\ c.reply.term \in Nat /\ currentTerm[n] <= c.reply.term
              /\ currentTerm' = [currentTerm EXCEPT ![n] = c.reply.term]
              /\ state' = [state EXCEPT ![n] = "Follower"]
              /\ loop[n] # "candidate"
            BY <2>2 DEF ReplyHigherTerm, StepDown, TypeOK, Call, AppendReply
        <3>2. loop' = [loop EXCEPT ![n] = loop[n]]
            BY <2>1 DEF TypeOK
        <3>. QED
            BY <2>1, <3>1, <3>2, Plain
    <2>3. CASE ReplySuccess(n, c) \/ ReplyConflict(n, c)
        BY <1>5, <2>1, <2>3 DEF ReplySuccess, ReplyConflict
    <2>. QED
        BY <1>9, <2>2, <2>3 DEF HandleAppendReply
<1>10. ASSUME NEW n \in Server, Restart(n) PROVE LogStep /\ Candidacy
    <2>1. /\ currentTerm' = [currentTerm EXCEPT ![n] = currentTerm[n]]
          /\ state' = [state EXCEPT ![n] = "Follower"]
          /\ loop' = [loop EXCEPT ![n] = "follower"]
          /\ log' = log /\ elections' = elections
        BY <1>10 DEF Restart, Reboot, persistent, TypeOK
    <2>. QED
        BY <1>0, <2>1, Plain
<1>11. ASSUME NEW n \in Server, TornPersist(n) PROVE LogStep /\ Candidacy
    <2>1. PICK t \in TermsOnTheWay(n) \cup {currentTerm[n] + 1} :
              /\ currentTerm[n] < t
              /\ currentTerm' = [currentTerm EXCEPT ![n] = t]
              /\ log' = log /\ Reboot(n, calls)
        BY <1>11 DEF TornPersist
    <2>2. t \in Nat /\ currentTerm[n] <= t
        BY <1>0, <2>1, TermsType
    <2>3. /\ state' = [state EXCEPT ![n] = "Follower"]
          /\ loop' = [loop EXCEPT ![n] = "follower"]
          /\ elections' = elections
        BY <2>1 DEF Reboot
    <2>. QED
        BY <2>1, <2>2, <2>3, Plain
<1>12. ASSUME NEW n \in Server, NEW c \in calls, TornAppend(n, c)
       PROVE LogStep /\ Candidacy
    <2>. DEFINE r == DeleteConflicts(log[n], c.req.prevIndex, c.req.entries)
    <2>1. /\ c.req \in AppendReq /\ c.req.term \in Nat
          /\ currentTerm[n] <= c.req.term
          /\ LogConsistent(log[n], c.req.prevIndex, c.req.prevTerm)
          /\ log' = [log EXCEPT ![n] = r]
          /\ currentTerm' = [currentTerm EXCEPT ![n] = c.req.term]
        BY <1>12 DEF TornAppend, TypeOK, Call, AppendReq
    <2>2. /\ state' = [state EXCEPT ![n] = "Follower"]
          /\ loop' = [loop EXCEPT ![n] = "follower"]
          /\ elections' = elections
        BY <1>12 DEF TornAppend, Reboot
    <2>3. /\ Ledger(leaderLog) /\ log[n] \in Seq(Entry)
          /\ Traced(leaderLog, log[n], currentTerm[n])
          /\ Piece(leaderLog, c.req) /\ c.req.term \in DOMAIN leaderLog
        BY DEF TraceInv, RequestInv, RequestOK, Piece, TypeOK
    <2>4. /\ Traced(leaderLog, r, c.req.term)
          /\ \A m \in Nat : Agree(log[n], leaderLog[c.req.term], m)
                 => Agree(r, leaderLog[c.req.term], m)
        BY <1>0, <2>1, <2>3, Deleting
    <2>. HIDE DEF r
    <2>. QED
        BY <2>1, <2>2, <2>3, <2>4, Rewriting
<1>13. ASSUME \/ UNCHANGED vars
              \/ \E m \in voteReqs : VoteCallFails(m)
              \/ \E c \in calls : CallFails(c)
              \/ \E n, p \in Server : ReplicateOnce(n, p)
       PROVE LogStep /\ Candidacy
    BY <1>5, <1>13 DEF vars, VoteCallFails, CallFails, ReplicateOnce, persistent
<1>. QED
    BY <1>1, <1>2, <1>3, <1>4, <1>6, <1>7, <1>8, <1>9, <1>10, <1>11, <1>12, <1>13
       DEF Next, MainStep, ReplicatorStep, CrashStep

\* Candidates stay fresh.
LEMMA FreshStep ==
    ASSUME TypeOK, TypeOK', ElectionInv, FreshInv, Candidacy
    PROVE  FreshInv'
<1>. SUFFICES ASSUME NEW n \in Server, loop'[n] = "candidate",
                     NEW e \in elections', e.term = currentTerm'[n], e.leader = n
              PROVE  FALSE
    BY DEF FreshInv, Won
<1>1. e \in elections
    BY DEF Candidacy
<1>2. e.term <= currentTerm[n] /\ e.term \in Nat /\ currentTerm[n] \in Nat
    BY <1>1 DEF ElectionInv, WinnerInv, TypeOK
<1>3. loop[n] = "candidate" /\ currentTerm'[n] = currentTerm[n]
    BY <1>2 DEF Candidacy
<1>. QED
    BY <1>1, <1>3 DEF FreshInv, Won

-----------------------------------------------------------------------------
(* Requests and peers *)

\* What holds before and after every step when its requests are looked at.
Around ==
    /\ TypeOK /\ TypeOK' /\ ElectionInv /\ ElectionInv' /\ TraceInv
    /\ RecordHistory /\ LogStep

\* Without an election, who is Leader was so before.
LEMMA LeadersStay ==
    ASSUME TypeOK, LogStep, elections' = elections,
           NEW s \in Server, state'[s] = "Leader"
    PROVE  state[s] = "Leader" /\ currentTerm'[s] = currentTerm[s]
<1>1. ASSUME NEW n \in Server, Wins(n) PROVE FALSE
    <2>1. PICK V \in SUBSET Server :
              elections' = elections \cup
                  {[term |-> currentTerm'[n], leader |-> n, votes |-> V]}
        BY <1>1 DEF Wins
    <2>2. [term |-> currentTerm'[n], leader |-> n, votes |-> V] \in elections
        BY <2>1
    <2>. QED
        BY <1>1, <2>2 DEF Wins, Won
<1>. QED
    BY <1>1 DEF LogStep, Obeys, Writes

\* A Leader's log grows as long as it is Leader.
LEMMA LeaderLonger ==
    ASSUME Around, NEW l \in Server, state[l] = "Leader", state'[l] = "Leader",
           currentTerm'[l] = currentTerm[l]
    PROVE  /\ Len(log[l]) <= Len(log'[l])
           /\ currentTerm[l] \in WonTerms
<1>. DEFINE T == currentTerm[l]
<1>1. leaderLog[T] = log[l] /\ leaderLog'[T] = log'[l]
    BY Recorded DEF Around, TraceInv
<1>2. T \in WonTerms
    BY DEF Around, ElectionInv, LoopInv, Won, WonTerms
<1>3. Agree(leaderLog[T], leaderLog'[T], Len(leaderLog[T]))
    BY <1>2, Growing DEF Around, TraceInv, Grows
<1>. QED
    BY <1>1, <1>2, <1>3 DEF Agree

\* A call whose request is old, with the old reply or a new one.
LEMMA CallKept ==
    ASSUME Around, NEW d \in calls, RequestOK(d), NEW c \in Call,
           c.req = d.req, c.reply.hint.index <= c.req.prevIndex,
           \/ c.reply = d.reply
           \/ c.reply.success => Holds(c.req.to, c.req.term, ReqEnd(c.req))',
           c.status = "live" /\ state'[c.req.from] = "Leader" =>
               /\ d.status = "live" /\ state[c.req.from] = "Leader"
               /\ currentTerm'[c.req.from] = currentTerm[c.req.from]
    PROVE  RequestOK(c)'
<1>1. c.req \in AppendReq /\ c.req.to \in Server
    BY DEF Call, AppendReq
<1>2. Piece(leaderLog, c.req) /\ Ledger(leaderLog)
    BY DEF RequestOK, Around, TraceInv
<1>3. Piece(leaderLog', c.req)
    BY <1>1, <1>2, Growing, PieceGrows DEF Around
<1>4. c.req.term \in WonTerms /\ ReqEnd(c.req) \in Nat
    BY <1>1, <1>2 DEF Piece, Around, TraceInv, AppendReq, ReqEnd
<1>5. c.reply.success => Holds(c.req.to, c.req.term, ReqEnd(c.req))'
    <2>1. CASE c.reply = d.reply
        <3>1. c.reply.success => Holds(c.req.to, c.req.term, ReqEnd(c.req))
            BY <2>1 DEF RequestOK
        <3>. QED
            BY <1>1, <1>4, <3>1, Holding DEF Around
    <2>. QED
        BY <2>1
<1>6. c.status = "live" /\ state'[c.req.from] = "Leader" =>
          c.req.term = currentTerm'[c.req.from]
    BY DEF RequestOK
<1>. QED
    BY <1>3, <1>5, <1>6 DEF RequestOK

\* A step after which there are only old calls, some of them given up.
LEMMA CallsKept ==
    ASSUME Around, RequestInv, elections' = elections,
           \A c \in calls' : \E d \in calls :
               /\ c.req = d.req /\ c.reply = d.reply
               /\ c.status = "live" => d.status = "live"
    PROVE  RequestInv'
<1>. SUFFICES ASSUME NEW c \in calls' PROVE RequestOK(c)'
    BY DEF RequestInv
<1>1. PICK d \in calls : /\ c.req = d.req /\ c.reply = d.reply
                         /\ c.status = "live" => d.status = "live"
    OBVIOUS
<1>2. c \in Call /\ c.req.from \in Server
    BY DEF Around, TypeOK, Call, AppendReq
<1>3. RequestOK(d)
    BY DEF RequestInv
<1>4. c.reply.hint.index <= c.req.prevIndex
    BY <1>1, <1>3 DEF RequestOK
<1>5. state'[c.req.from] = "Leader" =>
          /\ state[c.req.from] = "Leader"
          /\ currentTerm'[c.req.from] = currentTerm[c.req.from]
    BY <1>2, LeadersStay DEF Around
<1>. QED
    BY <1>1, <1>2, <1>3, <1>4, <1>5, CallKept

\* A pair of Leader and peer whose indexes a step leaves alone.
LEMMA PeerKept ==
    ASSUME Around, PeerInv, NEW l \in Server, NEW p \in Server,
           state'[l] = "Leader", state[l] = "Leader",
           currentTerm'[l] = currentTerm[l],
           nextIndex'[l][p] = nextIndex[l][p],
           matchIndex'[l][p] = matchIndex[l][p]
    PROVE  /\ nextIndex'[l][p] <= Len(log'[l]) + 1
           /\ Holds(p, currentTerm[l], matchIndex[l][p])'
<1>1. /\ nextIndex[l][p] <= Len(log[l]) + 1
      /\ Holds(p, currentTerm[l], matchIndex[l][p])
    BY DEF PeerInv
<1>2. /\ Len(log[l]) <= Len(log'[l]) /\ currentTerm[l] \in WonTerms
    BY LeaderLonger
<1>3. /\ Len(log[l]) \in Nat /\ Len(log'[l]) \in Nat
      /\ nextIndex[l][p] \in Nat /\ matchIndex[l][p] \in Nat
    <2>1. /\ log[l] \in Seq(Entry) /\ log'[l] \in Seq(Entry)
          /\ nextIndex[l] \in [Server -> Nat \ {0}]
          /\ matchIndex[l] \in [Server -> Nat]
        BY DEF Around, TypeOK
    <2>. QED
        BY <2>1
<1>4. \A t \in WonTerms, m \in Nat : Holds(p, t, m) => Holds(p, t, m)'
    BY Holding DEF Around
<1>5. nextIndex'[l][p] <= Len(log'[l]) + 1
    BY <1>1, <1>2, <1>3
<1>6. Holds(p, currentTerm[l], matchIndex[l][p])'
    BY <1>1, <1>2, <1>3, <1>4 DEF Holds
<1>. QED
    BY <1>5, <1>6

\* A step that leaves the indexes of the peers alone.
LEMMA PeersKept ==
    ASSUME Around, PeerInv, elections' = elections,
           \A l \in Server : state'[l] = "Leader" =>
               nextIndex'[l] = nextIndex[l] /\ matchIndex'[l] = matchIndex[l]
    PROVE  PeerInv'
<1>. SUFFICES ASSUME NEW l \in Server, NEW p \in Server, state'[l] = "Leader"
              PROVE  /\ nextIndex'[l][p] <= Len(log'[l]) + 1
                     /\ Holds(p, currentTerm[l], matchIndex[l][p])'
    BY DEF PeerInv
<1>1. state[l] = "Leader" /\ currentTerm'[l] = currentTerm[l]
    BY LeadersStay DEF Around
<1>. QED
    BY <1>1, PeerKept

\* The next index after a refusal is within the log when the hint is.
LEMMA BackUpBound ==
    ASSUME NEW lg \in Seq(Entry), NEW hint \in [term : Nat, index : Nat],
           hint.index <= Len(lg) + 1
    PROVE  BackUp(lg, hint) <= Len(lg) + 1
<1>. DEFINE same == {i \in 1..Len(lg) : lg[i].term = hint.term}
<1>1. CASE same # {}
    <2>1. same \in SUBSET (0..Len(lg)) /\ Len(lg) \in Nat
        OBVIOUS
    <2>2. Greatest(same) \in same
        BY <1>1, <2>1, GreatestNat
    <2>. QED
        BY <2>1, <2>2 DEF BackUp
<1>2. CASE same = {}
    BY <1>2 DEF BackUp
<1>. QED
    BY <1>1, <1>2

\* The hint of a refusal is an index that the request reached.
LEMMA HintBound ==
    ASSUME NEW lg \in Seq(Entry), NEW prev \in Nat \ {0}
    PROVE  ConflictHint(lg, prev).index <= prev
<1>1. CASE Len(lg) < prev
    BY <1>1 DEF ConflictHint
<1>2. CASE ~ (Len(lg) < prev)
    <2>. DEFINE t == lg[prev].term
                run == {i \in 1..prev : \A j \in i..prev : lg[j].term = t}
    <2>1. prev \in run /\ run \in SUBSET Nat
        <3>1. prev \in 1..prev /\ \A j \in prev..prev : j = prev
            OBVIOUS
        <3>. QED
            BY <3>1
    <2>2. Least(run) <= prev
        BY <2>1, LeastNat
    <2>. QED
        BY <1>2, <2>2 DEF ConflictHint
<1>. QED
    BY <1>1, <1>2

\* What replicateOnce sends is a piece of the Leader's log, up to its end.
LEMMA Sending ==
    ASSUME TypeOK, ElectionInv, TraceInv, PeerInv, NEW n \in Server,
           NEW p \in Server, state[n] = "Leader"
    PROVE  /\ Piece(leaderLog, AppendRequest(n, p))
           /\ ReqEnd(AppendRequest(n, p)) = Len(log[n])
<1>. DEFINE T == currentTerm[n]
            lg == log[n]
            prev == nextIndex[n][p] - 1
            req == AppendRequest(n, p)
            es == SubSeq(lg, prev + 1, Len(lg))
<1>1. /\ lg \in Seq(Entry) /\ Len(lg) \in Nat /\ prev \in Nat /\ prev <= Len(lg)
    <2>1. nextIndex[n] \in [Server -> Nat \ {0}] /\ lg \in Seq(Entry)
        BY DEF TypeOK
    <2>2. nextIndex[n][p] <= Len(lg) + 1
        BY DEF PeerInv
    <2>. QED
        BY <2>1, <2>2
<1>2. /\ T \in DOMAIN leaderLog /\ leaderLog[T] = lg
    BY DEF ElectionInv, LoopInv, Won, TraceInv, WonTerms
<1>3. /\ req.term = T /\ req.prevIndex = prev /\ req.entries = es
      /\ prev \in 1..Len(lg) => req.prevTerm = lg[prev].term
    BY DEF AppendRequest
<1>. HIDE DEF req, prev, lg, T
<1>4. Len(es) = Len(lg) - prev /\ \A i \in 1..Len(es) : es[i] = lg[prev + i]
    <2>1. \A i \in (prev + 1)..Len(lg) : lg[i] \in Entry
        BY <1>1, ElementOfSeq
    <2>2. prev + 1 \in Int /\ Len(lg) \in Int
        BY <1>1
    <2>3. /\ Len(es) = IF prev + 1 <= Len(lg) THEN Len(lg) - (prev + 1) + 1 ELSE 0
          /\ \A i \in 1..(Len(lg) - (prev + 1) + 1) : es[i] = lg[(prev + 1) + i - 1]
        BY <2>1, <2>2, SubSeqProperties
    <2>4. Len(es) = Len(lg) - prev
        BY <1>1, <2>3
    <2>. HIDE DEF es
    <2>5. ASSUME NEW i \in 1..Len(es) PROVE es[i] = lg[prev + i]
        <3>1. (prev + 1) + i - 1 = prev + i /\ i \in 1..(Len(lg) - (prev + 1) + 1)
            BY <1>1, <2>4
        <3>. QED
            BY <2>3, <3>1
    <2>. QED
        BY <2>4, <2>5
<1>. HIDE DEF es
<1>5. ReqEnd(req) = Len(lg)
    BY <1>1, <1>3, <1>4 DEF ReqEnd
<1>6. req.prevIndex > 0 => req.prevTerm = leaderLog[req.term][req.prevIndex].term
    BY <1>1, <1>2, <1>3
<1>7. \A i \in 1..Len(req.entries) :
          req.entries[i] = leaderLog[req.term][req.prevIndex + i]
    BY <1>2, <1>3, <1>4
<1>8. ReqEnd(req) <= Len(leaderLog[req.term])
    BY <1>1, <1>2, <1>3, <1>5
<1>. QED
    BY <1>2, <1>3, <1>5, <1>6, <1>7, <1>8 DEF Piece, req, lg

\* A Leader that has just won: nobody waits for a reply in its new term, and
\* it has counted nothing yet.
LEMMA NewLeader ==
    ASSUME Around, RequestInv, PeerInv, NEW n \in Server, NEW t \in Nat,
           NEW V, BecomeLeader(n, t, V), log' = log,
           \A s \in Server : s # n => currentTerm'[s] = currentTerm[s]
    PROVE  RequestInv' /\ PeerInv'
<1>1. /\ state' = [state EXCEPT ![n] = "Leader"]
      /\ nextIndex' = [nextIndex EXCEPT ![n] = [p \in Server |-> Len(log[n]) + 1]]
      /\ matchIndex' = [matchIndex EXCEPT ![n] = [p \in Server |-> 0]]
      /\ calls' = {IF c.req.from = n /\ c.status = "live"
                   THEN [c EXCEPT !.status = "orphan"] ELSE c : c \in calls}
    BY DEF BecomeLeader, InitPeers
<1>2. ASSUME NEW c \in calls' PROVE RequestOK(c)'
    <2>1. PICK d \in calls :
              c = IF d.req.from = n /\ d.status = "live"
                  THEN [d EXCEPT !.status = "orphan"] ELSE d
        BY <1>1
    <2>2. /\ c \in Call /\ d \in Call /\ c.req.from \in Server
          /\ c.req = d.req /\ c.reply = d.reply
          /\ c.status = "live" => d.status = "live" /\ d.req.from # n
        BY <2>1 DEF Around, TypeOK, Call, AppendReq
    <2>3. RequestOK(d)
        BY DEF RequestInv
    <2>4. c.reply.hint.index <= c.req.prevIndex
        BY <2>2, <2>3 DEF RequestOK
    <2>5. c.status = "live" =>
              /\ state'[c.req.from] = state[c.req.from]
              /\ currentTerm'[c.req.from] = currentTerm[c.req.from]
        <3>1. \A s \in Server : s # n => state'[s] = state[s]
            BY <1>1 DEF Around, TypeOK
        <3>. QED
            BY <2>2, <3>1
    <2>. QED
        BY <2>2, <2>3, <2>4, <2>5, CallKept
<1>3. ASSUME NEW l \in Server, NEW p \in Server, state'[l] = "Leader"
      PROVE  /\ nextIndex'[l][p] <= Len(log'[l]) + 1
             /\ Holds(p, currentTerm[l], matchIndex[l][p])'
    <2>0. TypeOK
        BY DEF Around
    <2>1. CASE l = n
        <3>1. nextIndex'[l][p] = Len(log[l]) + 1 /\ matchIndex'[l][p] = 0
            BY <1>1, <2>0, <2>1 DEF TypeOK
        <3>2. Len(log[l]) \in Nat
            BY <2>0 DEF TypeOK
        <3>. QED
            BY <3>1, <3>2 DEF Holds
    <2>2. CASE l # n
        <3>1. /\ state'[l] = state[l] /\ currentTerm'[l] = currentTerm[l]
              /\ nextIndex'[l] = nextIndex[l] /\ matchIndex'[l] = matchIndex[l]
            BY <1>1, <2>0, <2>2 DEF TypeOK
        <3>. QED
            BY <1>3, <3>1, PeerKept
    <2>. QED
        BY <2>1, <2>2
<1>. QED
    BY <1>2, <1>3 DEF RequestInv, PeerInv

\* The handler's answer, for the three ways to answer.
LEMMA Answering ==
    ASSUME Around, RequestInv, elections' = elections, NEW c \in calls,
           NEW rp \in AppendReply, calls' = Answer(c, rp),
           rp.hint.index <= c.req.prevIndex,
           rp.success => Holds(c.req.to, c.req.term, ReqEnd(c.req))'
    PROVE  RequestInv'
<1>. SUFFICES ASSUME NEW d \in calls' PROVE RequestOK(d)'
    BY DEF RequestInv
<1>1. PICK o \in calls :
          /\ d.req = o.req /\ d.status = o.status
          /\ \/ d.reply = o.reply
             \/ o = c /\ d.reply = rp
    BY DEF Answer, Around, TypeOK, Call
<1>2. d \in Call /\ d.req.from \in Server /\ o \in Call
    BY DEF Around, TypeOK, Call, AppendReq
<1>3. RequestOK(o)
    BY DEF RequestInv
<1>4. d.reply.hint.index <= d.req.prevIndex
    BY <1>1, <1>3 DEF RequestOK
<1>5. \/ d.reply = o.reply
      \/ d.reply.success => Holds(d.req.to, d.req.term, ReqEnd(d.req))'
    BY <1>1
<1>6. state'[d.req.from] = "Leader" =>
          /\ state[d.req.from] = "Leader"
          /\ currentTerm'[d.req.from] = currentTerm[d.req.from]
    BY <1>2, LeadersStay DEF Around
<1>. QED
    BY <1>1, <1>2, <1>3, <1>4, <1>5, <1>6, CallKept

\* Who accepts a request holds what it says.
LEMMA Accepting ==
    ASSUME Around, RequestInv, NEW n \in Server, NEW c \in calls,
           c.req.to = n, AcceptAppend(n, c)
    PROVE  /\ Holds(n, c.req.term, ReqEnd(c.req))'
           /\ currentTerm'[n] = c.req.term
           /\ Agree(log'[n], leaderLog'[c.req.term], ReqEnd(c.req))
<1>. DEFINE T == c.req.term
            k == ReqEnd(c.req)
            r == MergeEntries(log[n], c.req.prevIndex, c.req.entries)
<1>1. /\ FollowLeader(n, c.req) /\ log' = [log EXCEPT ![n] = r]
      /\ LogConsistent(log[n], c.req.prevIndex, c.req.prevTerm)
    BY DEF AcceptAppend
<1>2. /\ Ledger(leaderLog) /\ log[n] \in Seq(Entry) /\ currentTerm[n] \in Nat
      /\ Traced(leaderLog, log[n], currentTerm[n]) /\ c.req \in AppendReq
      /\ Piece(leaderLog, c.req) /\ T \in DOMAIN leaderLog
    BY DEF Around, TraceInv, RequestInv, RequestOK, Piece, TypeOK, Call
<1>3. /\ T \in Nat /\ currentTerm[n] <= T
      /\ currentTerm' = [currentTerm EXCEPT ![n] = T]
    BY <1>1, FollowedLeader DEF Around
<1>4. Agree(r, leaderLog[T], k) /\ r \in Seq(Entry)
    BY <1>1, <1>2, <1>3, Merging
<1>. HIDE DEF r
<1>5. log'[n] = r /\ currentTerm'[n] = T
    BY <1>1, <1>3 DEF Around, TypeOK
<1>6. /\ leaderLog[T] \in Seq(Entry) /\ leaderLog'[T] \in Seq(Entry)
      /\ Agree(leaderLog[T], leaderLog'[T], Len(leaderLog[T]))
      /\ k <= Len(leaderLog[T]) /\ k \in Nat
    BY <1>2, Growing DEF Around, Ledger, Grows, Piece, AppendReq, ReqEnd
<1>. HIDE DEF k, T
<1>7. Agree(leaderLog[T], leaderLog'[T], k)
    <2>1. Len(leaderLog[T]) \in Nat
        BY <1>6
    <2>. QED
        BY <1>6, <2>1, AgreePrefix
<1>8. Agree(log'[n], leaderLog'[T], k)
    BY <1>4, <1>5, <1>6, <1>7, AgreeTrans
<1>9. Holds(n, T, k)'
    BY <1>3, <1>5, <1>8 DEF Holds, Agree
<1>. QED
    BY <1>5, <1>8, <1>9 DEF k, T

LEMMA RequestStep ==
    ASSUME RacyStepDown = FALSE, Around, RequestInv, PeerInv, [Next]_vars
    PROVE  RequestInv' /\ PeerInv'
<1>0. TypeOK
    BY DEF Around
<1>1. ASSUME elections' = elections,
             \A c \in calls' : \E d \in calls :
                 /\ c.req = d.req /\ c.reply = d.reply
                 /\ c.status = "live" => d.status = "live",
             \A l \in Server : state'[l] = "Leader" =>
                 nextIndex'[l] = nextIndex[l] /\ matchIndex'[l] = matchIndex[l]
      PROVE  RequestInv' /\ PeerInv'
    BY <1>1, CallsKept, PeersKept
<1>2. ASSUME NEW n \in Server, ElectionTimeout(n) PROVE RequestInv' /\ PeerInv'
    <2>. DEFINE t == currentTerm[n] + 1
    <2>1. CASE BecomeLeader(n, t, {n})
        <3>1. /\ log' = log /\ t \in Nat
              /\ \A s \in Server : s # n => currentTerm'[s] = currentTerm[s]
            BY <1>0, <1>2 DEF ElectionTimeout, TypeOK
        <3>. QED
            BY <2>1, <3>1, NewLeader
    <2>2. CASE UNCHANGED <<nextIndex, matchIndex, calls, elections>>
        BY <1>1, <2>2
    <2>. QED
        BY <1>2, <2>1, <2>2 DEF ElectionTimeout, peerVars
<1>3. ASSUME NEW n \in Server, NEW r \in voteReplies, HandleVoteReply(n, r)
      PROVE  RequestInv' /\ PeerInv'
    <2>1. CASE /\ BecomeLeader(n, currentTerm[n], votes[n] \cup {r.from})
               /\ UNCHANGED currentTerm
        <3>1. log' = log /\ currentTerm[n] \in Nat
            BY <1>0, <1>3 DEF HandleVoteReply, TypeOK
        <3>. QED
            BY <2>1, <3>1, NewLeader
    <2>2. CASE UNCHANGED <<nextIndex, matchIndex, calls, elections>>
        BY <1>1, <2>2
    <2>. QED
        BY <1>3, <2>1, <2>2 DEF HandleVoteReply, peerVars
<1>4. ASSUME UNCHANGED <<nextIndex, matchIndex, calls, elections>>
      PROVE  RequestInv' /\ PeerInv'
    BY <1>1, <1>4
<1>5. ASSUME NEW n \in Server, NEW p \in Server, ReplicateOnce(n, p)
      PROVE  RequestInv' /\ PeerInv'
    <2>. DEFINE req == AppendRequest(n, p)
                new == [req |-> req, reply |-> NoReply, status |-> "live"]
    <2>1. /\ UNCHANGED <<nextIndex, matchIndex, elections, currentTerm, state>>
          /\ state[n] = "Leader" /\ calls' = calls \cup {new}
        BY <1>5 DEF ReplicateOnce, peerVars, persistent
    <2>2. PeerInv'
        BY <2>1, PeersKept
    <2>3. ASSUME NEW c \in calls PROVE RequestOK(c)'
        <3>1. c \in Call /\ c.req.from \in Server /\ RequestOK(c)
            BY <1>0 DEF TypeOK, Call, AppendReq, RequestInv
        <3>2. c.reply.hint.index <= c.req.prevIndex
            BY <3>1 DEF RequestOK
        <3>. QED
            BY <2>1, <3>1, <3>2, CallKept
    <2>4. ASSUME NEW c \in calls', c = new PROVE RequestOK(c)'
        <3>1. req \in AppendReq /\ req.from = n /\ req.term = currentTerm[n]
            BY <1>0, AppendRequestType DEF AppendRequest
        <3>2. Piece(leaderLog, req)
            BY <2>1, Sending DEF Around
        <3>3. Piece(leaderLog', req)
            BY <3>1, <3>2, Growing, PieceGrows DEF Around, TraceInv
        <3>4. /\ c.req = req /\ c.reply.hint.index = 0
              /\ ~ c.reply.success /\ req.prevIndex \in Nat
            BY <2>4, <3>1 DEF NoReply, NoHint, AppendReq
        <3>5. Piece(leaderLog', c.req) /\ c.reply.hint.index <= c.req.prevIndex
            BY <3>3, <3>4
        <3>6. c.req.term = currentTerm'[c.req.from]
            BY <2>1, <3>1, <3>4
        <3>. QED
            BY <3>4, <3>5, <3>6 DEF RequestOK
    <2>. HIDE DEF new
    <2>5. RequestInv'
        BY <2>1, <2>3, <2>4 DEF RequestInv
    <2>. QED
        BY <2>2, <2>5
<1>6. ASSUME NEW n \in Server, NEW c \in calls, HandleAppendEntries(n, c)
      PROVE  RequestInv' /\ PeerInv'
    <2>1. /\ UNCHANGED <<nextIndex, matchIndex, elections>> /\ c.req.to = n
          /\ c.req \in AppendReq /\ c.req.prevIndex \in Nat
          /\ log[n] \in Seq(Entry)
        BY <1>0, <1>6 DEF HandleAppendEntries, peerVars, TypeOK, Call, AppendReq
    <2>2. PeerInv'
        BY <2>1, PeersKept
    <2>3. TypeOK'
        BY DEF Around
    <2>4. CASE RejectAppend(n, c)
        <3>. DEFINE rp == [term |-> currentTerm[n], success |-> FALSE, hint |-> NoHint]
        <3>1. /\ rp \in AppendReply /\ rp.hint.index <= c.req.prevIndex
              /\ ~ rp.success
            BY <1>0, <2>1 DEF AppendReply, NoHint, TypeOK
        <3>2. calls' = Answer(c, rp)
            BY <2>4 DEF RejectAppend
        <3>. HIDE DEF rp
        <3>. QED
            BY <2>1, <2>2, <3>1, <3>2, Answering
    <2>5. CASE RefuseAppend(n, c)
        <3>. DEFINE h == ConflictHint(log[n], c.req.prevIndex)
                    rp == [term |-> currentTerm'[n], success |-> FALSE, hint |-> h]
        <3>1. c.req.prevIndex \in Nat \ {0}
            BY <2>1, <2>5 DEF RefuseAppend, LogConsistent
        <3>2. h \in [term : Nat, index : Nat] /\ h.index <= c.req.prevIndex
            BY <2>1, <3>1, HintType, HintBound
        <3>3. calls' = Answer(c, rp)
            BY <2>5 DEF RefuseAppend
        <3>. HIDE DEF h
        <3>4. /\ rp \in AppendReply /\ rp.hint.index <= c.req.prevIndex
              /\ ~ rp.success
            BY <2>3, <3>2 DEF AppendReply, TypeOK
        <3>. HIDE DEF rp
        <3>. QED
            BY <2>1, <2>2, <3>3, <3>4, Answering
    <2>6. CASE AcceptAppend(n, c)
        <3>. DEFINE rp == [term |-> currentTerm'[n], success |-> TRUE, hint |-> NoHint]
        <3>1. /\ rp \in AppendReply /\ rp.hint.index <= c.req.prevIndex
            BY <2>1, <2>3 DEF AppendReply, NoHint, TypeOK
        <3>2. calls' = Answer(c, rp)
            BY <2>6 DEF AcceptAppend
        <3>3. Holds(c.req.to, c.req.term, ReqEnd(c.req))'
            BY <2>1, <2>6, Accepting
        <3>. HIDE DEF rp
        <3>. QED
            BY <2>1, <2>2, <3>1, <3>2, <3>3, Answering
    <2>. QED
        BY <1>6, <2>4, <2>5, <2>6 DEF HandleAppendEntries
<1>7. ASSUME NEW n \in Server, NEW c \in calls, HandleAppendReply(n, c)
      PROVE  RequestInv' /\ PeerInv'
    <2>1. /\ calls' = calls \ {c} /\ UNCHANGED <<log, elections>> /\ c.req.from = n
          /\ c.req \in AppendReq /\ c.req.to \in Server
          /\ c.reply.hint \in [term : Nat, index : Nat]
          /\ c.req.prevIndex \in Nat /\ Len(c.req.entries) \in Nat
        <3>1. c.req \in AppendReq /\ c.reply \in AppendReply
            BY <1>0 DEF TypeOK, Call
        <3>2. c.req.entries \in Seq(Entry)
            BY <3>1 DEF AppendReq
        <3>. QED
            BY <1>7, <3>1, <3>2 DEF HandleAppendReply, AppendReq, AppendReply
    <2>2. ReqEnd(c.req) \in Nat /\ c.req.prevIndex <= ReqEnd(c.req)
        <3>. DEFINE k == Len(c.req.entries)
        <3>1. k \in Nat /\ c.req.prevIndex \in Nat /\ ReqEnd(c.req) = c.req.prevIndex + k
            BY <2>1 DEF ReqEnd
        <3>. HIDE DEF k
        <3>. QED
            BY <3>1
    <2>3. RequestInv'
        BY <2>1, CallsKept
    <2>4. CASE ReplyHigherTerm(n, c)
        <3>1. UNCHANGED <<nextIndex, matchIndex>>
            BY <2>4 DEF ReplyHigherTerm, peerVars
        <3>. QED
            BY <2>1, <2>3, <3>1, PeersKept
    <2>5. CASE ReplySuccess(n, c) \/ ReplyConflict(n, c)
        <3>1. UNCHANGED <<currentTerm, state>>
            BY <2>5 DEF ReplySuccess, ReplyConflict
        <3>2. ASSUME NEW l \in Server, NEW p \in Server, state'[l] = "Leader"
              PROVE  /\ nextIndex'[l][p] <= Len(log'[l]) + 1
                     /\ Holds(p, currentTerm[l], matchIndex[l][p])'
            <4>1. CASE /\ nextIndex'[l][p] = nextIndex[l][p]
                       /\ matchIndex'[l][p] = matchIndex[l][p]
                BY <3>1, <3>2, <4>1, PeerKept
            <4>2. ASSUME c.status = "live", l = n, p = c.req.to
                  PROVE  /\ c.req.term = currentTerm[n] /\ currentTerm[n] \in WonTerms
                         /\ ReqEnd(c.req) <= Len(log[n])
                <5>1. RequestOK(c)
                    BY DEF RequestInv
                <5>2. c.req.term = currentTerm[n]
                    BY <2>1, <3>1, <3>2, <4>2, <5>1 DEF RequestOK
                <5>3. leaderLog[currentTerm[n]] = log[n] /\ DOMAIN leaderLog = WonTerms
                    BY <3>1, <3>2, <4>2 DEF Around, TraceInv
                <5>. QED
                    BY <5>1, <5>2, <5>3 DEF RequestOK, Piece
            <4>3. CASE /\ ReplySuccess(n, c) /\ c.status = "live"
                       /\ c.req.entries # <<>> /\ l = n /\ p = c.req.to
                <5>1. /\ matchIndex'[l][p] = ReqEnd(c.req)
                      /\ nextIndex'[l][p] = ReqEnd(c.req) + 1
                    <6>1. /\ matchIndex' = [matchIndex EXCEPT ![n][c.req.to] = ReqEnd(c.req)]
                          /\ nextIndex' = [nextIndex EXCEPT ![n][c.req.to] = ReqEnd(c.req) + 1]
                        BY <4>3 DEF ReplySuccess, Matched, ReqEnd
                    <6>. QED
                        BY <1>0, <2>1, <4>3, <6>1 DEF TypeOK
                <5>2. Holds(p, currentTerm[n], ReqEnd(c.req))
                    BY <4>2, <4>3 DEF RequestInv, RequestOK, ReplySuccess
                <5>3. ReqEnd(c.req) \in Nat
                    BY <2>1 DEF ReqEnd
                <5>4. \A t \in WonTerms, m \in Nat : Holds(p, t, m) => Holds(p, t, m)'
                    BY Holding DEF Around
                <5>5. Holds(p, currentTerm[l], matchIndex[l][p])'
                    BY <3>1, <4>2, <4>3, <5>1, <5>2, <5>3, <5>4 DEF Holds
                <5>6. Len(log[n]) \in Nat
                    BY <1>0 DEF TypeOK
                <5>. QED
                    BY <2>1, <4>2, <4>3, <5>1, <5>3, <5>5, <5>6
            <4>4. CASE /\ ReplyConflict(n, c) /\ c.status = "live"
                       /\ l = n /\ p = c.req.to
                <5>. DEFINE next == BackUp(log[n], c.reply.hint)
                <5>1. matchIndex' = matchIndex /\ nextIndex'[l][p] = next
                    <6>1. /\ matchIndex' = matchIndex
                          /\ nextIndex' = [nextIndex EXCEPT ![n][c.req.to] = next]
                        BY <4>4 DEF ReplyConflict
                    <6>. HIDE DEF next
                    <6>. QED
                        BY <1>0, <2>1, <4>4, <6>1 DEF TypeOK
                <5>2. /\ c.reply.hint.index <= c.req.prevIndex
                      /\ c.req.prevIndex <= ReqEnd(c.req)
                      /\ log[n] \in Seq(Entry)
                    <6>1. c.reply.hint.index <= c.req.prevIndex
                        BY DEF RequestInv, RequestOK
                    <6>2. log[n] \in Seq(Entry)
                        BY <1>0 DEF TypeOK
                    <6>. QED
                        BY <2>2, <6>1, <6>2
                <5>3. c.reply.hint.index <= Len(log[n]) + 1
                    <6>1. ReqEnd(c.req) <= Len(log[n])
                        BY <4>2, <4>4
                    <6>2. c.reply.hint.index \in Nat /\ Len(log[n]) \in Nat
                        BY <2>1, <5>2
                    <6>. QED
                        BY <2>1, <2>2, <5>2, <6>1, <6>2
                <5>4. next <= Len(log[n]) + 1
                    BY <2>1, <5>2, <5>3, BackUpBound
                <5>5. Holds(p, currentTerm[l], matchIndex[l][p])
                    BY <3>1, <3>2 DEF PeerInv
                <5>6. \A t \in WonTerms, m \in Nat : Holds(p, t, m) => Holds(p, t, m)'
                    BY Holding DEF Around
                <5>7. matchIndex[l][p] \in Nat
                    <6>1. matchIndex \in [Server -> [Server -> Nat]]
                        BY <1>0 DEF TypeOK
                    <6>. QED
                        BY <6>1
                <5>. HIDE DEF next
                <5>8. Holds(p, currentTerm[l], matchIndex[l][p])'
                    BY <3>1, <4>2, <4>4, <5>1, <5>5, <5>6, <5>7 DEF Holds
                <5>. QED
                    BY <2>1, <4>4, <5>1, <5>4, <5>8
            <4>5. CASE ReplySuccess(n, c) /\ ~ (/\ c.status = "live"
                            /\ c.req.entries # <<>> /\ l = n /\ p = c.req.to)
                <5>1. /\ nextIndex'[l][p] = nextIndex[l][p]
                      /\ matchIndex'[l][p] = matchIndex[l][p]
                    <6>1. CASE c.status = "live" /\ c.req.entries # <<>>
                        <7>1. /\ matchIndex' = [matchIndex EXCEPT
                                     ![n][c.req.to] = Matched(n, c)]
                              /\ nextIndex' = [nextIndex EXCEPT
                                     ![n][c.req.to] = Matched(n, c) + 1]
                              /\ l # n \/ p # c.req.to
                            BY <4>5, <6>1 DEF ReplySuccess
                        <7>2. /\ matchIndex \in [Server -> [Server -> Nat]]
                              /\ nextIndex \in [Server -> [Server -> Nat \ {0}]]
                            BY <1>0 DEF TypeOK
                        <7>. QED
                            BY <2>1, <7>1, <7>2
                    <6>2. CASE ~ (c.status = "live" /\ c.req.entries # <<>>)
                        BY <4>5, <6>2 DEF ReplySuccess, peerVars
                    <6>. QED
                        BY <6>1, <6>2
                <5>. QED
                    BY <4>1, <5>1
            <4>6. CASE ReplyConflict(n, c) /\ ~ (/\ c.status = "live"
                            /\ l = n /\ p = c.req.to)
                <5>1. /\ nextIndex'[l][p] = nextIndex[l][p]
                      /\ matchIndex'[l][p] = matchIndex[l][p]
                    BY <1>0, <2>1, <4>6 DEF ReplyConflict, TypeOK
                <5>. QED
                    BY <4>1, <5>1
            <4>. QED
                BY <2>5, <4>3, <4>4, <4>5, <4>6
        <3>3. PeerInv'
            BY <3>2 DEF PeerInv
        <3>. QED
            BY <2>3, <3>3
    <2>. QED
        BY <1>7, <2>4, <2>5 DEF HandleAppendReply
<1>8. ASSUME NEW c \in calls, CallFails(c) PROVE RequestInv' /\ PeerInv'
    <2>1. UNCHANGED <<nextIndex, matchIndex, elections>>
        BY <1>8 DEF CallFails, peerVars
    <2>2. \A d \in calls' : \E e \in calls :
              /\ d.req = e.req /\ d.reply = e.reply
              /\ d.status = "live" => e.status = "live"
        <3>. DEFINE late == [c EXCEPT !.status = "late"]
        <3>1. calls' = calls \ {c} \/ calls' = (calls \ {c}) \cup {late}
            BY <1>8 DEF CallFails
        <3>2. late.req = c.req /\ late.reply = c.reply /\ late.status = "late"
            BY <1>0 DEF TypeOK, Call
        <3>. HIDE DEF late
        <3>. QED
            BY <3>1, <3>2
    <2>. QED
        BY <1>1, <2>1, <2>2
<1>9. ASSUME NEW n \in Server, NEW left \in SUBSET calls, Reboot(n, left)
      PROVE  RequestInv' /\ PeerInv'
    <2>1. /\ elections' = elections /\ state' = [state EXCEPT ![n] = "Follower"]
          /\ nextIndex' = [nextIndex EXCEPT ![n] = [p \in Server |-> 1]]
          /\ matchIndex' = [matchIndex EXCEPT ![n] = [p \in Server |-> 0]]
        BY <1>9 DEF Reboot
    <2>2. \A l \in Server : state'[l] = "Leader" =>
              nextIndex'[l] = nextIndex[l] /\ matchIndex'[l] = matchIndex[l]
        BY <1>0, <2>1 DEF TypeOK
    <2>3. ASSUME NEW c \in calls'
          PROVE  \E d \in calls : /\ c.req = d.req /\ c.reply = d.reply
                                  /\ c.status = "live" => d.status = "live"
        <3>1. CASE c \in left
            BY <3>1
        <3>2. CASE \E d \in left : c = [d EXCEPT !.status = "late"]
            <4>1. PICK d \in left : c = [d EXCEPT !.status = "late"]
                BY <3>2
            <4>2. d \in Call
                BY <1>0 DEF TypeOK
            <4>3. c.req = d.req /\ c.reply = d.reply /\ c.status = "late"
                BY <4>1, <4>2 DEF Call
            <4>. QED
                BY <4>3
        <3>. QED
            BY <1>9, <3>1, <3>2 DEF Reboot
    <2>. QED
        BY <1>1, <2>1, <2>2, <2>3
<1>10. ASSUME NEW n \in Server, CrashStep(n) PROVE RequestInv' /\ PeerInv'
    <2>1. \E left \in SUBSET calls : Reboot(n, left)
        BY <1>10 DEF CrashStep, Restart, TornPersist, TornAppend
    <2>. QED
        BY <1>9, <2>1
<1>11. ASSUME NEW n \in Server,
              \/ CandidateGivesUp(n)
              \/ \E m \in voteReqs : HandleRequestVote(n, m)
              \/ AppendNoOp(n)
              \/ \E v \in Value : HandleApplyRequest(n, v)
       PROVE RequestInv' /\ PeerInv'
    <2>1. CASE CandidateGivesUp(n)
        BY <1>4, <2>1 DEF CandidateGivesUp, peerVars
    <2>2. CASE \E m \in voteReqs : HandleRequestVote(n, m)
        BY <1>4, <2>2 DEF HandleRequestVote, peerVars
    <2>3. CASE AppendNoOp(n)
        BY <1>4, <2>3 DEF AppendNoOp, peerVars
    <2>4. CASE \E v \in Value : HandleApplyRequest(n, v)
        BY <1>4, <2>4 DEF HandleApplyRequest, peerVars
    <2>. QED
        BY <1>11, <2>1, <2>2, <2>3, <2>4
<1>12. ASSUME UNCHANGED vars \/ \E m \in voteReqs : VoteCallFails(m)
       PROVE RequestInv' /\ PeerInv'
    BY <1>4, <1>12 DEF vars, VoteCallFails, peerVars
<1>. QED
    BY <1>2, <1>3, <1>5, <1>6, <1>7, <1>8, <1>10, <1>11, <1>12
       DEF Next, MainStep, ReplicatorStep

-----------------------------------------------------------------------------
(* Theorems about logs *)

\* HistorySpec is Spec with two more variables.
LEMMA HistoryImpliesSpec == HistorySpec => Spec
<1>1. HistoryInit => Init
    BY DEF HistoryInit
<1>2. [HistoryNext]_historyVars => [Next]_vars
    BY DEF HistoryNext, historyVars
<1>. QED
    BY <1>1, <1>2, PTL DEF HistorySpec, Spec

LEMMA HistoryTypes == HistorySpec => []TypeOK
    BY HistoryImpliesSpec, TypeCorrect, PTL

\* The logs of all the servers start empty.
LEMMA LogInvInit ==
    HistoryInit => LogInv
<1>. SUFFICES ASSUME HistoryInit PROVE LogInv
    OBVIOUS
<1>1. WonTerms = {} /\ leaderLog = [t \in {} |-> <<>>]
    BY DEF HistoryInit, Init, WonTerms
<1>2. \A s \in Server : log[s] = <<>> /\ Len(log[s]) = 0
    BY DEF HistoryInit, Init
<1>3. TraceInv
    BY <1>1, <1>2 DEF HistoryInit, Init, TraceInv, Ledger, Traced
<1>4. FreshInv /\ RequestInv /\ PeerInv
    BY DEF HistoryInit, Init, FreshInv, RequestInv, PeerInv
<1>. QED
    BY <1>3, <1>4 DEF LogInv

\* Every step keeps LogInv.
LEMMA LogInvStep ==
    ASSUME RacyStepDown = FALSE, TypeOK, TypeOK', ElectionInv, LogInv,
           [HistoryNext]_historyVars
    PROVE  LogInv' /\ ElectionInv'
<1>1. CASE HistoryNext
    <2>1. [Next]_vars /\ RecordHistory
        BY <1>1 DEF HistoryNext
    <2>2. ElectionInv'
        BY <2>1, ElectionStep
    <2>3. LogStep /\ Candidacy
        BY <2>1, Kinds DEF LogInv
    <2>4. Around
        BY <2>1, <2>2, <2>3 DEF Around, LogInv
    <2>5. TraceInv'
        BY <2>4, Growing DEF Around
    <2>6. FreshInv'
        BY <2>3, FreshStep DEF LogInv
    <2>7. RequestInv' /\ PeerInv'
        BY <2>1, <2>4, RequestStep DEF LogInv
    <2>. QED
        BY <2>2, <2>5, <2>6, <2>7 DEF LogInv
<1>2. CASE UNCHANGED historyVars
    <2>1. UNCHANGED <<vars, leaderLog, accepted>>
        BY <1>2 DEF historyVars
    <2>2. [Next]_vars
        BY <2>1
    <2>3. ElectionInv'
        BY <2>2, ElectionStep
    <2>4. /\ UNCHANGED <<log, currentTerm, state, loop, elections, calls,
                         nextIndex, matchIndex, leaderLog>>
        BY <2>1 DEF vars
    <2>5. TraceInv'
        BY <2>4 DEF LogInv, TraceInv, WonTerms
    <2>6. FreshInv'
        BY <2>4 DEF LogInv, FreshInv, Won
    <2>7. RequestInv'
        BY <2>4 DEF LogInv, RequestInv, RequestOK, Holds
    <2>8. PeerInv'
        BY <2>4 DEF LogInv, PeerInv, Holds
    <2>. QED
        BY <2>3, <2>5, <2>6, <2>7, <2>8 DEF LogInv
<1>. QED
    BY <1>1, <1>2

LEMMA LogInvariant ==
    ASSUME RacyStepDown = FALSE
    PROVE  HistorySpec => [](TypeOK /\ ElectionInv /\ LogInv)
<1>1. HistoryInit => ElectionInv /\ LogInv
    BY ElectionInit, LogInvInit DEF HistoryInit
<1>2. TypeOK /\ TypeOK' /\ ElectionInv /\ LogInv /\ [HistoryNext]_historyVars
          => ElectionInv' /\ LogInv'
    BY LogInvStep
<1>. QED
    BY <1>1, <1>2, HistoryTypes, PTL DEF HistorySpec

(***************************************************************************)
(* Log Matching (raft_test.go:7) for any number of servers, terms, crashes *)
(* and messages: the consistency check of handleAppendEntries, the merge   *)
(* of late and repeated requests and the crash between its two             *)
(* transactions never leave two logs with the same term at an index and    *)
(* something different before it.                                          *)
(***************************************************************************)
THEOREM LogsMatch ==
    ASSUME RacyStepDown = FALSE
    PROVE  HistorySpec => []LogMatching
<1>1. TypeOK /\ LogInv => LogMatching
    <2>. SUFFICES ASSUME TypeOK, LogInv, NEW s \in Server, NEW t \in Server,
                         NEW i \in 1..Len(log[s]), i <= Len(log[t]),
                         log[s][i].term = log[t][i].term
                  PROVE  \A j \in 1..i : log[s][j] = log[t][j]
        BY DEF LogMatching
    <2>1. Agree(log[s], log[t], i)
        BY TracedMatch DEF LogInv, TraceInv, TypeOK
    <2>. QED
        BY <2>1 DEF Agree
<1>. QED
    BY <1>1, LogInvariant, PTL

(***************************************************************************)
(* Entries come from elected leaders only: no step writes an entry of a    *)
(* term that nobody has won, whatever interleaves with appendNoOp and      *)
(* handleApplyRequest.                                                     *)
(***************************************************************************)
THEOREM EntriesElected ==
    ASSUME RacyStepDown = FALSE
    PROVE  HistorySpec => []EntriesFromLeaders
<1>1. LogInv => EntriesFromLeaders
    BY DEF LogInv, TraceInv, Traced, WonTerms, EntriesFromLeaders
<1>. QED
    BY <1>1, LogInvariant, PTL

(***************************************************************************)
(* The Leader's matchIndex is sound: while no server is ahead of it, every *)
(* peer holds the Leader's entries up to the index that advanceCommitIndex *)
(* counts, however late the replies were and whoever crashed in between.   *)
(***************************************************************************)
THEOREM MatchSound ==
    ASSUME RacyStepDown = FALSE
    PROVE  HistorySpec => []MatchIndexSound
<1>1. TypeOK /\ LogInv => MatchIndexSound
    <2>. SUFFICES ASSUME TypeOK, LogInv, NEW l \in Server, NEW p \in Server,
                         state[l] = "Leader", currentTerm[p] <= currentTerm[l],
                         NEW i \in 1..matchIndex[l][p]
                  PROVE  /\ i <= Len(log[p]) /\ i <= Len(log[l])
                         /\ log[p][i] = log[l][i]
        BY DEF MatchIndexSound
    <2>. DEFINE m == matchIndex[l][p]
    <2>1. m \in Nat /\ m > 0 /\ i \in 1..m
        <3>1. matchIndex \in [Server -> [Server -> Nat]]
            BY DEF TypeOK
        <3>2. m \in Nat
            BY <3>1
        <3>. QED
            BY <3>2
    <2>2. Holds(p, currentTerm[l], m) /\ leaderLog[currentTerm[l]] = log[l]
        BY DEF LogInv, PeerInv, TraceInv
    <2>3. /\ currentTerm[l] \in Nat /\ currentTerm[p] \in Nat
          /\ Len(log[l]) \in Nat /\ Len(log[p]) \in Nat
        <3>1. /\ currentTerm \in [Server -> Nat] /\ log \in [Server -> Seq(Entry)]
            BY DEF TypeOK
        <3>. QED
            BY <3>1
    <2>. HIDE DEF m
    <2>4. Agree(log[p], log[l], m)
        BY <2>1, <2>2, <2>3 DEF Holds
    <2>. QED
        BY <2>1, <2>3, <2>4 DEF Agree
<1>. QED
    BY <1>1, LogInvariant, PTL

-----------------------------------------------------------------------------
(* Commitment *)

(***************************************************************************)
(* What is committed stays committed: Leader Completeness, the elections   *)
(* to come, and the logs of the servers that have committed, for every     *)
(* number of terms, entries, calls and crashes.                            *)
(*                                                                         *)
(* The argument goes by what servers have accepted, a history variable of  *)
(* RaftHistory.  An entry is chosen when servers that meet every majority  *)
(* have accepted it in its own term (Chosen).  A vote is given to a log    *)
(* that is at least as up to date as the voter's, so the Leader of a later *)
(* term has what its voters accepted, unless a Leader before it had not    *)
(* (ElectedInv); the first Leader without a chosen entry cannot exist      *)
(* (ChosenStays).  Whatever a server or a request calls committed is a     *)
(* prefix of a Leader's log that ends in a chosen entry (CommitInv).       *)
(***************************************************************************)

\* Some Leader of a later term, up to u, has no entry of term t at index k.
Overruled(L, t, k, u) ==
    \E w \in DOMAIN L : t < w /\ w <= u /\ ~ Has(L[w], k, t)

\* What a server has accepted in a term it still holds, unless a Leader of a
\* later term that the server has seen does not.
AcceptanceOK(a) ==
    /\ a.server \in Server
    /\ a.term <= currentTerm[a.server]
    /\ a.term \in WonTerms
    /\ Has(leaderLog[a.term], a.index, a.term)
    /\ \/ Has(log[a.server], a.index, a.term)
       \/ Overruled(leaderLog, a.term, a.index, currentTerm[a.server])

\* What is in accepted is so, and everything a server holds of its own term,
\* or wrote as Leader, is in accepted.
AcceptInv ==
    /\ \A a \in accepted : AcceptanceOK(a)
    /\ \A s \in Server : \A k \in 1..Len(log[s]) :
           log[s][k].term = currentTerm[s] =>
               Acceptance(s, currentTerm[s], k) \in accepted
    /\ \A e \in elections : \A k \in 1..Len(leaderLog[e.term]) :
           leaderLog[e.term][k].term = e.term =>
               Acceptance(e.leader, e.term, k) \in accepted

\* A candidate's log has everything that one of its voters had accepted when it
\* voted, except what a Leader in between does not have.
CandidateInv ==
    \A c \in Server, a \in accepted :
        (/\ campaign[c] # 0 /\ a.term < campaign[c]
         /\ Granted(a.server, campaign[c], c))
            => \/ Has(log[c], a.index, a.term)
               \/ Overruled(leaderLog, a.term, a.index, campaign[c])

\* Requests and answers of an election are not ahead of the candidate, and
\* those of the election it is in describe its log.
BallotInv ==
    /\ \A m \in voteReqs :
           /\ m.term <= currentTerm[m.cand]
           /\ campaign[m.cand] # 0 /\ campaign[m.cand] = m.term =>
                  /\ m.lastIndex = Len(log[m.cand])
                  /\ m.lastTerm = lastTerm(log[m.cand])
    /\ \A r \in voteReplies : r.reqTerm <= currentTerm[r.to]

\* The log with which an election was won has what its voters had accepted,
\* except what an earlier Leader does not have.
ElectedInv ==
    \A e \in elections, a \in accepted :
        a.server \in e.votes /\ a.term < e.term =>
            \/ Has(leaderLog[e.term], a.index, a.term)
            \/ Overruled(leaderLog, a.term, a.index, e.term - 1)

ChoiceInv == AcceptInv /\ CandidateInv /\ BallotInv /\ ElectedInv

(* Overruling is final *)

LEMMA OverruledGrows ==
    ASSUME NEW L, NEW M, Ledger(L), Grows(L, M),
           \A t \in DOMAIN L : M[t] \in Seq(Entry),
           NEW t \in Nat, NEW k, NEW u \in Nat, NEW w \in Nat, u <= w,
           Overruled(L, t, k, u)
    PROVE  Overruled(M, t, k, w)
<1>1. PICK x \in DOMAIN L : t < x /\ x <= u /\ ~ Has(L[x], k, t)
    BY DEF Overruled
<1>2. x \in Nat /\ x \in DOMAIN M /\ t # x
    BY <1>1 DEF Ledger, Grows
<1>3. ~ Has(M[x], k, t)
    BY <1>1, <1>2, HasGrows
<1>4. x <= w
    BY <1>1, <1>2
<1>. QED
    BY <1>1, <1>2, <1>3, <1>4 DEF Overruled

\* What is recorded in a step: what was accepted before, and what servers
\* hold of the terms they are in afterwards.
LEMMA NewlyAccepted ==
    ASSUME TypeOK', RecordHistory, NEW a \in accepted'
    PROVE  \/ a \in accepted
           \/ /\ a.server \in Server /\ a.term = currentTerm'[a.server]
              /\ a.index \in 1..Len(log'[a.server])
              /\ Has(log'[a.server], a.index, a.term)
<1>1. a \in accepted \/ a \in OwnTermEntries'
    BY DEF RecordHistory
<1>2. ASSUME a \in OwnTermEntries'
      PROVE  \E s \in Server : \E k \in 1..Len(log'[s]) :
                 /\ log'[s][k].term = currentTerm'[s]
                 /\ a = [server |-> s, term |-> currentTerm'[s], index |-> k]
    <2>1. PICK s \in Server :
              a \in {[server |-> s, term |-> currentTerm'[s], index |-> k] :
                        k \in {i \in DOMAIN log'[s] :
                                   log'[s][i].term = currentTerm'[s]}}
        BY <1>2 DEF OwnTermEntries, Acceptance
    <2>2. DOMAIN log'[s] = 1..Len(log'[s])
        BY DEF TypeOK
    <2>. QED
        BY <2>1, <2>2
<1>. QED
    BY <1>1, <1>2 DEF Has

LEMMA OwnAccepted ==
    ASSUME TypeOK', RecordHistory, NEW s \in Server, NEW k \in 1..Len(log'[s]),
           log'[s][k].term = currentTerm'[s]
    PROVE  Acceptance(s, currentTerm'[s], k) \in accepted'
<1>1. k \in DOMAIN log'[s]
    BY DEF TypeOK
<1>2. [server |-> s, term |-> currentTerm'[s], index |-> k] \in OwnTermEntries'
    BY <1>1 DEF OwnTermEntries, Acceptance
<1>. QED
    BY <1>2 DEF RecordHistory, Acceptance

\* An entry stays in a log, unless a Leader the server follows does not have
\* it.
LEMMA HasKept ==
    ASSUME Around, NEW s \in Server, NEW k, NEW t, Has(log[s], k, t)
    PROVE  Has(log'[s], k, t) \/ Overruled(leaderLog', t, k, currentTerm'[s])
<1>. DEFINE lg == log[s]
            u == currentTerm[s]
            U == currentTerm'[s]
<1>1. /\ TypeOK /\ TypeOK' /\ TraceInv /\ Ledger(leaderLog)
      /\ Traced(leaderLog, lg, u)
    BY DEF Around, TraceInv
<1>2. lg \in Seq(Entry) /\ log'[s] \in Seq(Entry) /\ u \in Nat /\ U \in Nat
    BY <1>1 DEF TypeOK
<1>3. u <= U
    BY Growing DEF Around
<1>4. /\ k \in Nat \ {0} /\ k <= Len(lg) /\ t \in DOMAIN leaderLog /\ t \in Nat
      /\ t <= u /\ Has(leaderLog[t], k, t)
    BY <1>1, <1>2, HasAgree
<1>5. CASE log'[s] = log[s]
    BY <1>5
<1>6. CASE Rewrites(s)
    <2>. DEFINE M == leaderLog[U]
    <2>1. /\ U \in DOMAIN leaderLog /\ M \in Seq(Entry) /\ Traced(leaderLog, M, U)
          /\ \A m \in Nat : Agree(lg, M, m) => Agree(log'[s], M, m)
        BY <1>1, <1>6 DEF Rewrites, Ledger
    <2>2. CASE Has(M, k, t)
        <3>1. k \in 1..Len(lg) /\ k <= Len(M) /\ lg[k].term = M[k].term
              /\ M[k].term = t
            BY <1>2, <1>4, <2>1, <2>2 DEF Has
        <3>2. Agree(lg, M, k)
            BY <1>1, <1>2, <2>1, <3>1, TracedMatch
        <3>3. Agree(log'[s], M, k)
            BY <1>4, <2>1, <3>2
        <3>4. k <= Len(log'[s]) /\ log'[s][k] = M[k] /\ Len(log'[s]) \in Nat
            BY <1>2, <1>4, <3>3 DEF Agree
        <3>5. k \in 1..Len(log'[s]) /\ log'[s][k].term = t
            BY <1>4, <3>1, <3>4
        <3>. QED
            BY <3>5 DEF Has
    <2>3. CASE ~ Has(M, k, t)
        <3>1. t < U
            BY <1>2, <1>3, <1>4, <2>3
        <3>2. Overruled(leaderLog, t, k, U)
            BY <1>2, <2>1, <2>3, <3>1 DEF Overruled
        <3>. QED
            BY <1>1, <1>2, <1>4, <3>2, Growing, OverruledGrows DEF Around
    <2>. QED
        BY <2>2, <2>3
<1>7. ASSUME NEW n \in Server, Writes(n) PROVE Has(log'[s], k, t)
    <2>1. PICK e \in Entry : log' = [log EXCEPT ![n] = Append(@, e)]
        BY <1>7 DEF Writes
    <2>2. log'[s] = lg \/ log'[s] = Append(lg, e)
        BY <1>1, <2>1 DEF TypeOK
    <2>3. /\ Len(Append(lg, e)) = Len(lg) + 1
          /\ \A j \in 1..Len(lg) : Append(lg, e)[j] = lg[j]
        BY <1>2, AppendProperties
    <2>4. k \in 1..Len(lg) /\ lg[k].term = t
        BY DEF Has
    <2>5. k \in 1..Len(Append(lg, e)) /\ Append(lg, e)[k] = lg[k]
        BY <1>2, <2>3, <2>4
    <2>6. Has(lg, k, t) /\ Has(Append(lg, e), k, t)
        BY <2>4, <2>5 DEF Has
    <2>. QED
        BY <2>2, <2>6
<1>8. (\E n \in Server : Wins(n)) => log' = log
    BY DEF Wins
<1>. QED
    BY <1>5, <1>6, <1>7, <1>8 DEF Around, LogStep, Obeys

\* An acceptance of before the step, after it.
LEMMA AcceptedBefore ==
    ASSUME Around, NEW a, AcceptanceOK(a)
    PROVE  /\ AcceptanceOK(a)'
           /\ a.term \in Nat /\ a.term \in DOMAIN leaderLog
           /\ a.term <= currentTerm'[a.server]
<1>. DEFINE s == a.server
            t == a.term
            k == a.index
<1>1. /\ TypeOK /\ TypeOK' /\ Ledger(leaderLog) /\ DOMAIN leaderLog = WonTerms
      /\ DOMAIN leaderLog' = WonTerms'
    BY Growing DEF Around, TraceInv
<1>2. /\ s \in Server /\ t <= currentTerm[s] /\ t \in DOMAIN leaderLog
      /\ t \in Nat /\ Has(leaderLog[t], k, t)
    BY <1>1 DEF AcceptanceOK, Ledger
<1>3. /\ currentTerm[s] \in Nat /\ currentTerm'[s] \in Nat
      /\ currentTerm[s] <= currentTerm'[s]
    BY <1>1, <1>2, Growing DEF Around, TypeOK
<1>4. t <= currentTerm'[s]
    BY <1>2, <1>3
<1>5. /\ Grows(leaderLog, leaderLog')
      /\ \A x \in DOMAIN leaderLog : leaderLog'[x] \in Seq(Entry)
    BY Growing DEF Around
<1>6. Has(leaderLog'[t], k, t) /\ t \in WonTerms'
    BY <1>1, <1>2, <1>5, HasGrows DEF Grows
<1>7. Has(log'[s], k, t) \/ Overruled(leaderLog', t, k, currentTerm'[s])
    <2>1. CASE Has(log[s], k, t)
        BY <1>2, <2>1, HasKept
    <2>2. CASE Overruled(leaderLog, t, k, currentTerm[s])
        BY <1>1, <1>2, <1>3, <1>5, <2>2, OverruledGrows
    <2>. QED
        BY <2>1, <2>2 DEF AcceptanceOK
<1>. QED
    BY <1>2, <1>4, <1>6, <1>7 DEF AcceptanceOK

LEMMA AcceptStep ==
    ASSUME Around, AcceptInv
    PROVE  AcceptInv'
<1>0. /\ TypeOK /\ TypeOK' /\ RecordHistory /\ ElectionInv /\ ElectionInv'
      /\ TraceInv /\ TraceInv'
    BY Growing DEF Around
<1>1. ASSUME NEW a \in accepted' PROVE AcceptanceOK(a)'
    <2>1. CASE a \in accepted
        BY <2>1, AcceptedBefore DEF AcceptInv
    <2>2. CASE /\ a.server \in Server /\ a.term = currentTerm'[a.server]
               /\ Has(log'[a.server], a.index, a.term)
        <3>. DEFINE s == a.server
        <3>1. /\ log'[s] \in Seq(Entry) /\ currentTerm'[s] \in Nat
              /\ Ledger(leaderLog') /\ Traced(leaderLog', log'[s], currentTerm'[s])
              /\ DOMAIN leaderLog' = WonTerms'
            BY <1>0, <2>2 DEF TypeOK, TraceInv
        <3>2. /\ a.term \in DOMAIN leaderLog' /\ a.term <= currentTerm'[s]
              /\ Has(leaderLog'[a.term], a.index, a.term)
            BY <2>2, <3>1, HasAgree
        <3>. QED
            BY <2>2, <3>1, <3>2 DEF AcceptanceOK
    <2>. QED
        BY <1>0, <2>1, <2>2, NewlyAccepted
<1>2. \A s \in Server : \A k \in 1..Len(log'[s]) :
          log'[s][k].term = currentTerm'[s] =>
              Acceptance(s, currentTerm'[s], k) \in accepted'
    BY <1>0, OwnAccepted
<1>3. ASSUME NEW e \in elections', NEW k \in 1..Len(leaderLog'[e.term]),
             leaderLog'[e.term][k].term = e.term
      PROVE  Acceptance(e.leader, e.term, k) \in accepted'
    <2>. DEFINE t == e.term
    <2>1. t \in WonTerms' /\ e.leader \in Server
        BY <1>0 DEF WonTerms, TypeOK
    <2>2. CASE \E n \in Server : state'[n] = "Leader" /\ currentTerm'[n] = t
        <3>1. PICK n \in Server : state'[n] = "Leader" /\ currentTerm'[n] = t
            BY <2>2
        <3>2. leaderLog'[t] = log'[n]
            BY <1>0, <3>1, Recorded
        <3>3. \E f \in elections' : f.term = t /\ f.leader = n
            BY <1>0, <3>1 DEF ElectionInv, LoopInv, Won
        <3>4. e.leader = n
            BY <1>0, <3>3 DEF ElectionInv, ElectionSafety
        <3>. QED
            BY <1>2, <1>3, <3>1, <3>2, <3>4
    <2>3. CASE ~ \E n \in Server : state'[n] = "Leader" /\ currentTerm'[n] = t
        <3>1. leaderLog'[t] = leaderLog[t]
            BY <1>0, <2>1, <2>3, Recorded
        <3>2. e \in elections
            <4>1. ASSUME NEW n \in Server, Wins(n) PROVE e \in elections
                <5>1. PICK V \in SUBSET Server :
                          elections' = elections \cup
                              {[term |-> currentTerm'[n], leader |-> n, votes |-> V]}
                    BY <4>1 DEF Wins
                <5>2. state'[n] = "Leader"
                    BY <1>0, <4>1 DEF Wins, TypeOK
                <5>3. CASE e = [term |-> currentTerm'[n], leader |-> n, votes |-> V]
                    <6>1. currentTerm'[n] = t
                        BY <5>3
                    <6>. QED
                        BY <2>3, <5>2, <6>1
                <5>. QED
                    BY <5>1, <5>3
            <4>. QED
                BY <4>1 DEF Around, LogStep, Obeys, Writes
        <3>3. Acceptance(e.leader, e.term, k) \in accepted
            BY <1>3, <3>1, <3>2 DEF AcceptInv
        <3>. QED
            BY <3>3 DEF Around, RecordHistory
    <2>. QED
        BY <2>2, <2>3
<1>. QED
    BY <1>1, <1>2, <1>3 DEF AcceptInv

-----------------------------------------------------------------------------
(* Elections *)

\* Server v votes for candidate c.
Votes(v, c) ==
    \E m \in voteReqs :
        /\ m.cand = c /\ m.term = campaign[c]
        /\ isLogUpToDate(m.lastTerm, m.lastIndex, lastTerm(log[v]), Len(log[v]))
        /\ currentTerm'[v] = m.term /\ log' = log

\* A vote that a candidate has after a step it had before, or it is cast now.
NewGrants ==
    \A v, c \in Server :
        v # c /\ campaign'[c] # 0 /\ Granted(v, campaign[c], c)' =>
            /\ campaign'[c] = campaign[c]
            /\ Granted(v, campaign[c], c) \/ Votes(v, c)

\* Who wins an election has its own vote and votes that it was given before.
NewWinners ==
    \A e \in elections' :
        \/ e \in elections
        \/ \A v \in e.votes :
               \/ v = e.leader
               \/ campaign[e.leader] = e.term /\ Granted(v, e.term, e.leader)

\* A step in which no vote is asked for keeps the ballots in order.
LEMMA BallotsKept ==
    ASSUME TypeOK, TypeOK', ElectionInv', BallotInv, Candidacy,
           \A s \in Server : currentTerm[s] <= currentTerm'[s],
           voteReqs' \subseteq voteReqs,
           \A r \in voteReplies' :
               r \in voteReplies \/ r.reqTerm <= currentTerm[r.to],
           \A c \in Server : campaign'[c] # 0 => campaign'[c] = campaign[c]
    PROVE  BallotInv'
<1>1. ASSUME NEW m \in voteReqs'
      PROVE  /\ m.term <= currentTerm'[m.cand]
             /\ campaign'[m.cand] # 0 /\ campaign'[m.cand] = m.term =>
                    /\ m.lastIndex = Len(log'[m.cand])
                    /\ m.lastTerm = lastTerm(log'[m.cand])
    <2>1. /\ m \in voteReqs /\ m.cand \in Server /\ m.term \in Nat
          /\ m.term <= currentTerm[m.cand]
          /\ currentTerm[m.cand] \in Nat /\ currentTerm'[m.cand] \in Nat
        BY DEF TypeOK, VoteReq, BallotInv
    <2>2. campaign'[m.cand] # 0 => log'[m.cand] = log[m.cand]
        BY <2>1 DEF ElectionInv, LoopInv, Candidacy
    <2>. QED
        BY <2>1, <2>2 DEF BallotInv
<1>2. ASSUME NEW r \in voteReplies' PROVE r.reqTerm <= currentTerm'[r.to]
    <2>1. /\ r.to \in Server /\ r.reqTerm \in Nat
          /\ currentTerm[r.to] \in Nat /\ currentTerm'[r.to] \in Nat
        BY DEF TypeOK, VoteReply
    <2>2. r.reqTerm <= currentTerm[r.to]
        BY DEF BallotInv
    <2>. QED
        BY <2>1, <2>2
<1>. QED
    BY <1>1, <1>2 DEF BallotInv

\* A step in which no vote is asked for, cast or counted.
LEMMA QuietBallots ==
    ASSUME TypeOK, TypeOK', ElectionInv', FreshInv', BallotInv, Candidacy,
           \A s \in Server : currentTerm[s] <= currentTerm'[s],
           voteReqs' \subseteq voteReqs, voteReplies' \subseteq voteReplies,
           \A c \in Server : campaign'[c] # 0 =>
               campaign'[c] = campaign[c] /\ votes'[c] = votes[c],
           elections' = elections
    PROVE  BallotInv' /\ NewGrants /\ NewWinners
<1>1. BallotInv'
    BY BallotsKept
<1>2. NewGrants
    <2>. SUFFICES ASSUME NEW v \in Server, NEW c \in Server, v # c,
                         campaign'[c] # 0, Granted(v, campaign[c], c)'
                  PROVE  /\ campaign'[c] = campaign[c]
                         /\ Granted(v, campaign[c], c)
        BY DEF NewGrants
    <2>1. \/ v \in votes'[c]
          \/ \E r \in voteReplies' : /\ r.from = v /\ r.to = c /\ r.granted
                                     /\ r.reqTerm = campaign'[c]
        <3>1. loop'[c] = "candidate" /\ campaign'[c] = currentTerm'[c]
            BY DEF ElectionInv, LoopInv
        <3>2. ~ \E e \in elections' : e.term = campaign'[c] /\ e.leader = c
            BY <3>1 DEF FreshInv, Won
        <3>. QED
            BY <3>2 DEF Granted
    <2>. QED
        BY <2>1 DEF Granted
<1>3. NewWinners
    BY DEF NewWinners
<1>. QED
    BY <1>1, <1>2, <1>3

\* handleRequestVote and the timers: every step keeps the ballots in order.
LEMMA BallotStep ==
    ASSUME RacyStepDown = FALSE, TypeOK, TypeOK', ElectionInv, ElectionInv',
           FreshInv, FreshInv', BallotInv, Candidacy,
           \A s \in Server : currentTerm[s] <= currentTerm'[s], [Next]_vars
    PROVE  BallotInv' /\ NewGrants /\ NewWinners
<1>. DEFINE Goal == BallotInv' /\ NewGrants /\ NewWinners
<1>. HIDE DEF Goal
<1>1. ASSUME voteReqs' \subseteq voteReqs, voteReplies' \subseteq voteReplies,
             \A c \in Server : campaign'[c] # 0 =>
                 campaign'[c] = campaign[c] /\ votes'[c] = votes[c],
             elections' = elections
      PROVE  Goal
    BY <1>1, QuietBallots DEF Goal
<1>2. ASSUME NEW n \in Server, NEW st, Reenter(n, st), voteReqs' \subseteq voteReqs,
             voteReplies' \subseteq voteReplies, elections' = elections
      PROVE  Goal
    <2>1. \A c \in Server : campaign'[c] # 0 =>
              campaign'[c] = campaign[c] /\ votes'[c] = votes[c]
        BY <1>2 DEF Reenter, TypeOK
    <2>. QED
        BY <1>1, <1>2, <2>1
<1>3. ASSUME NEW n \in Server, ElectionTimeout(n) PROVE Goal
    <2>. DEFINE t == currentTerm[n] + 1
                new == {[cand |-> n, to |-> p, term |-> t,
                         lastIndex |-> Len(log[n]),
                         lastTerm |-> lastTerm(log[n])] : p \in Server \ {n}}
    <2>1. /\ voteReqs' = voteReqs \cup new /\ log' = log
          /\ currentTerm[n] \in Nat /\ t \in Nat /\ currentTerm'[n] = t
          /\ voteReplies' \subseteq voteReplies
        BY <1>3 DEF ElectionTimeout, Listened, TypeOK
    <2>2. \/ /\ campaign' = [campaign EXCEPT ![n] = 0]
             /\ votes' = [votes EXCEPT ![n] = {}]
             /\ elections' = elections \cup
                    {[term |-> t, leader |-> n, votes |-> {n}]}
          \/ /\ campaign' = [campaign EXCEPT ![n] = t]
             /\ votes' = [votes EXCEPT ![n] = {n}]
             /\ elections' = elections
        BY <1>3 DEF ElectionTimeout, BecomeLeader
    <2>3. /\ campaign'[n] \in {0, t} /\ votes'[n] \subseteq {n}
          /\ \A c \in Server : c # n =>
                 campaign'[c] = campaign[c] /\ votes'[c] = votes[c]
        <3>1. campaign \in [Server -> Nat] /\ votes \in [Server -> SUBSET Server]
            BY DEF TypeOK
        <3>. HIDE DEF t
        <3>. QED
            BY <2>2, <3>1
    <2>4. ASSUME NEW m \in voteReqs'
          PROVE  /\ m.term <= currentTerm'[m.cand]
                 /\ campaign'[m.cand] # 0 /\ campaign'[m.cand] = m.term =>
                        /\ m.lastIndex = Len(log'[m.cand])
                        /\ m.lastTerm = lastTerm(log'[m.cand])
        <3>1. CASE m \in voteReqs
            <4>1. /\ m.cand \in Server /\ m.term \in Nat
                  /\ m.term <= currentTerm[m.cand]
                  /\ currentTerm[m.cand] \in Nat /\ currentTerm'[m.cand] \in Nat
                BY <3>1 DEF TypeOK, VoteReq, BallotInv
            <4>2. m.term <= currentTerm'[m.cand]
                BY <4>1
            <4>3. CASE m.cand = n
                BY <2>1, <2>3, <4>1, <4>2, <4>3
            <4>4. CASE m.cand # n
                BY <2>1, <2>3, <3>1, <4>1, <4>2, <4>4 DEF BallotInv
            <4>. QED
                BY <4>3, <4>4
        <3>2. CASE m \in new
            <4>1. /\ m.cand = n /\ m.term = t /\ m.lastIndex = Len(log[n])
                  /\ m.lastTerm = lastTerm(log[n])
                BY <3>2
            <4>. QED
                BY <2>1, <4>1
        <3>. QED
            BY <2>1, <3>1, <3>2
    <2>5. ASSUME NEW r \in voteReplies'
          PROVE  /\ r.reqTerm <= currentTerm'[r.to]
                 /\ r.to = n => r.reqTerm # t
        <3>1. /\ r.to \in Server /\ r.reqTerm \in Nat
              /\ r.reqTerm <= currentTerm[r.to]
              /\ currentTerm[r.to] \in Nat /\ currentTerm'[r.to] \in Nat
            BY <2>1 DEF TypeOK, VoteReply, BallotInv
        <3>. QED
            BY <3>1
    <2>6. NewGrants
        <3>. SUFFICES ASSUME NEW v \in Server, NEW c \in Server, v # c,
                             campaign'[c] # 0, Granted(v, campaign[c], c)'
                      PROVE  /\ campaign'[c] = campaign[c]
                             /\ Granted(v, campaign[c], c)
            BY DEF NewGrants
        <3>1. loop'[c] = "candidate" /\ campaign'[c] = currentTerm'[c]
            BY DEF ElectionInv, LoopInv
        <3>2. ~ \E e \in elections' : e.term = campaign'[c] /\ e.leader = c
            BY <3>1 DEF FreshInv, Won
        <3>3. \/ v \in votes'[c]
              \/ \E r \in voteReplies' : /\ r.from = v /\ r.to = c /\ r.granted
                                         /\ r.reqTerm = campaign'[c]
            BY <3>2 DEF Granted
        <3>4. c # n
            BY <2>3, <2>5, <3>3
        <3>. QED
            BY <2>1, <2>3, <3>3, <3>4 DEF Granted
    <2>7. NewWinners
        <3>. SUFFICES ASSUME NEW e \in elections', e \notin elections
                      PROVE  \A v \in e.votes : v = e.leader
            BY DEF NewWinners
        <3>1. e = [term |-> t, leader |-> n, votes |-> {n}]
            BY <2>2
        <3>. QED
            BY <3>1
    <2>8. BallotInv'
        BY <2>4, <2>5 DEF BallotInv
    <2>. QED
        BY <2>6, <2>7, <2>8 DEF Goal
<1>4. ASSUME NEW n \in Server, CandidateGivesUp(n) PROVE Goal
    BY <1>2, <1>4 DEF CandidateGivesUp, Listened
<1>5. ASSUME NEW n \in Server, NEW m \in voteReqs, HandleRequestVote(n, m)
      PROVE  Goal
    <2>. DEFINE newer == m.term > currentTerm[n]
                vote == IF newer THEN Nil ELSE votedFor[n]
                granted == m.term >= currentTerm[n] /\ MayGrant(n, vote, m)
                new == [from |-> n, to |-> m.cand, reqTerm |-> m.term,
                        term |-> currentTerm'[n], granted |-> granted]
    <2>1. /\ voteReqs' \subseteq voteReqs /\ log' = log /\ elections' = elections
          /\ currentTerm' = [currentTerm EXCEPT
                 ![n] = IF newer THEN m.term ELSE @]
          /\ Reenter(n, state'[n])
        BY <1>5 DEF HandleRequestVote
    <2>2. voteReplies' \subseteq voteReplies \cup {new}
        BY <1>5 DEF HandleRequestVote, Listened
    <2>3. /\ m.cand \in Server /\ m.term \in Nat /\ currentTerm[n] \in Nat
          /\ m.term <= currentTerm[m.cand]
          /\ currentTerm'[n] = IF newer THEN m.term ELSE currentTerm[n]
        BY <2>1 DEF TypeOK, VoteReq, BallotInv
    <2>4. \A c \in Server : campaign'[c] # 0 =>
              campaign'[c] = campaign[c] /\ votes'[c] = votes[c]
        BY <2>1 DEF Reenter, TypeOK
    <2>5. new.reqTerm = m.term /\ new.to = m.cand /\ new.from = n
          /\ new.granted = granted
        OBVIOUS
    <2>6. BallotInv'
        <3>1. \A r \in voteReplies' :
                  r \in voteReplies \/ r.reqTerm <= currentTerm[r.to]
            BY <2>2, <2>3, <2>5
        <3>. QED
            BY <2>1, <2>4, <3>1, BallotsKept
    <2>7. granted => /\ currentTerm'[n] = m.term
                     /\ isLogUpToDate(m.lastTerm, m.lastIndex,
                                      lastTerm(log[n]), Len(log[n]))
        BY <2>3 DEF MayGrant
    <2>. HIDE DEF new, granted
    <2>8. NewGrants
        <3>. SUFFICES ASSUME NEW v \in Server, NEW c \in Server, v # c,
                             campaign'[c] # 0, Granted(v, campaign[c], c)'
                      PROVE  Granted(v, campaign[c], c) \/ Votes(v, c)
            BY <2>4 DEF NewGrants
        <3>1. \/ v \in votes'[c]
              \/ \E e \in elections' : /\ e.term = campaign'[c] /\ e.leader = c
                                       /\ v \in e.votes
              \/ \E r \in voteReplies' : /\ r.from = v /\ r.to = c /\ r.granted
                                         /\ r.reqTerm = campaign'[c]
            BY DEF Granted
        <3>2. CASE \E r \in voteReplies : /\ r.from = v /\ r.to = c /\ r.granted
                                          /\ r.reqTerm = campaign'[c]
            BY <2>4, <3>2 DEF Granted
        <3>3. CASE /\ new.from = v /\ new.to = c /\ new.granted
                   /\ new.reqTerm = campaign'[c]
            BY <2>1, <2>4, <2>5, <2>7, <3>3 DEF Votes
        <3>4. CASE v \in votes'[c]
            BY <2>4, <3>4 DEF Granted
        <3>5. CASE \E e \in elections' : /\ e.term = campaign'[c] /\ e.leader = c
                                         /\ v \in e.votes
            BY <2>1, <2>4, <3>5 DEF Granted
        <3>. QED
            BY <2>2, <3>1, <3>2, <3>3, <3>4, <3>5
    <2>9. NewWinners
        BY <2>1 DEF NewWinners
    <2>. QED
        BY <2>6, <2>8, <2>9 DEF Goal
<1>6. ASSUME NEW n \in Server, NEW r \in voteReplies, HandleVoteReply(n, r)
      PROVE  Goal
    <2>1. /\ voteReqs' = voteReqs /\ voteReplies' \subseteq voteReplies
          /\ r.to = n /\ r.reqTerm = campaign[n] /\ r.from \in Server
          /\ state[n] = "Candidate" /\ campaign[n] = currentTerm[n]
        BY <1>6 DEF HandleVoteReply, Listened, TypeOK, VoteReply, ElectionInv,
                    LoopInv
    <2>2. CASE Reenter(n, "Follower") /\ UNCHANGED elections
        BY <1>2, <2>1, <2>2
    <2>. DEFINE all == votes[n] \cup {r.from}
                win == [term |-> currentTerm[n], leader |-> n, votes |-> all]
    <2>3. CASE /\ r.granted
               /\ \/ /\ elections' = elections
                     /\ campaign' = campaign
                     /\ votes' = [votes EXCEPT ![n] = all]
                  \/ /\ campaign' = [campaign EXCEPT ![n] = 0]
                     /\ votes' = [votes EXCEPT ![n] = {}]
                     /\ elections' = elections \cup {win}
        <3>1. \A v \in all : Granted(v, campaign[n], n)
            BY <2>1, <2>3 DEF Granted
        <3>2. \A c \in Server : campaign'[c] # 0 =>
                  /\ campaign'[c] = campaign[c]
                  /\ votes'[c] = votes[c] \/ (c = n /\ votes'[c] = all)
            <4>1. campaign \in [Server -> Nat] /\ votes \in [Server -> SUBSET Server]
                BY DEF TypeOK
            <4>2. \/ campaign' = campaign /\ votes' = [votes EXCEPT ![n] = all]
                  \/ campaign' = [campaign EXCEPT ![n] = 0]
                         /\ votes' = [votes EXCEPT ![n] = {}]
                BY <2>3
            <4>. HIDE DEF all
            <4>3. CASE campaign' = campaign /\ votes' = [votes EXCEPT ![n] = all]
                <5>1. votes'[n] = all /\ \A c \in Server : c # n => votes'[c] = votes[c]
                    BY <4>1, <4>3
                <5>. QED
                    BY <4>3, <5>1
            <4>4. CASE /\ campaign' = [campaign EXCEPT ![n] = 0]
                       /\ votes' = [votes EXCEPT ![n] = {}]
                BY <4>1, <4>4
            <4>. QED
                BY <4>2, <4>3, <4>4
        <3>3. BallotInv'
            BY <2>1, <3>2, BallotsKept
        <3>4. NewGrants
            <4>. SUFFICES ASSUME NEW v \in Server, NEW c \in Server, v # c,
                                 campaign'[c] # 0, Granted(v, campaign[c], c)'
                          PROVE  Granted(v, campaign[c], c)
                BY <3>2 DEF NewGrants
            <4>1. loop'[c] = "candidate" /\ campaign'[c] = currentTerm'[c]
                BY DEF ElectionInv, LoopInv
            <4>2. ~ \E e \in elections' : e.term = campaign'[c] /\ e.leader = c
                BY <4>1 DEF FreshInv, Won
            <4>3. \/ v \in votes'[c]
                  \/ \E q \in voteReplies' : /\ q.from = v /\ q.to = c /\ q.granted
                                             /\ q.reqTerm = campaign'[c]
                BY <4>2 DEF Granted
            <4>4. CASE v \in votes[c]
                BY <4>4 DEF Granted
            <4>5. CASE c = n /\ v \in all
                BY <3>1, <4>5
            <4>6. CASE \E q \in voteReplies' : /\ q.from = v /\ q.to = c /\ q.granted
                                               /\ q.reqTerm = campaign'[c]
                BY <2>1, <3>2, <4>6 DEF Granted
            <4>. QED
                BY <3>2, <4>3, <4>4, <4>5, <4>6
        <3>5. NewWinners
            <4>. SUFFICES ASSUME NEW e \in elections', e \notin elections,
                                 NEW v \in e.votes
                          PROVE  /\ campaign[e.leader] = e.term
                                 /\ Granted(v, e.term, e.leader)
                BY DEF NewWinners
            <4>1. e.term = currentTerm[n] /\ e.leader = n /\ e.votes = all
                BY <2>3
            <4>. QED
                BY <2>1, <3>1, <4>1
        <3>. QED
            BY <3>3, <3>4, <3>5 DEF Goal
    <2>4. CASE /\ r.granted
               /\ campaign' = [campaign EXCEPT
                      ![n] = IF state[n] = "Candidate" THEN @ ELSE 0]
               /\ votes' = [votes EXCEPT
                      ![n] = IF state[n] = "Candidate" THEN @ \cup {r.from}
                             ELSE {}]
               /\ UNCHANGED elections
        <3>1. campaign' = campaign /\ votes' = [votes EXCEPT ![n] = all]
            BY <2>1, <2>4 DEF TypeOK
        <3>. QED
            BY <2>3, <2>4, <3>1
    <2>5. CASE r.granted /\ BecomeLeader(n, currentTerm[n], all)
        BY <2>3, <2>5 DEF BecomeLeader
    <2>. QED
        BY <1>6, <2>2, <2>4, <2>5 DEF HandleVoteReply
<1>7. ASSUME NEW n \in Server, NEW c \in calls, HandleAppendEntries(n, c)
      PROVE  Goal
    <2>1. /\ voteReqs' = voteReqs /\ voteReplies' \subseteq voteReplies
          /\ elections' = elections
        BY <1>7 DEF HandleAppendEntries, Listened
    <2>2. \E st : Reenter(n, st)
        BY <1>7 DEF HandleAppendEntries, RejectAppend, RefuseAppend, AcceptAppend,
                    FollowLeader
    <2>. QED
        BY <1>2, <2>1, <2>2
<1>8. ASSUME NEW n \in Server, CrashStep(n) PROVE Goal
    <2>1. \E left \in SUBSET calls : Reboot(n, left)
        BY <1>8 DEF CrashStep, Restart, TornPersist, TornAppend
    <2>2. /\ voteReqs' = voteReqs /\ voteReplies' \subseteq voteReplies
          /\ elections' = elections
          /\ campaign' = [campaign EXCEPT ![n] = 0]
          /\ votes' = [votes EXCEPT ![n] = {}]
        BY <2>1 DEF Reboot, Listened
    <2>3. \A c \in Server : campaign'[c] # 0 =>
              campaign'[c] = campaign[c] /\ votes'[c] = votes[c]
        BY <2>2 DEF TypeOK
    <2>. QED
        BY <1>1, <2>2, <2>3
<1>9. ASSUME voteReqs' \subseteq voteReqs,
             UNCHANGED <<voteReplies, campaign, votes, elections>>
      PROVE  Goal
    BY <1>1, <1>9
<1>10. ASSUME NEW n \in Server,
              \/ AppendNoOp(n)
              \/ \E v \in Value : HandleApplyRequest(n, v)
              \/ ReplicatorStep(n)
       PROVE  Goal
    BY <1>9, <1>10 DEF AppendNoOp, HandleApplyRequest, ReplicatorStep,
                       ReplicateOnce, HandleAppendReply, candVars, voteMsgs
<1>11. ASSUME \/ UNCHANGED vars
              \/ \E m \in voteReqs : VoteCallFails(m)
              \/ \E c \in calls : CallFails(c)
       PROVE  Goal
    BY <1>9, <1>11 DEF vars, VoteCallFails, CallFails, candVars, voteMsgs
<1>12. Goal
    BY <1>3, <1>4, <1>5, <1>6, <1>7, <1>8, <1>10, <1>11 DEF Next, MainStep
<1>. QED
    BY <1>12 DEF Goal

(***************************************************************************)
(* isLogUpToDate: a log that is at least as up to date as one that holds   *)
(* an entry holds it too, unless the Leader of a later term does not.      *)
(***************************************************************************)
LEMMA UpToDate ==
    ASSUME NEW L, Ledger(L), NEW a \in Seq(Entry), NEW b \in Seq(Entry),
           NEW u \in Nat, NEW w \in Nat, Traced(L, a, u), Traced(L, b, w),
           NEW k, NEW t, Has(a, k, t),
           isLogUpToDate(lastTerm(b), Len(b), lastTerm(a), Len(a))
    PROVE  Has(b, k, t) \/ Overruled(L, t, k, w)
<1>. DEFINE la == lastTerm(a)
            lb == lastTerm(b)
<1>1. /\ k \in 1..Len(a) /\ a[k].term = t /\ t \in Nat
      /\ Len(a) \in Nat /\ Len(b) \in Nat
    BY HasAgree DEF Has
<1>2. Len(a) \in 1..Len(a) /\ la = a[Len(a)].term
    BY <1>1 DEF lastTerm
<1>3. /\ la \in Nat /\ t <= la /\ la \in DOMAIN L /\ L[la] \in Seq(Entry)
      /\ Agree(a, L[la], Len(a))
    <2>1. la \in Nat
        BY <1>2, EntryTerm
    <2>2. t <= la
        BY <1>1, <1>2, TermsGrow
    <2>. HIDE DEF la
    <2>. QED
        BY <1>2, <2>1, <2>2 DEF Traced, Ledger
<1>4. lb \in Nat /\ la <= lb
    BY <1>3, LastTermType DEF isLogUpToDate
<1>5. Len(b) # 0
    <2>1. ASSUME Len(b) = 0 PROVE FALSE
        <3>1. lb = 0
            BY <2>1 DEF lastTerm
        <3>2. lb > la \/ Len(b) >= Len(a)
            BY DEF isLogUpToDate
        <3>. HIDE DEF la, lb
        <3>. QED
            BY <1>1, <1>3, <2>1, <3>1, <3>2
    <2>. QED
        BY <2>1
<1>6. Len(b) \in 1..Len(b) /\ lb = b[Len(b)].term
    BY <1>1, <1>5 DEF lastTerm
<1>7. /\ lb \in DOMAIN L /\ lb <= w /\ L[lb] \in Seq(Entry)
      /\ Agree(b, L[lb], Len(b)) /\ Traced(L, L[lb], lb)
    <2>. HIDE DEF lb
    <2>. QED
        BY <1>6 DEF Traced, Ledger
<1>8. lb > la \/ (lb = la /\ Len(b) >= Len(a))
    BY DEF isLogUpToDate
<1>. HIDE DEF la, lb
<1>9. CASE lb > la
    <2>1. t < lb
        BY <1>1, <1>3, <1>4, <1>9
    <2>2. CASE Has(L[lb], k, t)
        <3>1. k \in 1..Len(L[lb]) /\ L[lb][k].term = t
            BY <2>2 DEF Has
        <3>2. Len(b) <= Len(L[lb]) /\ L[lb][Len(b)] = b[Len(b)]
            BY <1>6, <1>7 DEF Agree
        <3>3. k <= Len(b)
            <4>1. ASSUME Len(b) < k PROVE FALSE
                <5>1. Len(b) \in 1..k
                    BY <1>1, <1>6, <4>1
                <5>2. L[lb][Len(b)].term <= L[lb][k].term
                    BY <1>4, <1>7, <3>1, <5>1, TermsGrow
                <5>. QED
                    BY <1>1, <1>4, <1>6, <2>1, <3>1, <3>2, <5>2
            <4>. QED
                BY <1>1, <4>1
        <3>4. k \in 1..Len(b) /\ b[k] = L[lb][k]
            BY <1>1, <1>7, <3>3 DEF Agree
        <3>. QED
            BY <3>1, <3>4 DEF Has
    <2>3. CASE ~ Has(L[lb], k, t)
        BY <1>7, <2>1, <2>3 DEF Overruled
    <2>. QED
        BY <2>2, <2>3
<1>10. CASE lb = la /\ Len(b) >= Len(a)
    <2>1. k \in 1..Len(b) /\ b[k] = L[la][k] /\ a[k] = L[la][k]
        BY <1>1, <1>3, <1>7, <1>10 DEF Agree
    <2>. QED
        BY <1>1, <2>1 DEF Has
<1>. QED
    BY <1>8, <1>9, <1>10

\* An entry of an earlier term than the server's was accepted before.
LEMMA AcceptedEarlier ==
    ASSUME TypeOK', RecordHistory, NEW a \in accepted', a.term # currentTerm'[a.server]
    PROVE  a \in accepted
    BY NewlyAccepted

LEMMA CandidateStep ==
    ASSUME Around, Candidacy, AcceptInv', BallotInv, CandidateInv, NewGrants
    PROVE  CandidateInv'
<1>. SUFFICES ASSUME NEW c \in Server, NEW a \in accepted', campaign'[c] # 0,
                     a.term < campaign'[c], Granted(a.server, campaign[c], c)'
              PROVE  \/ Has(log'[c], a.index, a.term)
                     \/ Overruled(leaderLog', a.term, a.index, campaign'[c])
    BY DEF CandidateInv
<1>. DEFINE v == a.server
            t == a.term
            k == a.index
<1>1. /\ TypeOK /\ TypeOK' /\ ElectionInv' /\ RecordHistory /\ TraceInv'
      /\ Ledger(leaderLog) /\ Ledger(leaderLog')
      /\ Grows(leaderLog, leaderLog')
      /\ \A x \in DOMAIN leaderLog : leaderLog'[x] \in Seq(Entry)
    BY Growing DEF Around, TraceInv
<1>2. /\ campaign'[c] = currentTerm'[c] /\ log'[c] = log[c]
      /\ campaign'[c] \in Nat
    BY <1>1 DEF ElectionInv, LoopInv, Candidacy, TypeOK
<1>3. /\ v \in Server /\ t \in DOMAIN leaderLog' /\ t \in Nat
      /\ \/ Has(log'[v], k, t)
         \/ Overruled(leaderLog', t, k, currentTerm'[v])
    BY <1>1 DEF AcceptInv, AcceptanceOK, TraceInv, Ledger
<1>4. CASE v = c
    BY <1>2, <1>3, <1>4
<1>5. CASE v # c
    <2>1. campaign'[c] <= currentTerm'[v] /\ currentTerm'[v] \in Nat
        BY <1>1, <1>2, <1>3, <1>5 DEF ElectionInv, GrantInv, TypeOK
    <2>2. a \in accepted
        BY <1>1, <1>2, <1>3, <2>1, AcceptedEarlier
    <2>3. /\ campaign'[c] = campaign[c]
          /\ Granted(v, campaign[c], c) \/ Votes(v, c)
        BY <1>3, <1>5 DEF NewGrants
    <2>4. CASE Granted(v, campaign[c], c)
        <3>1. Has(log[c], k, t) \/ Overruled(leaderLog, t, k, campaign[c])
            BY <2>2, <2>3, <2>4 DEF CandidateInv
        <3>2. CASE Overruled(leaderLog, t, k, campaign[c])
            BY <1>1, <1>2, <1>3, <2>3, <3>2, OverruledGrows
        <3>. QED
            BY <1>2, <3>1, <3>2
    <2>5. CASE Votes(v, c)
        <3>1. PICK m \in voteReqs :
                  /\ m.cand = c /\ m.term = campaign[c]
                  /\ isLogUpToDate(m.lastTerm, m.lastIndex, lastTerm(log[v]),
                                   Len(log[v]))
                  /\ currentTerm'[v] = m.term /\ log' = log
            BY <2>5 DEF Votes
        <3>2. m.lastIndex = Len(log'[c]) /\ m.lastTerm = lastTerm(log'[c])
            BY <2>3, <3>1 DEF BallotInv
        <3>3. CASE Has(log'[v], k, t)
            <4>1. /\ log'[v] \in Seq(Entry) /\ log'[c] \in Seq(Entry)
                  /\ currentTerm'[v] \in Nat /\ currentTerm'[c] \in Nat
                  /\ Traced(leaderLog', log'[v], currentTerm'[v])
                  /\ Traced(leaderLog', log'[c], currentTerm'[c])
                BY <1>1, <1>3 DEF TypeOK, TraceInv
            <4>2. isLogUpToDate(lastTerm(log'[c]), Len(log'[c]),
                                lastTerm(log'[v]), Len(log'[v]))
                BY <3>1, <3>2
            <4>. QED
                BY <1>1, <1>2, <3>3, <4>1, <4>2, UpToDate
        <3>. QED
            BY <1>3, <2>3, <3>1, <3>3
    <2>. QED
        BY <2>3, <2>4, <2>5
<1>. QED
    BY <1>4, <1>5

LEMMA ElectedStep ==
    ASSUME Around, AcceptInv, AcceptInv', CandidateInv, ElectedInv, NewWinners
    PROVE  ElectedInv'
<1>. SUFFICES ASSUME NEW e \in elections', NEW a \in accepted',
                     a.server \in e.votes, a.term < e.term
              PROVE  \/ Has(leaderLog'[e.term], a.index, a.term)
                     \/ Overruled(leaderLog', a.term, a.index, e.term - 1)
    BY DEF ElectedInv
<1>. DEFINE v == a.server
            t == a.term
            k == a.index
            W == e.term
<1>1. /\ TypeOK /\ TypeOK' /\ ElectionInv /\ ElectionInv' /\ RecordHistory
      /\ TraceInv /\ Ledger(leaderLog) /\ Grows(leaderLog, leaderLog')
      /\ \A x \in DOMAIN leaderLog : leaderLog'[x] \in Seq(Entry)
      /\ DOMAIN leaderLog = WonTerms /\ DOMAIN leaderLog' = WonTerms'
    BY Growing DEF Around, TraceInv
<1>2. W \in Nat /\ e.leader \in Server /\ v \in Server
    BY <1>1 DEF TypeOK
<1>3. W <= currentTerm'[v] /\ currentTerm'[v] \in Nat
    <2>1. currentTerm'[v] \in Nat
        BY <1>1, <1>2 DEF TypeOK
    <2>2. CASE v = e.leader
        BY <1>1, <2>1, <2>2 DEF ElectionInv, WinnerInv
    <2>3. CASE v # e.leader
        <3>1. Granted(v, W, e.leader)'
            BY DEF Granted
        <3>. QED
            BY <1>1, <1>2, <2>1, <2>3, <3>1 DEF ElectionInv, GrantInv
    <2>. QED
        BY <2>2, <2>3
<1>4. /\ a \in accepted /\ AcceptanceOK(a) /\ t \in Nat
    <2>1. t \in Nat
        BY <1>1 DEF AcceptInv, AcceptanceOK, WonTerms, TypeOK
    <2>2. t # currentTerm'[v]
        BY <1>2, <1>3, <2>1
    <2>3. a \in accepted
        BY <1>1, <2>2, AcceptedEarlier
    <2>. QED
        BY <2>1, <2>3 DEF AcceptInv
<1>5. CASE e \in elections
    <2>1. W \in DOMAIN leaderLog /\ W - 1 \in Nat
        BY <1>1, <1>2, <1>4, <1>5 DEF WonTerms
    <2>2. Has(leaderLog[W], k, t) \/ Overruled(leaderLog, t, k, W - 1)
        BY <1>4, <1>5 DEF ElectedInv
    <2>3. CASE Has(leaderLog[W], k, t)
        BY <1>1, <2>1, <2>3, HasGrows
    <2>4. CASE Overruled(leaderLog, t, k, W - 1)
        BY <1>1, <1>4, <2>1, <2>4, OverruledGrows
    <2>. QED
        BY <2>2, <2>3, <2>4
<1>6. CASE e \notin elections
    <2>1. PICK n \in Server : Wins(n)
        BY <1>6 DEF Around, LogStep, Obeys, Writes
    <2>2. PICK V \in SUBSET Server :
              elections' = elections \cup
                  {[term |-> currentTerm'[n], leader |-> n, votes |-> V]}
        BY <2>1 DEF Wins
    <2>3. W = currentTerm'[n] /\ e.leader = n
        BY <1>6, <2>2
    <2>4. /\ W \notin WonTerms /\ W \in WonTerms'
          /\ WonTerms' = WonTerms \cup {W}
          /\ \A x \in WonTerms : leaderLog'[x] = leaderLog[x]
          /\ leaderLog'[W] = log[n]
        BY <1>1, <2>1, <2>3, Gaining
    <2>5. ASSUME NEW u \in Nat, u <= W, Overruled(leaderLog, t, k, u)
          PROVE  Overruled(leaderLog', t, k, W - 1)
        <3>1. PICK x \in DOMAIN leaderLog : t < x /\ x <= u /\ ~ Has(leaderLog[x], k, t)
            BY <2>5 DEF Overruled
        <3>2. x \in Nat /\ x # W /\ x \in DOMAIN leaderLog'
              /\ leaderLog'[x] = leaderLog[x]
            BY <1>1, <2>4, <3>1 DEF Ledger
        <3>3. x <= W - 1
            BY <1>2, <2>5, <3>1, <3>2
        <3>. QED
            BY <3>1, <3>2, <3>3 DEF Overruled
    <2>6. CASE v = n
        <3>1. /\ currentTerm[n] \in Nat /\ currentTerm[n] <= W
              /\ Has(log[n], k, t) \/ Overruled(leaderLog, t, k, currentTerm[n])
            BY <1>1, <1>4, <2>1, <2>3, <2>6 DEF AcceptanceOK, Wins, TypeOK
        <3>. QED
            BY <2>4, <2>5, <3>1
    <2>7. CASE v # n
        <3>1. campaign[n] = W /\ Granted(v, W, n)
            BY <1>6, <2>3, <2>7 DEF NewWinners
        <3>2. campaign[n] # 0
            BY <1>2, <1>4, <3>1
        <3>3. Has(log[n], k, t) \/ Overruled(leaderLog, t, k, W)
            BY <1>4, <3>1, <3>2 DEF CandidateInv
        <3>. QED
            BY <1>2, <2>4, <2>5, <3>3
    <2>. QED
        BY <2>6, <2>7
<1>. QED
    BY <1>5, <1>6

LEMMA ChoiceStep ==
    ASSUME RacyStepDown = FALSE, Around, Candidacy, FreshInv, FreshInv',
           ChoiceInv, [Next]_vars
    PROVE  ChoiceInv'
<1>1. AcceptInv'
    BY AcceptStep DEF ChoiceInv
<1>2. BallotInv' /\ NewGrants /\ NewWinners
    <2>1. \A s \in Server : currentTerm[s] <= currentTerm'[s]
        BY Growing DEF Around
    <2>. QED
        BY <2>1, BallotStep DEF Around, ChoiceInv
<1>3. CandidateInv'
    BY <1>1, <1>2, CandidateStep DEF ChoiceInv
<1>4. ElectedInv'
    BY <1>1, <1>2, ElectedStep DEF ChoiceInv
<1>. QED
    BY <1>1, <1>2, <1>3, <1>4 DEF ChoiceInv

-----------------------------------------------------------------------------
(* What is chosen *)

\* Servers that every majority meets.
Blocks(Q) ==
    \A V \in SUBSET Server : IsQuorum(V, Server) => \E v \in V : v \in Q

\* No majority can elect a Leader without asking a server that has accepted
\* the entry of term t at index k in that term.
Chosen(t, k) ==
    \E Q \in SUBSET Server :
        Blocks(Q) /\ \A s \in Q : Acceptance(s, t, k) \in accepted

(***************************************************************************)
(* What is chosen every later Leader has.  The Leader of the first term    *)
(* without it was elected with the vote of a server that had accepted it,  *)
(* and so had it unless a Leader before had not.                           *)
(***************************************************************************)
LEMMA ChosenStays ==
    ASSUME TypeOK, ElectionInv, TraceInv, AcceptInv, ElectedInv,
           NEW t \in Nat, NEW k, Chosen(t, k), NEW w \in WonTerms, t <= w
    PROVE  Has(leaderLog[w], k, t)
<1>. DEFINE Without == {x \in WonTerms : t <= x /\ ~ Has(leaderLog[x], k, t)}
            W == Least(Without)
<1>1. PICK Q \in SUBSET Server :
          Blocks(Q) /\ \A s \in Q : Acceptance(s, t, k) \in accepted
    BY DEF Chosen
<1>2. DOMAIN leaderLog = WonTerms /\ WonTerms \subseteq Nat
    BY DEF TraceInv, Ledger
<1>3. ASSUME Without # {} PROVE FALSE
    <2>1. W \in Without /\ \A x \in Without : W <= x
        BY <1>2, <1>3, LeastNat
    <2>2. W \in WonTerms /\ W \in Nat /\ t <= W /\ ~ Has(leaderLog[W], k, t)
        BY <1>2, <2>1
    <2>. HIDE DEF W
    <2>3. PICK e \in elections : e.term = W
        BY <2>2 DEF WonTerms
    <2>4. IsQuorum(e.votes, Server) /\ e.votes \in SUBSET Server
        BY DEF ElectionInv, WinnerInv, TypeOK
    <2>5. PICK v \in e.votes : v \in Q
        BY <1>1, <2>4 DEF Blocks
    <2>. DEFINE a == Acceptance(v, t, k)
    <2>6. a \in accepted /\ a.server = v /\ a.term = t /\ a.index = k
        BY <1>1, <2>5 DEF Acceptance
    <2>. HIDE DEF a
    <2>7. Has(leaderLog[t], k, t)
        BY <2>6 DEF AcceptInv, AcceptanceOK
    <2>8. t < W
        BY <2>2, <2>7
    <2>9. Has(leaderLog[W], k, t) \/ Overruled(leaderLog, t, k, W - 1)
        BY <2>3, <2>5, <2>6, <2>8 DEF ElectedInv
    <2>10. PICK x \in DOMAIN leaderLog :
               t < x /\ x <= W - 1 /\ ~ Has(leaderLog[x], k, t)
        BY <2>2, <2>9 DEF Overruled
    <2>11. x \in WonTerms /\ x \in Nat
        BY <1>2, <2>10
    <2>12. t <= x /\ x < W
        BY <2>2, <2>10, <2>11
    <2>13. x \in Without
        BY <2>10, <2>11, <2>12
    <2>. HIDE DEF Without
    <2>. QED
        BY <2>1, <2>2, <2>11, <2>12, <2>13
<1>. QED
    BY <1>3

\* All the servers are a majority.
LEMMA AllAreQuorum == IsQuorum(Server, Server)
<1>1. Cardinality(Server) \in Nat /\ Cardinality(Server) # 0
    BY ServerAssumption, FS_CardinalityType, FS_EmptySet
<1>. QED
    BY <1>1 DEF IsQuorum, QuorumSize

\* What is chosen the Leader of its own term has, at an index of its log.
LEMMA ChosenHeld ==
    ASSUME AcceptInv, NEW t, NEW k, Chosen(t, k)
    PROVE  t \in WonTerms /\ Has(leaderLog[t], k, t)
<1>1. PICK Q \in SUBSET Server :
          Blocks(Q) /\ \A s \in Q : Acceptance(s, t, k) \in accepted
    BY DEF Chosen
<1>2. PICK s \in Q : TRUE
    BY <1>1, AllAreQuorum DEF Blocks
<1>3. Acceptance(s, t, k) \in accepted
    BY <1>1
<1>4. /\ Acceptance(s, t, k).term = t /\ Acceptance(s, t, k).index = k
    BY DEF Acceptance
<1>. QED
    BY <1>3, <1>4 DEF AcceptInv, AcceptanceOK

LEMMA ChosenGrows ==
    ASSUME RecordHistory, NEW t, NEW k, Chosen(t, k)
    PROVE  Chosen(t, k)'
<1>1. accepted \subseteq accepted'
    BY DEF RecordHistory
<1>. QED
    BY <1>1 DEF Chosen, Blocks

\* What is chosen no Leader overrules.
LEMMA NeverOverruled ==
    ASSUME TypeOK, ElectionInv, TraceInv, AcceptInv, ElectedInv,
           NEW t \in Nat, NEW k, Chosen(t, k), NEW u
    PROVE  ~ Overruled(leaderLog, t, k, u)
<1>. SUFFICES ASSUME NEW w \in DOMAIN leaderLog, t < w,
                     ~ Has(leaderLog[w], k, t)
              PROVE  FALSE
    BY DEF Overruled
<1>1. w \in WonTerms /\ w \in Nat
    BY DEF TraceInv, Ledger
<1>. QED
    BY <1>1, ChosenStays

-----------------------------------------------------------------------------
(* Commits *)

\* The first n entries of the log lg are what the Leader of a term t up to u
\* had before an entry of its own that is chosen.
Settled(lg, n, u) ==
    n > 0 => \E t \in DOMAIN leaderLog : \E k \in Nat :
                 /\ t <= u /\ n <= k /\ Chosen(t, k)
                 /\ Agree(lg, leaderLog[t], n)

\* Peer p has accepted what the Leader of term t wrote itself, up to m.
Acked(p, t, m) ==
    \A k \in 1..m :
        Has(leaderLog[t], k, t) => Acceptance(p, t, k) \in accepted

\* A server that is not Leader did not win the term it is in.
Steady(s) == state[s] = "Leader" \/ ~ Won(s, currentTerm[s])

\* A request tells of commits within what it brings; who has said yes has
\* accepted it; a node that waits for a reply is Leader, or was of an earlier
\* term.
CallSettled(c) ==
    /\ c.req.commit <= ReqEnd(c.req)
    /\ Settled(leaderLog[c.req.term], c.req.commit, c.req.term)
    /\ c.reply.success => Acked(c.req.to, c.req.term, ReqEnd(c.req))
    /\ c.status # "late" => Steady(c.req.from)

CommitInv ==
    /\ \A s \in Server : Settled(log[s], commitIndex[s], currentTerm[s])
    /\ \A c \in calls : CallSettled(c)
    /\ \A l, p \in Server :
           state[l] = "Leader" => Acked(p, currentTerm[l], matchIndex[l][p])

\* Facts about choices, as the steps use them.
Choices == TypeOK /\ ElectionInv /\ TraceInv /\ AcceptInv /\ ElectedInv

\* A settled log and the Leader of any later term agree.
LEMMA SettledAgree ==
    ASSUME Choices, NEW lg \in Seq(Entry), NEW n \in Nat, NEW u \in Nat,
           Settled(lg, n, u), NEW w \in WonTerms, u <= w
    PROVE  Agree(lg, leaderLog[w], n)
<1>0. /\ TypeOK /\ Ledger(leaderLog) /\ DOMAIN leaderLog = WonTerms
      /\ w \in Nat /\ leaderLog[w] \in Seq(Entry) /\ Traced(leaderLog, leaderLog[w], w)
    BY DEF Choices, TraceInv, Ledger
<1>1. CASE n = 0
    BY <1>0, <1>1 DEF Agree
<1>2. CASE n > 0
    <2>1. PICK t \in DOMAIN leaderLog, k \in Nat :
              /\ t <= u /\ n <= k /\ Chosen(t, k)
              /\ Agree(lg, leaderLog[t], n)
        BY <1>2 DEF Settled
    <2>2. t \in Nat /\ leaderLog[t] \in Seq(Entry) /\ t <= w
        BY <1>0, <2>1 DEF Ledger
    <2>3. Has(leaderLog[w], k, t)
        BY <2>1, <2>2, ChosenStays DEF Choices
    <2>4. Agree(leaderLog[w], leaderLog[t], k)
        BY <1>0, <2>3, HasAgree
    <2>5. Agree(leaderLog[t], leaderLog[w], n)
        BY <1>0, <2>1, <2>2, <2>4, AgreePrefix, AgreeSym
    <2>. QED
        BY <1>0, <2>1, <2>2, <2>5, AgreeTrans
<1>. QED
    BY <1>1, <1>2

\* What is settled stays so, in any log that agrees with it.
LEMMA SettledGrows ==
    ASSUME Around, NEW lg \in Seq(Entry), NEW n \in Nat, NEW u \in Nat,
           Settled(lg, n, u), NEW r \in Seq(Entry), Agree(r, lg, n),
           NEW w \in Nat, u <= w
    PROVE  Settled(r, n, w)'
<1>. SUFFICES ASSUME n > 0
              PROVE  \E t \in DOMAIN leaderLog' : \E k \in Nat :
                         /\ t <= w /\ n <= k /\ Chosen(t, k)'
                         /\ Agree(r, leaderLog'[t], n)
    BY DEF Settled
<1>1. PICK t \in DOMAIN leaderLog, k \in Nat :
          t <= u /\ n <= k /\ Chosen(t, k) /\ Agree(lg, leaderLog[t], n)
    BY DEF Settled
<1>2. /\ t \in Nat /\ leaderLog[t] \in Seq(Entry) /\ leaderLog'[t] \in Seq(Entry)
      /\ t \in DOMAIN leaderLog'
      /\ Agree(leaderLog[t], leaderLog'[t], Len(leaderLog[t]))
    BY <1>1, Growing DEF Around, TraceInv, Ledger, Grows
<1>3. n <= Len(leaderLog[t]) /\ Len(leaderLog[t]) \in Nat
    BY <1>1, <1>2 DEF Agree
<1>4. Agree(leaderLog[t], leaderLog'[t], n)
    BY <1>2, <1>3, AgreePrefix
<1>5. Agree(r, leaderLog'[t], n)
    BY <1>1, <1>2, <1>4, AgreeTrans
<1>6. Chosen(t, k)'
    BY <1>1, ChosenGrows DEF Around
<1>. QED
    BY <1>1, <1>2, <1>5, <1>6

(***************************************************************************)
(* A step takes nothing settled from a server's log: the Leader at whose   *)
(* request the log is rewritten has it too.                                *)
(***************************************************************************)
LEMMA SettledKept ==
    ASSUME Around, Choices, NEW s \in Server, NEW n \in Nat,
           Settled(log[s], n, currentTerm[s])
    PROVE  Agree(log'[s], log[s], n) /\ Settled(log[s], n, currentTerm[s])'
<1>1. /\ TypeOK /\ TypeOK' /\ TraceInv /\ Ledger(leaderLog)
      /\ DOMAIN leaderLog = WonTerms
    BY DEF Around, TraceInv
<1>2. /\ log[s] \in Seq(Entry) /\ log'[s] \in Seq(Entry)
      /\ currentTerm[s] \in Nat /\ currentTerm'[s] \in Nat
      /\ currentTerm[s] <= currentTerm'[s]
    BY <1>1, Growing DEF Around, TypeOK
<1>3. n <= Len(log[s]) /\ Agree(log[s], log[s], n)
    <2>1. n > 0 => n <= Len(log[s])
        BY DEF Settled, Agree
    <2>. QED
        BY <1>2, <2>1 DEF Agree
<1>4. Agree(log'[s], log[s], n)
    <2>1. CASE log'[s] = log[s]
        BY <1>3, <2>1
    <2>2. CASE Rewrites(s)
        <3>. DEFINE M == leaderLog[currentTerm'[s]]
        <3>1. /\ currentTerm'[s] \in WonTerms /\ M \in Seq(Entry)
              /\ \A m \in Nat : Agree(log[s], M, m) => Agree(log'[s], M, m)
            BY <1>1, <2>2 DEF Rewrites, Ledger
        <3>2. Agree(log[s], M, n)
            BY <1>2, <3>1, SettledAgree
        <3>3. Agree(log'[s], M, n) /\ Agree(M, log[s], n)
            BY <3>1, <3>2, AgreeSym
        <3>. HIDE DEF M
        <3>. QED
            BY <1>2, <3>1, <3>3, AgreeTrans
    <2>3. ASSUME NEW l \in Server, Writes(l) PROVE Agree(log'[s], log[s], n)
        <3>1. PICK e \in Entry : log' = [log EXCEPT ![l] = Append(@, e)]
            BY <2>3 DEF Writes
        <3>2. log'[s] = log[s] \/ log'[s] = Append(log[s], e)
            BY <1>1, <3>1 DEF TypeOK
        <3>3. /\ Len(Append(log[s], e)) = Len(log[s]) + 1
              /\ \A j \in 1..Len(log[s]) : Append(log[s], e)[j] = log[s][j]
            BY <1>2, AppendProperties
        <3>4. Agree(Append(log[s], e), log[s], n)
            BY <1>2, <1>3, <3>3 DEF Agree
        <3>. QED
            BY <1>3, <3>2, <3>4
    <2>4. (\E l \in Server : Wins(l)) => log' = log
        BY DEF Wins
    <2>. QED
        BY <2>1, <2>2, <2>3, <2>4 DEF Around, LogStep, Obeys
<1>5. ASSUME NEW r \in Seq(Entry), NEW w \in Nat, Agree(r, log[s], n),
             currentTerm[s] <= w, n > 0
      PROVE  \E t \in DOMAIN leaderLog' : \E k \in Nat :
                 /\ t <= w /\ n <= k /\ Chosen(t, k)'
                 /\ Agree(r, leaderLog'[t], n)
    <2>1. Settled(r, n, w)'
        BY <1>2, <1>5, SettledGrows
    <2>. QED
        BY <1>5, <2>1 DEF Settled
<1>6. n > 0 => \E t \in DOMAIN leaderLog' : \E k \in Nat :
                   /\ t <= currentTerm'[s] /\ n <= k /\ Chosen(t, k)'
                   /\ Agree(log'[s], leaderLog'[t], n)
    BY <1>2, <1>4, <1>5
<1>. QED
    BY <1>4, <1>6 DEF Settled

\* Nor from the log of a Leader, which every request carries a piece of.
LEMMA LeaderSettledKept ==
    ASSUME Around, NEW t \in WonTerms, NEW n \in Nat,
           Settled(leaderLog[t], n, t)
    PROVE  Settled(leaderLog[t], n, t)'
<1>1. /\ t \in DOMAIN leaderLog /\ t \in Nat /\ leaderLog[t] \in Seq(Entry)
      /\ leaderLog'[t] \in Seq(Entry)
      /\ Agree(leaderLog[t], leaderLog'[t], Len(leaderLog[t]))
    BY Growing DEF Around, TraceInv, Ledger, Grows
<1>2. n <= Len(leaderLog[t]) /\ Len(leaderLog[t]) \in Nat
    <2>1. n > 0 => n <= Len(leaderLog[t])
        BY DEF Settled, Agree
    <2>. QED
        BY <1>1, <2>1
<1>3. Agree(leaderLog'[t], leaderLog[t], n)
    BY <1>1, <1>2, AgreePrefix, AgreeSym
<1>4. ASSUME NEW r \in Seq(Entry), Agree(r, leaderLog[t], n), n > 0
      PROVE  \E u \in DOMAIN leaderLog' : \E k \in Nat :
                 /\ u <= t /\ n <= k /\ Chosen(u, k)'
                 /\ Agree(r, leaderLog'[u], n)
    <2>1. t <= t
        BY <1>1
    <2>2. Settled(r, n, t)'
        BY <1>1, <1>4, <2>1, SettledGrows
    <2>. QED
        BY <1>4, <2>2 DEF Settled
<1>. QED
    BY <1>1, <1>3, <1>4 DEF Settled

\* What a peer has accepted it has accepted.
LEMMA AckedKept ==
    ASSUME Around, NEW p \in Server, NEW t \in WonTerms, NEW m \in Nat,
           m <= Len(leaderLog[t]), Acked(p, t, m)
    PROVE  Acked(p, t, m)'
<1>1. /\ leaderLog[t] \in Seq(Entry) /\ leaderLog'[t] \in Seq(Entry)
      /\ Agree(leaderLog[t], leaderLog'[t], Len(leaderLog[t]))
    BY Growing DEF Around, TraceInv, Ledger, Grows
<1>2. ASSUME NEW k \in 1..m, Has(leaderLog'[t], k, t)
      PROVE  Acceptance(p, t, k) \in accepted'
    <2>1. k \in 1..Len(leaderLog[t]) /\ leaderLog'[t][k] = leaderLog[t][k]
        BY <1>1 DEF Agree
    <2>2. Has(leaderLog[t], k, t)
        BY <1>2, <2>1 DEF Has
    <2>. QED
        BY <2>2 DEF Acked, Around, RecordHistory
<1>. QED
    BY <1>2 DEF Acked, Acceptance

\* Only a crash makes a Leader forget that it leads its term.
LEMMA SteadyKept ==
    ASSUME Around, NEW s \in Server, Steady(s),
           state[s] = "Leader" /\ currentTerm'[s] = currentTerm[s]
               => state'[s] = "Leader"
    PROVE  Steady(s)'
<1>. SUFFICES ASSUME state'[s] # "Leader", NEW e \in elections',
                     e.term = currentTerm'[s], e.leader = s
              PROVE  FALSE
    BY DEF Steady, Won
<1>0. TypeOK /\ TypeOK' /\ ElectionInv
    BY DEF Around
<1>1. e \in elections
    <2>1. ASSUME NEW n \in Server, Wins(n) PROVE e \in elections
        <3>1. PICK V \in SUBSET Server :
                  elections' = elections \cup
                      {[term |-> currentTerm'[n], leader |-> n, votes |-> V]}
            BY <2>1 DEF Wins
        <3>2. n # s
            BY <1>0, <2>1 DEF Wins, TypeOK
        <3>. QED
            BY <3>1, <3>2
    <2>. QED
        BY <2>1 DEF Around, LogStep, Obeys, Writes
<1>2. /\ e.term <= currentTerm[s] /\ currentTerm[s] <= currentTerm'[s]
      /\ currentTerm[s] \in Nat /\ currentTerm'[s] \in Nat
    BY <1>0, <1>1, Growing DEF Around, ElectionInv, WinnerInv, TypeOK
<1>3. currentTerm'[s] = currentTerm[s]
    BY <1>2
<1>4. Won(s, currentTerm[s])
    BY <1>1, <1>3 DEF Won
<1>. QED
    BY <1>3, <1>4 DEF Steady

\* A call whose request is old, with the old reply or a new one.
LEMMA CallSettledKept ==
    ASSUME Around, NEW d \in calls, RequestOK(d), CallSettled(d), NEW c \in Call,
           c.req = d.req,
           \/ c.reply = d.reply
           \/ c.reply.success => Acked(c.req.to, c.req.term, ReqEnd(c.req))',
           c.status # "late" =>
               /\ d.status # "late"
               /\ state[c.req.from] = "Leader"
                  /\ currentTerm'[c.req.from] = currentTerm[c.req.from]
                     => state'[c.req.from] = "Leader"
    PROVE  CallSettled(c)'
<1>. DEFINE req == c.req
            t == c.req.term
<1>1. /\ req \in AppendReq /\ req.to \in Server /\ req.from \in Server
      /\ req.commit \in Nat /\ req.entries \in Seq(Entry) /\ req.prevIndex \in Nat
    BY DEF Call, AppendReq
<1>2. ReqEnd(req) \in Nat
    BY <1>1 DEF ReqEnd
<1>3. /\ t \in WonTerms /\ ReqEnd(req) <= Len(leaderLog[t])
    BY DEF RequestOK, Piece, Around, TraceInv
<1>4. Settled(leaderLog[t], req.commit, t)'
    BY <1>1, <1>3, LeaderSettledKept DEF CallSettled
<1>5. c.reply.success => Acked(req.to, t, ReqEnd(req))'
    <2>1. CASE c.reply = d.reply
        BY <1>1, <1>2, <1>3, <2>1, AckedKept DEF CallSettled
    <2>. QED
        BY <2>1
<1>6. c.status # "late" => Steady(req.from)'
    BY <1>1, SteadyKept DEF CallSettled
<1>. QED
    BY <1>4, <1>5, <1>6 DEF CallSettled

-----------------------------------------------------------------------------
(* advanceCommitIndex *)

\* The index that it finds a majority has reached.
LEMMA MajorityReached ==
    ASSUME NEW match \in [Server -> Nat], NEW top \in Nat,
           \A s \in Server : match[s] <= top
    PROVE  IsQuorum({r \in Server : match[r] >= CommitCandidate(match, Server)},
                    Server)
<1>. DEFINE Reached(x) == {r \in Server : match[r] >= x}
            Usable == {s \in Server : IsQuorum(Reached(match[s]), Server)}
            S == {match[s] : s \in Usable}
            All == {match[s] : s \in Server}
<1>1. CommitCandidate(match, Server) = Greatest(S)
    BY DEF CommitCandidate, IsQuorum
<1>2. S # {}
    <2>1. All \in SUBSET Nat /\ All # {}
        BY ServerAssumption
    <2>2. Least(All) \in All /\ \A y \in All : Least(All) <= y
        BY <2>1, LeastNat
    <2>3. PICK s \in Server : match[s] = Least(All)
        BY <2>2
    <2>4. \A r \in Server : match[r] >= match[s]
        BY <2>2, <2>3
    <2>5. Reached(match[s]) = Server
        BY <2>4
    <2>6. s \in Usable
        BY <2>5, AllAreQuorum
    <2>. QED
        BY <2>6
<1>3. S \in SUBSET (0..top)
    <2>1. \A s \in Server : match[s] \in 0..top
        OBVIOUS
    <2>. HIDE DEF Reached
    <2>. QED
        BY <2>1
<1>4. Greatest(S) \in S
    BY <1>2, <1>3, GreatestNat
<1>5. PICK s \in Usable : Greatest(S) = match[s]
    BY <1>4
<1>6. IsQuorum(Reached(Greatest(S)), Server)
    BY <1>5
<1>. QED
    BY <1>1, <1>6

(***************************************************************************)
(* A Leader commits: the entry is of its own term, and a majority has      *)
(* accepted it.                                                            *)
(***************************************************************************)
LEMMA Committing ==
    ASSUME TypeOK, TraceInv, AcceptInv, NEW n \in Server, state[n] = "Leader",
           NEW match \in [Server -> Nat],
           \A p \in Server : /\ Acked(p, currentTerm[n], match[p])
                             /\ match[p] <= Len(log[n]),
           Advance(n, match) # commitIndex[n]
    PROVE  /\ Advance(n, match) \in 1..Len(log[n])
           /\ Chosen(currentTerm[n], Advance(n, match))
<1>. DEFINE T == currentTerm[n]
            all == [match EXCEPT ![n] = Len(log[n])]
            k == CommitCandidate(all, Server)
            Q == {r \in Server : all[r] >= k}
<1>1. /\ T \in Nat /\ log[n] \in Seq(Entry) /\ Len(log[n]) \in Nat
      /\ commitIndex[n] \in Nat /\ leaderLog[T] = log[n]
    BY DEF TypeOK, TraceInv
<1>2. /\ all \in [Server -> Nat] /\ all[n] = Len(log[n])
      /\ \A s \in Server : s # n => all[s] = match[s]
    BY <1>1
<1>3. \A s \in Server : all[s] <= Len(log[n])
    BY <1>1, <1>2
<1>. HIDE DEF all
<1>4. IsQuorum(Q, Server)
    BY <1>1, <1>2, <1>3, MajorityReached
<1>5. /\ Advance(n, match) = k
      /\ k \in (commitIndex[n] + 1)..Len(log[n]) /\ log[n][k].term = T
    BY DEF Advance, LeaderCommit, all
<1>. HIDE DEF k
<1>6. k \in 1..Len(log[n])
    BY <1>1, <1>5
<1>7. ASSUME NEW r \in Q PROVE Acceptance(r, T, k) \in accepted
    <2>1. CASE r = n
        BY <1>5, <1>6, <2>1 DEF AcceptInv
    <2>2. CASE r # n
        <3>1. k \in 1..match[r]
            BY <1>2, <1>6, <2>2
        <3>2. Has(leaderLog[T], k, T)
            BY <1>1, <1>5, <1>6 DEF Has
        <3>. QED
            BY <3>1, <3>2 DEF Acked
    <2>. QED
        BY <2>1, <2>2
<1>8. Blocks(Q)
    <2>. SUFFICES ASSUME NEW V \in SUBSET Server, IsQuorum(V, Server)
                  PROVE  \E v \in V : v \in Q
        BY DEF Blocks
    <2>. HIDE DEF Q
    <2>1. Q \in SUBSET Server
        BY DEF Q
    <2>. QED
        BY <1>4, <2>1, QuorumsMeet
<1>9. Chosen(T, k)
    <2>1. Q \in SUBSET Server
        OBVIOUS
    <2>. HIDE DEF Q
    <2>. QED
        BY <1>7, <1>8, <2>1 DEF Chosen
<1>. QED
    BY <1>5, <1>6, <1>9

\* In a cluster of at most four, any two servers meet every majority.
LEMMA PairBlocks ==
    ASSUME Cardinality(Server) <= 4, NEW x \in Server, NEW y \in Server, x # y
    PROVE  Blocks({x, y})
<1>. DEFINE N == Cardinality(Server)
            R == (Server \ {x}) \ {y}
<1>1. N \in Nat /\ IsFiniteSet(Server)
    BY ServerAssumption, FS_CardinalityType
<1>2. IsFiniteSet(Server \ {x}) /\ Cardinality(Server \ {x}) = N - 1
    BY <1>1, FS_RemoveElement
<1>3. IsFiniteSet(R) /\ Cardinality(R) = N - 1 - 1
    BY <1>2, FS_RemoveElement
<1>4. ASSUME NEW V \in SUBSET Server, IsQuorum(V, Server), x \notin V, y \notin V
      PROVE  FALSE
    <2>1. V \subseteq R
        BY <1>4
    <2>2. Cardinality(V) <= N - 1 - 1 /\ Cardinality(V) \in Nat
        BY <1>3, <2>1, FS_Subset, FS_CardinalityType
    <2>3. Cardinality(V) >= (N \div 2) + 1
        BY <1>4 DEF IsQuorum, QuorumSize
    <2>. QED
        BY <1>1, <2>2, <2>3
<1>. QED
    BY <1>4 DEF Blocks

(***************************************************************************)
(* A node that is no longer Leader may still commit an entry of its        *)
(* current term, on a late reply to the leader it was: nothing in          *)
(* replicateOnce asks for its state.  It holds the entry, and so does the  *)
(* Leader that wrote it.  In a cluster of three or four that is enough; in *)
(* one of five the remaining three are a majority.                         *)
(***************************************************************************)
LEMMA LateCommit ==
    ASSUME Cardinality(Server) <= 4, TypeOK, ElectionInv, TraceInv, AcceptInv,
           NEW n \in Server, Steady(n), state[n] # "Leader",
           NEW k \in 1..Len(log[n]), log[n][k].term = currentTerm[n]
    PROVE  Chosen(currentTerm[n], k)
<1>. DEFINE T == currentTerm[n]
<1>1. /\ log[n] \in Seq(Entry) /\ T \in Nat /\ Ledger(leaderLog)
      /\ Traced(leaderLog, log[n], T) /\ DOMAIN leaderLog = WonTerms
    BY DEF TypeOK, TraceInv
<1>2. Has(log[n], k, T)
    BY DEF Has
<1>3. T \in WonTerms /\ Has(leaderLog[T], k, T)
    BY <1>1, <1>2, HasAgree
<1>4. PICK e \in elections : e.term = T
    BY <1>3 DEF WonTerms
<1>5. e.leader \in Server /\ e.leader # n
    BY <1>4 DEF Steady, Won, TypeOK
<1>6. Acceptance(e.leader, T, k) \in accepted
    <2>1. k \in 1..Len(leaderLog[T]) /\ leaderLog[T][k].term = T
        BY <1>3 DEF Has
    <2>. QED
        BY <1>4, <2>1 DEF AcceptInv
<1>7. Acceptance(n, T, k) \in accepted
    BY DEF AcceptInv
<1>8. Blocks({n, e.leader})
    BY <1>5, PairBlocks
<1>. QED
    BY <1>5, <1>6, <1>7, <1>8 DEF Chosen

-----------------------------------------------------------------------------
(* Every step keeps CommitInv *)

\* Server s is not made to forget that it leads its term.
Remains(s) ==
    state[s] = "Leader" /\ currentTerm'[s] = currentTerm[s]
        => state'[s] = "Leader"

\* The call c was there before the step, if not with the same status.
OldCall(c) ==
    \E d \in calls :
        /\ c.req = d.req /\ c.reply = d.reply
        /\ c.status # "late" => d.status # "late" /\ Remains(c.req.from)

LEMMA CommitKept ==
    ASSUME Around, Choices, RequestInv, PeerInv, CommitInv,
           \A s \in Server :
               \/ commitIndex'[s] \in {0, commitIndex[s]}
               \/ Settled(log[s], commitIndex[s], currentTerm[s])',
           \A c \in calls' : OldCall(c) \/ CallSettled(c)',
           \A l, p \in Server : state'[l] = "Leader" =>
               \/ matchIndex'[l][p] = 0
               \/ /\ state[l] = "Leader" /\ currentTerm'[l] = currentTerm[l]
                  /\ matchIndex'[l][p] = matchIndex[l][p]
               \/ Acked(p, currentTerm[l], matchIndex[l][p])'
    PROVE  CommitInv'
<1>0. TypeOK /\ TypeOK'
    BY DEF Around
<1>1. ASSUME NEW s \in Server
      PROVE  Settled(log[s], commitIndex[s], currentTerm[s])'
    <2>1. CASE commitIndex'[s] = 0
        BY <2>1 DEF Settled
    <2>2. CASE commitIndex'[s] = commitIndex[s]
        <3>1. commitIndex[s] \in Nat
            BY <1>0 DEF TypeOK
        <3>2. ASSUME NEW n \in Nat, n = commitIndex[s]
              PROVE  Settled(log[s], n, currentTerm[s])'
            BY <3>2, SettledKept DEF CommitInv
        <3>. QED
            BY <2>2, <3>1, <3>2 DEF Settled
    <2>. QED
        BY <2>1, <2>2
<1>2. ASSUME NEW c \in calls' PROVE CallSettled(c)'
    <2>1. CASE OldCall(c)
        <3>1. PICK d \in calls :
                  /\ c.req = d.req /\ c.reply = d.reply
                  /\ c.status # "late" => d.status # "late" /\ Remains(c.req.from)
            BY <2>1 DEF OldCall
        <3>2. c \in Call /\ RequestOK(d) /\ CallSettled(d)
            BY <1>0 DEF TypeOK, RequestInv, CommitInv
        <3>. QED
            BY <3>1, <3>2, CallSettledKept DEF Remains
    <2>. QED
        BY <2>1
<1>3. ASSUME NEW l \in Server, NEW p \in Server, state'[l] = "Leader"
      PROVE  Acked(p, currentTerm[l], matchIndex[l][p])'
    <2>1. CASE matchIndex'[l][p] = 0
        BY <2>1 DEF Acked
    <2>2. CASE /\ state[l] = "Leader" /\ currentTerm'[l] = currentTerm[l]
               /\ matchIndex'[l][p] = matchIndex[l][p]
        <3>1. matchIndex \in [Server -> [Server -> Nat]]
            BY <1>0 DEF TypeOK
        <3>2. ASSUME NEW m \in Nat, m = matchIndex[l][p],
                     NEW t \in WonTerms, t = currentTerm[l]
              PROVE  Acked(p, t, m)'
            <4>1. Acked(p, t, m)
                BY <2>2, <3>2 DEF CommitInv
            <4>2. m > 0 => m <= Len(leaderLog[t])
                BY <2>2, <3>2 DEF PeerInv, Holds
            <4>3. leaderLog[t] \in Seq(Entry)
                BY DEF Around, TraceInv, Ledger
            <4>4. m <= Len(leaderLog[t])
                BY <4>2, <4>3
            <4>. QED
                BY <4>1, <4>4, AckedKept
        <3>3. currentTerm[l] \in WonTerms
            BY <2>2 DEF Around, ElectionInv, LoopInv, Won, WonTerms
        <3>4. matchIndex[l][p] \in Nat
            BY <3>1
        <3>. QED
            BY <2>2, <3>2, <3>3, <3>4 DEF Acked
    <2>. QED
        BY <1>3, <2>1, <2>2
<1>. QED
    BY <1>1, <1>2, <1>3 DEF CommitInv

\* A step without an election, a count or a new request.
LEMMA CommitQuiet ==
    ASSUME Around, Choices, RequestInv, PeerInv, CommitInv,
           elections' = elections,
           \A s \in Server : commitIndex'[s] \in {0, commitIndex[s]},
           \A c \in calls' : OldCall(c),
           \A l \in Server : state'[l] = "Leader" => matchIndex'[l] = matchIndex[l]
    PROVE  CommitInv'
<1>1. \A l \in Server : state'[l] = "Leader" =>
          state[l] = "Leader" /\ currentTerm'[l] = currentTerm[l]
    BY LeadersStay DEF Around
<1>. QED
    BY <1>1, CommitKept

\* A call that stays as it is.
LEMMA SameCall ==
    ASSUME NEW c \in calls, c.status = "late" \/ Remains(c.req.from)
    PROVE  OldCall(c)
    BY DEF OldCall

\* A new Leader has counted nothing yet.
LEMMA CommitNewLeader ==
    ASSUME Around, Choices, RequestInv, PeerInv, CommitInv,
           NEW n \in Server, NEW t, NEW V, BecomeLeader(n, t, V),
           \A s \in Server : s # n => currentTerm'[s] = currentTerm[s],
           commitIndex' = commitIndex
    PROVE  CommitInv'
<1>0. TypeOK /\ TypeOK'
    BY DEF Around
<1>1. /\ state' = [state EXCEPT ![n] = "Leader"]
      /\ matchIndex' = [matchIndex EXCEPT ![n] = [p \in Server |-> 0]]
      /\ calls' = {IF c.req.from = n /\ c.status = "live"
                   THEN [c EXCEPT !.status = "orphan"] ELSE c : c \in calls}
    BY DEF BecomeLeader, InitPeers
<1>2. \A s \in Server : Remains(s)
    BY <1>0, <1>1 DEF Remains, TypeOK
<1>3. ASSUME NEW c \in calls' PROVE OldCall(c)
    <2>1. PICK d \in calls :
              c = IF d.req.from = n /\ d.status = "live"
                  THEN [d EXCEPT !.status = "orphan"] ELSE d
        BY <1>1
    <2>2. /\ c.req = d.req /\ c.reply = d.reply /\ c.req.from \in Server
          /\ c.status # "late" => d.status # "late"
        BY <1>0, <2>1 DEF TypeOK, Call, AppendReq
    <2>. QED
        BY <1>2, <2>2 DEF OldCall
<1>4. ASSUME NEW l \in Server, NEW p \in Server, state'[l] = "Leader"
      PROVE  \/ matchIndex'[l][p] = 0
             \/ /\ state[l] = "Leader" /\ currentTerm'[l] = currentTerm[l]
                /\ matchIndex'[l][p] = matchIndex[l][p]
    <2>1. CASE l = n
        BY <1>0, <1>1, <2>1 DEF TypeOK
    <2>2. CASE l # n
        BY <1>0, <1>1, <1>4, <2>2 DEF TypeOK
    <2>. QED
        BY <2>1, <2>2
<1>. QED
    BY <1>3, <1>4, CommitKept

\* replicateOnce: the request tells of what its sender has committed.
LEMMA CommitSending ==
    ASSUME Around, Choices, RequestInv, PeerInv, CommitInv,
           NEW n \in Server, NEW p \in Server, ReplicateOnce(n, p)
    PROVE  CommitInv'
<1>. DEFINE req == AppendRequest(n, p)
            new == [req |-> req, reply |-> NoReply, status |-> "live"]
            T == currentTerm[n]
<1>0. TypeOK /\ TypeOK' /\ ElectionInv /\ TraceInv
    BY DEF Around
<1>1. /\ UNCHANGED <<matchIndex, elections, currentTerm, state, commitIndex>>
      /\ state[n] = "Leader" /\ calls' = calls \cup {new}
    BY DEF ReplicateOnce, peerVars, persistent
<1>2. /\ req.from = n /\ req.term = T /\ req.commit = commitIndex[n]
      /\ ReqEnd(req) = Len(log[n])
    BY <1>0, <1>1, Sending DEF AppendRequest
<1>. HIDE DEF req
<1>3. /\ T \in WonTerms /\ leaderLog[T] = log[n] /\ commitIndex[n] \in Nat
      /\ Len(log[n]) \in Nat
    <2>1. T \in WonTerms
        BY <1>0, <1>1 DEF ElectionInv, LoopInv, Won, WonTerms
    <2>2. leaderLog[T] = log[n]
        BY <1>0, <1>1 DEF TraceInv
    <2>3. commitIndex[n] \in Nat /\ Len(log[n]) \in Nat
        BY <1>0 DEF TypeOK
    <2>. QED
        BY <2>1, <2>2, <2>3
<1>4. Settled(leaderLog[T], commitIndex[n], T)
    BY <1>3 DEF CommitInv
<1>5. commitIndex[n] <= Len(log[n])
    <2>1. commitIndex[n] > 0 => commitIndex[n] <= Len(log[n])
        BY <1>3, <1>4 DEF Settled, Agree
    <2>. QED
        BY <1>3, <2>1
<1>6. ASSUME NEW t \in WonTerms, t = T, NEW k \in Nat, k = commitIndex[n]
      PROVE  Settled(leaderLog[t], k, t)'
    BY <1>4, <1>6, LeaderSettledKept
<1>7. ASSUME NEW c \in calls', c = new PROVE CallSettled(c)'
    <2>1. /\ c.req = req /\ ~ c.reply.success
        BY <1>7 DEF NoReply
    <2>2. c.req.term \in WonTerms /\ c.req.term = T
          /\ c.req.commit \in Nat /\ c.req.commit = commitIndex[n]
        BY <1>2, <1>3, <2>1
    <2>3. Settled(leaderLog[c.req.term], c.req.commit, c.req.term)'
        BY <1>6, <2>2
    <2>4. c.req.commit <= ReqEnd(c.req)
        BY <1>2, <1>5, <2>1
    <2>5. Steady(c.req.from)'
        BY <1>1, <1>2, <2>1 DEF Steady
    <2>. QED
        BY <2>1, <2>3, <2>4, <2>5 DEF CallSettled
<1>. HIDE DEF new
<1>8. \A c \in calls : OldCall(c)
    BY <1>1, SameCall DEF Remains
<1>9. \A l \in Server : state'[l] = "Leader" =>
          state[l] = "Leader" /\ currentTerm'[l] = currentTerm[l]
    BY <1>1
<1>10. \A c \in calls' : OldCall(c) \/ CallSettled(c)'
    BY <1>1, <1>7, <1>8
<1>. QED
    BY <1>1, <1>9, <1>10, CommitKept

\* The answer of handleAppendEntries, for the three ways to answer.
LEMMA CommitAnswer ==
    ASSUME Around, Choices, RequestInv, PeerInv, CommitInv,
           elections' = elections, matchIndex' = matchIndex,
           \A s \in Server : Remains(s),
           NEW c \in calls, NEW rp \in AppendReply, calls' = Answer(c, rp),
           rp.success => Acked(c.req.to, c.req.term, ReqEnd(c.req))',
           \A s \in Server :
               \/ commitIndex'[s] \in {0, commitIndex[s]}
               \/ Settled(log[s], commitIndex[s], currentTerm[s])'
    PROVE  CommitInv'
<1>0. TypeOK /\ TypeOK'
    BY DEF Around
<1>1. ASSUME NEW d \in calls' PROVE OldCall(d) \/ CallSettled(d)'
    <2>1. PICK o \in calls :
              /\ d.req = o.req /\ d.status = o.status
              /\ \/ d.reply = o.reply
                 \/ o = c /\ d.reply = rp
        BY <1>0 DEF Answer, TypeOK, Call
    <2>2. d \in Call /\ d.req.from \in Server
        BY <1>0 DEF TypeOK, Call, AppendReq
    <2>3. Remains(d.req.from) /\ RequestOK(o) /\ CallSettled(o)
        BY <2>2 DEF RequestInv, CommitInv
    <2>4. CASE d.reply = o.reply
        BY <2>1, <2>3, <2>4 DEF OldCall
    <2>5. CASE o = c /\ d.reply = rp
        BY <2>1, <2>2, <2>3, <2>5, CallSettledKept DEF Remains
    <2>. QED
        BY <2>1, <2>4, <2>5
<1>2. \A l \in Server : state'[l] = "Leader" =>
          state[l] = "Leader" /\ currentTerm'[l] = currentTerm[l]
    BY LeadersStay DEF Around
<1>. QED
    BY <1>1, <1>2, CommitKept

\* Who follows a Leader was not the Leader of that term.
LEMMA FollowerRemains ==
    ASSUME TypeOK, ElectionInv, NEW n \in Server, NEW c \in calls, c.req.to = n,
           FollowLeader(n, c.req)
    PROVE  \A s \in Server : Remains(s)
<1>1. /\ currentTerm' = [currentTerm EXCEPT ![n] = c.req.term]
      /\ state' = [state EXCEPT ![n] = "Follower"]
    BY FollowedLeader
<1>2. Remains(n)
    <2>. SUFFICES ASSUME state[n] = "Leader", c.req.term = currentTerm[n]
                  PROVE  FALSE
        BY <1>1 DEF Remains, TypeOK
    <2>1. Won(n, currentTerm[n])
        BY DEF ElectionInv, LoopInv
    <2>. QED
        BY <2>1, SenderWon
<1>. QED
    BY <1>1, <1>2 DEF Remains, TypeOK

\* handleAppendEntries: who says yes has accepted what the Leader wrote
\* itself, and commits what the Leader told.
LEMMA CommitAccepting ==
    ASSUME Around, Choices, AcceptInv', RequestInv, PeerInv, CommitInv,
           NEW n \in Server, NEW c \in calls, c.req.to = n, AcceptAppend(n, c)
    PROVE  /\ Acked(c.req.to, c.req.term, ReqEnd(c.req))'
           /\ \A s \in Server :
                  \/ commitIndex'[s] = commitIndex[s]
                  \/ Settled(log[s], commitIndex[s], currentTerm[s])'
<1>. DEFINE T == c.req.term
            e == ReqEnd(c.req)
            m == c.req.commit
<1>0. TypeOK /\ TypeOK'
    BY DEF Around
<1>1. /\ currentTerm'[n] = T /\ Agree(log'[n], leaderLog'[T], e)
    BY Accepting
<1>2. /\ T \in WonTerms /\ m \in Nat /\ e \in Nat /\ m <= e
      /\ Settled(leaderLog[T], m, T)
    <2>1. c.req \in AppendReq /\ RequestOK(c) /\ CallSettled(c)
        BY <1>0 DEF TypeOK, Call, RequestInv, CommitInv
    <2>2. /\ c.req.commit \in Nat /\ c.req.entries \in Seq(Entry)
          /\ c.req.prevIndex \in Nat
        BY <2>1 DEF AppendReq
    <2>3. e \in Nat
        BY <2>2 DEF ReqEnd
    <2>4. T \in WonTerms
        BY <2>1 DEF RequestOK, Piece, Around, TraceInv
    <2>. QED
        BY <2>1, <2>2, <2>3, <2>4 DEF CallSettled
<1>3. /\ log'[n] \in Seq(Entry) /\ leaderLog'[T] \in Seq(Entry)
      /\ Len(log'[n]) \in Nat /\ commitIndex \in [Server -> Nat]
    <2>1. leaderLog'[T] \in Seq(Entry)
        BY <1>2, Growing DEF Around, TraceInv
    <2>2. log'[n] \in Seq(Entry) /\ commitIndex \in [Server -> Nat]
        BY <1>0 DEF TypeOK
    <2>. QED
        BY <2>1, <2>2
<1>4. commitIndex' = [commitIndex EXCEPT ![n] = FollowerCommit(@, m, Len(log'[n]))]
    BY DEF AcceptAppend
<1>. HIDE DEF T, e, m
<1>5. Settled(log[n], m, T)'
    <2>1. ASSUME NEW t \in WonTerms, t = T PROVE Settled(leaderLog[t], m, t)'
        BY <1>2, <2>1, LeaderSettledKept
    <2>2. Agree(log'[n], leaderLog'[T], m)
        BY <1>1, <1>2, <1>3, AgreePrefix
    <2>. SUFFICES ASSUME m > 0
                  PROVE  \E t \in DOMAIN leaderLog' : \E k \in Nat :
                             /\ t <= T /\ m <= k /\ Chosen(t, k)'
                             /\ Agree(log'[n], leaderLog'[t], m)
        BY DEF Settled, T, m
    <2>3. PICK t \in DOMAIN leaderLog', k \in Nat :
              /\ t <= T /\ m <= k /\ Chosen(t, k)'
              /\ Agree(leaderLog'[T], leaderLog'[t], m)
        BY <1>2, <2>1 DEF Settled
    <2>4. leaderLog'[t] \in Seq(Entry)
        BY Growing DEF Around, TraceInv, Ledger
    <2>5. Agree(log'[n], leaderLog'[t], m)
        BY <1>2, <1>3, <2>2, <2>3, <2>4, AgreeTrans
    <2>. QED
        BY <2>3, <2>5
<1>6. commitIndex'[n] = commitIndex[n] \/ commitIndex'[n] = m
    <2>1. m <= Len(log'[n])
        BY <1>1, <1>2, <1>3 DEF Agree
    <2>2. commitIndex'[n] = FollowerCommit(commitIndex[n], m, Len(log'[n]))
        BY <1>3, <1>4
    <2>3. commitIndex[n] \in Nat
        BY <1>3
    <2>. QED
        BY <1>2, <1>3, <2>1, <2>2, <2>3 DEF FollowerCommit
<1>7. ASSUME NEW s \in Server, commitIndex'[s] # commitIndex[s]
      PROVE  Settled(log[s], commitIndex[s], currentTerm[s])'
    <2>1. s = n
        BY <1>3, <1>4, <1>7
    <2>2. commitIndex'[n] = m
        BY <1>6, <1>7, <2>1
    <2>. QED
        BY <1>1, <1>5, <2>1, <2>2 DEF Settled, T, m
<1>8. Acked(n, T, e)'
    <2>. SUFFICES ASSUME NEW k \in 1..e, Has(leaderLog'[T], k, T)
                  PROVE  [server |-> n, term |-> T, index |-> k] \in accepted'
        BY DEF Acked, Acceptance, T, e
    <2>1. k \in 1..Len(log'[n]) /\ log'[n][k] = leaderLog'[T][k]
        BY <1>1, <1>2, <1>3 DEF Agree
    <2>2. log'[n][k].term = currentTerm'[n]
        BY <1>1, <2>1 DEF Has
    <2>3. Acceptance(n, currentTerm'[n], k) \in accepted'
        BY <1>0, <2>1, <2>2, OwnAccepted DEF Around
    <2>. QED
        BY <1>1, <2>3 DEF Acceptance
<1>. QED
    BY <1>7, <1>8 DEF T, e

(***************************************************************************)
(* replicateOnce, a success: what the node commits is chosen, whether it   *)
(* is still Leader or not.                                                 *)
(***************************************************************************)
LEMMA CommitCounting ==
    ASSUME Cardinality(Server) <= 4, Around, Choices, RequestInv, PeerInv,
           CommitInv, NEW n \in Server, NEW c \in calls, c.req.from = n,
           c.status # "late", ReplySuccess(n, c), calls' = calls \ {c},
           UNCHANGED <<log, elections>>
    PROVE  CommitInv'
<1>. DEFINE T == currentTerm[n]
            M == matchIndex'[n]
            k == Advance(n, M)
            e == ReqEnd(c.req)
<1>0. TypeOK /\ TypeOK' /\ ElectionInv /\ TraceInv /\ AcceptInv
    BY DEF Around, Choices
<1>1. /\ UNCHANGED <<currentTerm, state>> /\ c.reply.success
      /\ commitIndex' = [commitIndex EXCEPT ![n] = k]
    BY DEF ReplySuccess
<1>2. /\ matchIndex \in [Server -> [Server -> Nat]]
      /\ matchIndex' \in [Server -> [Server -> Nat]] /\ M \in [Server -> Nat]
      /\ commitIndex \in [Server -> Nat] /\ T \in Nat
      /\ log[n] \in Seq(Entry) /\ Len(log[n]) \in Nat
    <2>1. /\ matchIndex \in [Server -> [Server -> Nat]]
          /\ matchIndex' \in [Server -> [Server -> Nat]]
        BY <1>0 DEF TypeOK
    <2>2. commitIndex \in [Server -> Nat] /\ T \in Nat /\ log[n] \in Seq(Entry)
        BY <1>0 DEF TypeOK
    <2>. QED
        BY <2>1, <2>2
<1>3. /\ c.req.to \in Server /\ e \in Nat
    <2>1. c.req \in AppendReq
        BY <1>0 DEF TypeOK, Call
    <2>2. /\ c.req.to \in Server /\ c.req.entries \in Seq(Entry)
          /\ c.req.prevIndex \in Nat
        BY <2>1 DEF AppendReq
    <2>. QED
        BY <2>2 DEF ReqEnd
<1>4. RequestOK(c) /\ CallSettled(c)
    BY DEF RequestInv, CommitInv
<1>5. ASSUME NEW l \in Server, NEW p \in Server
      PROVE  \/ matchIndex'[l][p] = matchIndex[l][p]
             \/ l = n /\ p = c.req.to /\ c.status = "live" /\ matchIndex'[l][p] = e
    <2>1. CASE c.status = "live" /\ c.req.entries # <<>>
        <3>1. matchIndex' = [matchIndex EXCEPT ![n][c.req.to] = e]
            BY <2>1 DEF ReplySuccess, Matched, ReqEnd
        <3>. HIDE DEF e
        <3>. QED
            BY <1>2, <1>3, <2>1, <3>1
    <2>2. CASE ~ (c.status = "live" /\ c.req.entries # <<>>)
        BY <2>2 DEF ReplySuccess, peerVars
    <2>. QED
        BY <2>1, <2>2
<1>6. ASSUME NEW l \in Server, NEW p \in Server, state[l] = "Leader"
      PROVE  /\ currentTerm[l] \in WonTerms
             /\ matchIndex'[l][p] <= Len(leaderLog[currentTerm[l]])
             /\ Acked(p, currentTerm[l], matchIndex'[l][p])
    <2>1. currentTerm[l] \in WonTerms
        BY <1>0, <1>6 DEF ElectionInv, LoopInv, Won, WonTerms
    <2>2. Len(leaderLog[currentTerm[l]]) \in Nat
        BY <1>0, <2>1 DEF TraceInv, Ledger
    <2>3. CASE matchIndex'[l][p] = matchIndex[l][p]
        <3>1. Holds(p, currentTerm[l], matchIndex[l][p])
            BY <1>6 DEF PeerInv
        <3>2. matchIndex[l][p] \in Nat
            BY <1>2
        <3>3. matchIndex[l][p] <= Len(leaderLog[currentTerm[l]])
            BY <2>2, <3>1, <3>2 DEF Holds
        <3>4. Acked(p, currentTerm[l], matchIndex[l][p])
            BY <1>6 DEF CommitInv
        <3>. QED
            BY <2>1, <2>3, <3>3, <3>4
    <2>4. CASE l = n /\ p = c.req.to /\ c.status = "live" /\ matchIndex'[l][p] = e
        <3>1. c.req.term = T
            BY <1>4, <1>6, <2>4 DEF RequestOK
        <3>2. e <= Len(leaderLog[T]) /\ Acked(p, T, e)
            BY <1>1, <1>4, <2>4, <3>1 DEF RequestOK, Piece, CallSettled
        <3>. QED
            BY <2>1, <2>4, <3>2
    <2>. QED
        BY <1>5, <2>3, <2>4
<1>7. ASSUME k # commitIndex[n]
      PROVE  /\ k \in Nat /\ Settled(log[n], k, T)
    <2>1. /\ k \in (commitIndex[n] + 1)..Len(log[n]) /\ log[n][k].term = T
        <3>. DEFINE x == CommitCandidate([M EXCEPT ![n] = Len(log[n])], Server)
        <3>1. k = LeaderCommit(log[n], commitIndex[n], T, x)
            BY DEF Advance
        <3>. HIDE DEF x, k
        <3>. QED
            BY <1>7, <3>1 DEF LeaderCommit
    <2>2. commitIndex[n] \in Nat
        BY <1>2
    <2>3. k \in 1..Len(log[n]) /\ k \in Nat /\ k <= k
        <3>. HIDE DEF k
        <3>. QED
            BY <1>2, <2>1, <2>2
    <2>4. ASSUME state[n] = "Leader" PROVE Chosen(T, k)
        <3>1. leaderLog[T] = log[n]
            BY <1>0, <2>4 DEF TraceInv
        <3>2. \A p \in Server : Acked(p, T, M[p]) /\ M[p] <= Len(log[n])
            BY <1>6, <2>4, <3>1
        <3>. HIDE DEF M
        <3>. QED
            BY <1>0, <1>2, <1>7, <2>4, <3>2, Committing
    <2>5. ASSUME state[n] # "Leader" PROVE Chosen(T, k)
        <3>1. Steady(n)
            BY <1>4 DEF CallSettled
        <3>. HIDE DEF k
        <3>. QED
            BY <1>0, <2>1, <2>3, <2>5, <3>1, LateCommit
    <2>. HIDE DEF k
    <2>6. Chosen(T, k)
        BY <2>4, <2>5
    <2>7. Has(log[n], k, T) /\ Traced(leaderLog, log[n], T)
        BY <1>0, <2>1, <2>3 DEF Has, TraceInv
    <2>8. T \in DOMAIN leaderLog /\ Agree(log[n], leaderLog[T], k)
        BY <1>0, <1>2, <2>3, <2>7, HasAgree DEF TraceInv
    <2>9. T <= T
        BY <1>2
    <2>. QED
        BY <2>3, <2>6, <2>8, <2>9 DEF Settled
<1>8. ASSUME NEW s \in Server
      PROVE  \/ commitIndex'[s] \in {0, commitIndex[s]}
             \/ Settled(log[s], commitIndex[s], currentTerm[s])'
    <2>1. commitIndex'[s] = IF s = n THEN k ELSE commitIndex[s]
        BY <1>1, <1>2
    <2>2. CASE s = n /\ k # commitIndex[n]
        <3>1. ASSUME NEW j \in Nat, j = k
              PROVE  Settled(log[n], j, currentTerm[n])'
            BY <1>7, <2>2, <3>1, SettledKept
        <3>. HIDE DEF k
        <3>. QED
            BY <1>7, <2>1, <2>2, <3>1 DEF Settled
    <2>. HIDE DEF k
    <2>. QED
        BY <2>1, <2>2
<1>9. \A d \in calls' : OldCall(d)
    BY <1>1, SameCall DEF Remains
<1>10. ASSUME NEW l \in Server, NEW p \in Server, state'[l] = "Leader"
       PROVE  Acked(p, currentTerm[l], matchIndex[l][p])'
    <2>1. state[l] = "Leader" /\ currentTerm'[l] = currentTerm[l]
        BY <1>1, <1>10
    <2>2. matchIndex'[l][p] \in Nat
        BY <1>2
    <2>3. ASSUME NEW m \in Nat, m = matchIndex'[l][p],
                 NEW t \in WonTerms, t = currentTerm[l]
          PROVE  Acked(p, t, m)'
        BY <1>6, <2>1, <2>3, AckedKept
    <2>4. currentTerm[l] \in WonTerms
        BY <1>6, <2>1
    <2>. QED
        BY <2>1, <2>2, <2>3, <2>4 DEF Acked
<1>. QED
    BY <1>8, <1>9, <1>10, CommitKept

(***************************************************************************)
(* Every step keeps CommitInv.                                             *)
(***************************************************************************)
LEMMA CommitStep ==
    ASSUME RacyStepDown = FALSE, Cardinality(Server) <= 4, Around, Choices,
           AcceptInv', RequestInv, PeerInv, CommitInv, [Next]_vars
    PROVE  CommitInv'
<1>0. /\ TypeOK /\ TypeOK' /\ ElectionInv
      /\ state \in [Server -> {"Follower", "Candidate", "Leader"}]
      /\ currentTerm \in [Server -> Nat]
      /\ \A c \in calls : c \in Call /\ c.req.from \in Server
    <2>1. TypeOK /\ TypeOK' /\ ElectionInv
        BY DEF Around
    <2>. QED
        BY <2>1 DEF TypeOK, Call, AppendReq
<1>1. ASSUME UNCHANGED <<elections, commitIndex, matchIndex>>,
             calls' \subseteq calls, \A s \in Server : Remains(s)
      PROVE  CommitInv'
    <2>1. \A c \in calls' : OldCall(c)
        BY <1>0, <1>1, SameCall
    <2>. QED
        BY <1>1, <2>1, CommitQuiet
<1>2. ASSUME UNCHANGED <<elections, commitIndex, matchIndex, calls, state>>
      PROVE  CommitInv'
    BY <1>1, <1>2 DEF Remains
<1>3. ASSUME NEW n \in Server, \A s \in Server : s # n => state'[s] = state[s],
             currentTerm'[n] = currentTerm[n] => state'[n] = state[n]
      PROVE  \A s \in Server : Remains(s)
    BY <1>3 DEF Remains
<1>4. ASSUME NEW n \in Server, ElectionTimeout(n) PROVE CommitInv'
    <2>. DEFINE t == currentTerm[n] + 1
    <2>1. /\ currentTerm' = [currentTerm EXCEPT ![n] = t] /\ commitIndex' = commitIndex
        BY <1>4 DEF ElectionTimeout
    <2>2. CASE BecomeLeader(n, t, {n})
        <3>1. \A s \in Server : s # n => currentTerm'[s] = currentTerm[s]
            BY <1>0, <2>1
        <3>. HIDE DEF t
        <3>. QED
            BY <2>1, <2>2, <3>1, CommitNewLeader
    <2>3. CASE /\ UNCHANGED <<matchIndex, calls, elections>>
               /\ state' = [state EXCEPT ![n] = "Candidate"]
        <3>1. currentTerm'[n] # currentTerm[n]
            BY <1>0, <2>1
        <3>2. \A s \in Server : Remains(s)
            BY <1>0, <1>3, <2>3, <3>1
        <3>. QED
            BY <1>1, <2>1, <2>3, <3>2
    <2>. QED
        BY <1>4, <2>2, <2>3 DEF ElectionTimeout, peerVars
<1>5. ASSUME NEW n \in Server, NEW m \in voteReqs, HandleRequestVote(n, m)
      PROVE  CommitInv'
    <2>. DEFINE newer == m.term > currentTerm[n]
    <2>1. /\ currentTerm' = [currentTerm EXCEPT ![n] = IF newer THEN m.term ELSE @]
          /\ state' = [state EXCEPT ![n] = IF newer THEN "Follower" ELSE @]
          /\ UNCHANGED <<matchIndex, calls, elections, commitIndex>>
        BY <1>5 DEF HandleRequestVote, peerVars
    <2>2. newer => currentTerm'[n] # currentTerm[n]
        BY <1>0, <2>1
    <2>3. \A s \in Server : Remains(s)
        BY <1>0, <1>3, <2>1, <2>2
    <2>. QED
        BY <1>1, <2>1, <2>3
<1>6. ASSUME NEW n \in Server, NEW r \in voteReplies, HandleVoteReply(n, r)
      PROVE  CommitInv'
    <2>1. commitIndex' = commitIndex
        BY <1>6 DEF HandleVoteReply
    <2>2. CASE /\ BecomeLeader(n, currentTerm[n], votes[n] \cup {r.from})
               /\ UNCHANGED currentTerm
        BY <2>1, <2>2, CommitNewLeader
    <2>3. CASE /\ r.term > currentTerm[n] /\ StepDown(n, r.term, Nil)
               /\ UNCHANGED <<matchIndex, calls, elections>>
        <3>1. /\ currentTerm' = [currentTerm EXCEPT ![n] = r.term]
              /\ state' = [state EXCEPT ![n] = "Follower"]
            BY <2>3 DEF StepDown
        <3>2. currentTerm'[n] # currentTerm[n]
            BY <1>0, <2>3, <3>1
        <3>3. \A s \in Server : Remains(s)
            BY <1>0, <1>3, <3>1, <3>2
        <3>. QED
            BY <1>1, <2>1, <2>3, <3>3
    <2>4. CASE UNCHANGED <<matchIndex, calls, elections, state>>
        BY <1>2, <2>1, <2>4
    <2>. QED
        BY <1>6, <2>2, <2>3, <2>4 DEF HandleVoteReply, peerVars
<1>7. ASSUME NEW n \in Server, NEW c \in calls, HandleAppendEntries(n, c)
      PROVE  CommitInv'
    <2>1. UNCHANGED <<matchIndex, elections>> /\ c.req.to = n
        BY <1>7 DEF HandleAppendEntries, peerVars
    <2>2. /\ c.req.prevIndex \in Nat /\ log[n] \in Seq(Entry)
          /\ currentTerm[n] \in Nat /\ currentTerm'[n] \in Nat
        BY <1>0 DEF TypeOK, Call, AppendReq
    <2>3. CASE RejectAppend(n, c)
        <3>. DEFINE rp == [term |-> currentTerm[n], success |-> FALSE, hint |-> NoHint]
        <3>1. rp \in AppendReply /\ ~ rp.success
            BY <2>2 DEF AppendReply, NoHint
        <3>2. /\ calls' = Answer(c, rp) /\ commitIndex' = commitIndex
              /\ \A s \in Server : Remains(s)
            BY <2>3 DEF RejectAppend, Remains, persistent
        <3>. HIDE DEF rp
        <3>. QED
            BY <2>1, <3>1, <3>2, CommitAnswer
    <2>4. CASE RefuseAppend(n, c)
        <3>. DEFINE h == ConflictHint(log[n], c.req.prevIndex)
                    rp == [term |-> currentTerm'[n], success |-> FALSE, hint |-> h]
        <3>1. c.req.prevIndex \in Nat \ {0}
            BY <2>2, <2>4 DEF RefuseAppend, LogConsistent
        <3>2. h \in [term : Nat, index : Nat]
            BY <2>2, <3>1, HintType
        <3>3. calls' = Answer(c, rp) /\ commitIndex' = commitIndex
            BY <2>4 DEF RefuseAppend
        <3>. HIDE DEF h
        <3>4. rp \in AppendReply /\ ~ rp.success
            BY <2>2, <3>2 DEF AppendReply
        <3>5. \A s \in Server : Remains(s)
            BY <1>0, <2>1, <2>4, FollowerRemains DEF RefuseAppend
        <3>. HIDE DEF rp
        <3>. QED
            BY <2>1, <3>3, <3>4, <3>5, CommitAnswer
    <2>5. CASE AcceptAppend(n, c)
        <3>. DEFINE rp == [term |-> currentTerm'[n], success |-> TRUE, hint |-> NoHint]
        <3>1. rp \in AppendReply
            BY <2>2 DEF AppendReply, NoHint
        <3>2. calls' = Answer(c, rp)
            BY <2>5 DEF AcceptAppend
        <3>3. \A s \in Server : Remains(s)
            BY <1>0, <2>1, <2>5, FollowerRemains DEF AcceptAppend
        <3>4. /\ Acked(c.req.to, c.req.term, ReqEnd(c.req))'
              /\ \A s \in Server :
                     \/ commitIndex'[s] = commitIndex[s]
                     \/ Settled(log[s], commitIndex[s], currentTerm[s])'
            BY <2>1, <2>5, CommitAccepting
        <3>. HIDE DEF rp
        <3>. QED
            BY <2>1, <3>1, <3>2, <3>3, <3>4, CommitAnswer
    <2>. QED
        BY <1>7, <2>3, <2>4, <2>5 DEF HandleAppendEntries
<1>8. ASSUME NEW n \in Server, NEW c \in calls, HandleAppendReply(n, c)
      PROVE  CommitInv'
    <2>1. /\ calls' = calls \ {c} /\ UNCHANGED <<log, elections>>
          /\ c.req.from = n /\ c.status # "late"
        BY <1>8 DEF HandleAppendReply
    <2>2. CASE ReplyHigherTerm(n, c)
        <3>1. /\ currentTerm' = [currentTerm EXCEPT ![n] = c.reply.term]
              /\ state' = [state EXCEPT ![n] = "Follower"]
              /\ c.reply.term > currentTerm[n]
              /\ UNCHANGED <<commitIndex, matchIndex>>
            BY <2>2 DEF ReplyHigherTerm, StepDown, peerVars
        <3>2. currentTerm'[n] # currentTerm[n]
            BY <1>0, <3>1
        <3>3. \A s \in Server : Remains(s)
            BY <1>0, <1>3, <3>1, <3>2
        <3>. QED
            BY <1>1, <2>1, <3>1, <3>3
    <2>3. CASE ReplySuccess(n, c)
        BY <2>1, <2>3, CommitCounting
    <2>4. CASE ReplyConflict(n, c)
        <3>1. UNCHANGED <<state, commitIndex, matchIndex>>
            BY <2>4 DEF ReplyConflict
        <3>. QED
            BY <1>1, <2>1, <3>1 DEF Remains
    <2>. QED
        BY <1>8, <2>2, <2>3, <2>4 DEF HandleAppendReply
<1>9. ASSUME NEW c \in calls, CallFails(c) PROVE CommitInv'
    <2>. DEFINE late == [c EXCEPT !.status = "late"]
    <2>1. /\ UNCHANGED <<elections, commitIndex, matchIndex, state>>
          /\ calls' = calls \ {c} \/ calls' = (calls \ {c}) \cup {late}
        BY <1>9 DEF CallFails, peerVars
    <2>2. late.req = c.req /\ late.reply = c.reply /\ late.status = "late"
        BY <1>0 DEF Call
    <2>. HIDE DEF late
    <2>3. OldCall(late)
        BY <2>2 DEF OldCall
    <2>4. \A d \in calls' : OldCall(d)
        BY <2>1, <2>3, SameCall DEF Remains
    <2>. QED
        BY <2>1, <2>4, CommitQuiet
<1>10. ASSUME NEW n \in Server, NEW left \in SUBSET calls, Reboot(n, left)
       PROVE  CommitInv'
    <2>1. /\ elections' = elections /\ state' = [state EXCEPT ![n] = "Follower"]
          /\ commitIndex' = [commitIndex EXCEPT ![n] = 0]
          /\ matchIndex' = [matchIndex EXCEPT ![n] = [p \in Server |-> 0]]
        BY <1>10 DEF Reboot
    <2>2. \A l \in Server : state'[l] = "Leader" => matchIndex'[l] = matchIndex[l]
        BY <1>0, <2>1 DEF TypeOK
    <2>3. \A s \in Server : commitIndex'[s] \in {0, commitIndex[s]}
        BY <1>0, <2>1 DEF TypeOK
    <2>4. ASSUME NEW c \in calls' PROVE OldCall(c)
        <3>1. CASE c \in left /\ c.req.from # n
            <4>1. Remains(c.req.from)
                BY <1>0, <2>1, <3>1 DEF Remains
            <4>. QED
                BY <3>1, <4>1, SameCall
        <3>2. CASE \E d \in left : c = [d EXCEPT !.status = "late"]
            <4>1. PICK d \in left : c = [d EXCEPT !.status = "late"]
                BY <3>2
            <4>2. c.req = d.req /\ c.reply = d.reply /\ c.status = "late"
                BY <1>0, <4>1 DEF Call
            <4>. QED
                BY <4>2 DEF OldCall
        <3>. QED
            BY <1>10, <3>1, <3>2 DEF Reboot
    <2>. QED
        BY <2>1, <2>2, <2>3, <2>4, CommitQuiet
<1>11. ASSUME NEW n \in Server, CrashStep(n) PROVE CommitInv'
    <2>1. \E left \in SUBSET calls : Reboot(n, left)
        BY <1>11 DEF CrashStep, Restart, TornPersist, TornAppend
    <2>. QED
        BY <1>10, <2>1
<1>12. ASSUME NEW n \in Server,
              \/ CandidateGivesUp(n) \/ AppendNoOp(n)
              \/ \E v \in Value : HandleApplyRequest(n, v)
       PROVE  CommitInv'
    <2>1. CASE CandidateGivesUp(n)
        BY <1>2, <2>1 DEF CandidateGivesUp, peerVars
    <2>2. CASE AppendNoOp(n)
        BY <1>2, <2>2 DEF AppendNoOp, peerVars
    <2>3. CASE \E v \in Value : HandleApplyRequest(n, v)
        BY <1>2, <2>3 DEF HandleApplyRequest, peerVars
    <2>. QED
        BY <1>12, <2>1, <2>2, <2>3
<1>13. ASSUME UNCHANGED vars \/ \E m \in voteReqs : VoteCallFails(m)
       PROVE  CommitInv'
    BY <1>2, <1>13 DEF vars, VoteCallFails, peerVars
<1>. QED
    BY <1>4, <1>5, <1>6, <1>7, <1>8, <1>9, <1>11, <1>12, <1>13, CommitSending
       DEF Next, MainStep, ReplicatorStep


-----------------------------------------------------------------------------
(* Theorems about commitment *)

LEMMA CommitInit == HistoryInit => ChoiceInv /\ CommitInv
<1>. SUFFICES ASSUME HistoryInit PROVE ChoiceInv /\ CommitInv
    OBVIOUS
<1>1. /\ accepted = {} /\ elections = {} /\ voteReqs = {} /\ voteReplies = {}
      /\ calls = {} /\ commitIndex = [n \in Server |-> 0]
      /\ \A s \in Server : log[s] = <<>> /\ state[s] = "Follower"
    BY DEF HistoryInit, Init
<1>2. \A s \in Server : Len(log[s]) = 0
    BY <1>1
<1>3. ChoiceInv
    BY <1>1, <1>2 DEF ChoiceInv, AcceptInv, CandidateInv, BallotInv, ElectedInv
<1>4. \A s \in Server : Settled(log[s], commitIndex[s], currentTerm[s])
    BY <1>1 DEF Settled
<1>. QED
    BY <1>1, <1>3, <1>4 DEF CommitInv

\* What is known when a step of HistoryNext is taken.
LEMMA StepAround ==
    ASSUME RacyStepDown = FALSE, TypeOK, TypeOK', ElectionInv, LogInv, HistoryNext
    PROVE  Around /\ Candidacy /\ FreshInv' /\ [Next]_vars
<1>1. [Next]_vars /\ RecordHistory
    BY DEF HistoryNext
<1>2. ElectionInv'
    BY <1>1, ElectionStep
<1>3. LogStep /\ Candidacy
    BY <1>1, Kinds DEF LogInv
<1>4. Around
    BY <1>1, <1>2, <1>3 DEF Around, LogInv
<1>5. FreshInv'
    BY <1>3, FreshStep DEF LogInv
<1>. QED
    BY <1>1, <1>3, <1>4, <1>5

LEMMA CommitInvStep ==
    ASSUME RacyStepDown = FALSE, Cardinality(Server) <= 4, TypeOK, TypeOK',
           ElectionInv, LogInv, ChoiceInv, CommitInv, [HistoryNext]_historyVars
    PROVE  ChoiceInv' /\ CommitInv'
<1>1. CASE HistoryNext
    <2>1. Around /\ Candidacy /\ FreshInv' /\ [Next]_vars
        BY <1>1, StepAround
    <2>2. ChoiceInv'
        BY <2>1, ChoiceStep DEF LogInv
    <2>3. Choices /\ AcceptInv'
        BY <2>2 DEF Choices, LogInv, ChoiceInv
    <2>4. CommitInv'
        BY <2>1, <2>3, CommitStep DEF LogInv
    <2>. QED
        BY <2>2, <2>4
<1>2. CASE UNCHANGED historyVars
    <2>1. UNCHANGED <<currentTerm, votedFor, log, state, loop, commitIndex,
                      campaign, votes, matchIndex, voteReqs, voteReplies, calls,
                      elections, leaderLog, accepted>>
        BY <1>2 DEF historyVars, vars
    <2>2. AcceptInv'
        BY <2>1 DEF ChoiceInv, AcceptInv, AcceptanceOK, WonTerms
    <2>3. CandidateInv'
        BY <2>1 DEF ChoiceInv, CandidateInv, Granted
    <2>4. BallotInv'
        BY <2>1 DEF ChoiceInv, BallotInv
    <2>5. ElectedInv'
        BY <2>1 DEF ChoiceInv, ElectedInv
    <2>7. \A s \in Server : Settled(log[s], commitIndex[s], currentTerm[s])'
        BY <2>1 DEF CommitInv, Settled, Chosen, Blocks
    <2>8. \A c \in calls' : CallSettled(c)'
        BY <2>1 DEF CommitInv, CallSettled, Settled, Acked, Steady, Won,
                    Chosen, Blocks
    <2>9. \A l, p \in Server :
              state'[l] = "Leader" => Acked(p, currentTerm[l], matchIndex[l][p])'
        BY <2>1 DEF CommitInv, Acked
    <2>. QED
        BY <2>2, <2>3, <2>4, <2>5, <2>7, <2>8, <2>9 DEF ChoiceInv, CommitInv
<1>. QED
    BY <1>1, <1>2

(***************************************************************************)
(* The whole inductive invariant of Raft.                                  *)
(***************************************************************************)
LEMMA CommitInvariant ==
    ASSUME RacyStepDown = FALSE, Cardinality(Server) <= 4
    PROVE  HistorySpec => [](/\ TypeOK /\ ElectionInv /\ LogInv
                             /\ ChoiceInv /\ CommitInv)
<1>1. HistoryInit => ChoiceInv /\ CommitInv
    BY CommitInit
<1>2. TypeOK /\ TypeOK' /\ ElectionInv /\ LogInv /\ ChoiceInv /\ CommitInv
          /\ [HistoryNext]_historyVars => ChoiceInv' /\ CommitInv'
    BY CommitInvStep
<1>. QED
    BY <1>1, <1>2, LogInvariant, PTL DEF HistorySpec

(***************************************************************************)
(* Leader Completeness (raft_test.go:8): what any server of this or an     *)
(* earlier term believes committed is in the log of every Leader, whatever *)
(* crashed, was lost or came late.  It holds for clusters of up to four    *)
(* servers, and needs that: in one of five, a replicator that handles a    *)
(* late success although its node follows another Leader by now may commit *)
(* an entry that two servers hold (see LateCommit).                        *)
(***************************************************************************)
THEOREM LeadersComplete ==
    ASSUME RacyStepDown = FALSE, Cardinality(Server) <= 4
    PROVE  HistorySpec => []LeaderCompleteness
<1>1. TypeOK /\ ElectionInv /\ LogInv /\ ChoiceInv /\ CommitInv
          => LeaderCompleteness
    <2>. SUFFICES ASSUME TypeOK, ElectionInv, LogInv, ChoiceInv, CommitInv,
                         NEW l \in Server, NEW s \in Server,
                         state[l] = "Leader", currentTerm[s] <= currentTerm[l]
                  PROVE  /\ commitIndex[s] <= Len(log[l])
                         /\ \A i \in 1..commitIndex[s] :
                                i <= Len(log[s]) /\ log[l][i] = log[s][i]
        BY DEF LeaderCompleteness
    <2>1. Choices /\ Settled(log[s], commitIndex[s], currentTerm[s])
        BY DEF Choices, LogInv, ChoiceInv, CommitInv
    <2>2. /\ currentTerm[l] \in WonTerms /\ leaderLog[currentTerm[l]] = log[l]
        BY DEF ElectionInv, LoopInv, Won, WonTerms, LogInv, TraceInv
    <2>3. /\ log[s] \in Seq(Entry) /\ commitIndex[s] \in Nat
          /\ Len(log[s]) \in Nat /\ currentTerm[s] \in Nat
        BY DEF TypeOK
    <2>4. Agree(log[s], log[l], commitIndex[s])
        BY <2>1, <2>2, <2>3, SettledAgree
    <2>. QED
        BY <2>3, <2>4 DEF Agree
<1>. QED
    BY <1>1, CommitInvariant, PTL

(***************************************************************************)
(* What any server believes committed is out of reach of every election to *)
(* come: a server for whose log a majority would vote (isLogUpToDate) has  *)
(* all of it.                                                              *)
(***************************************************************************)
THEOREM HoldersElected ==
    ASSUME RacyStepDown = FALSE, Cardinality(Server) <= 4
    PROVE  HistorySpec => []OnlyHoldersElectable
<1>1. TypeOK /\ ElectionInv /\ LogInv /\ ChoiceInv /\ CommitInv
          => OnlyHoldersElectable
    <2>. SUFFICES ASSUME TypeOK, ElectionInv, LogInv, ChoiceInv, CommitInv,
                         NEW s \in Server,
                         Cardinality({v \in Server :
                             isLogUpToDate(lastTerm(log[s]), Len(log[s]),
                                           lastTerm(log[v]), Len(log[v]))})
                                 >= QuorumSize(Server),
                         NEW c \in Server, NEW i \in 1..commitIndex[c]
                  PROVE  /\ i <= Len(log[s]) /\ i <= Len(log[c])
                         /\ log[s][i] = log[c][i]
        BY DEF OnlyHoldersElectable
    <2>. DEFINE voters == {v \in Server :
                    isLogUpToDate(lastTerm(log[s]), Len(log[s]),
                                  lastTerm(log[v]), Len(log[v]))}
                n == commitIndex[c]
    <2>1. /\ n \in Nat /\ i \in 1..n /\ n > 0
          /\ \A v \in Server : /\ log[v] \in Seq(Entry) /\ Len(log[v]) \in Nat
                               /\ currentTerm[v] \in Nat
        <3>1. n \in Nat
            BY DEF TypeOK
        <3>2. i \in 1..n /\ n > 0
            BY <3>1
        <3>. QED
            BY <3>1, <3>2 DEF TypeOK
    <2>. HIDE DEF n
    <2>2. /\ TraceInv /\ Ledger(leaderLog) /\ AcceptInv /\ ElectedInv
          /\ \A v \in Server : Traced(leaderLog, log[v], currentTerm[v])
        BY DEF LogInv, TraceInv, ChoiceInv
    <2>3. PICK t \in DOMAIN leaderLog, k \in Nat :
              n <= k /\ Chosen(t, k) /\ Agree(log[c], leaderLog[t], n)
        BY <2>1 DEF CommitInv, Settled, n
    <2>4. t \in Nat /\ leaderLog[t] \in Seq(Entry)
        BY <2>2 DEF Ledger
    <2>5. PICK Q \in SUBSET Server :
              Blocks(Q) /\ \A r \in Q : Acceptance(r, t, k) \in accepted
        BY <2>3 DEF Chosen
    <2>6. PICK v \in voters : v \in Q
        BY <2>5 DEF Blocks, IsQuorum
    <2>7. /\ v \in Server
          /\ isLogUpToDate(lastTerm(log[s]), Len(log[s]), lastTerm(log[v]), Len(log[v]))
        OBVIOUS
    <2>8. Has(log[v], k, t)
        <3>. DEFINE a == Acceptance(v, t, k)
        <3>1. a \in accepted /\ a.server = v /\ a.term = t /\ a.index = k
            BY <2>5, <2>6 DEF Acceptance
        <3>. HIDE DEF a
        <3>2. Has(log[v], k, t) \/ Overruled(leaderLog, t, k, currentTerm[v])
            BY <2>2, <3>1 DEF AcceptInv, AcceptanceOK
        <3>. QED
            BY <2>2, <2>3, <2>4, <3>2, NeverOverruled
    <2>9. Has(log[s], k, t)
        <3>1. Has(log[s], k, t) \/ Overruled(leaderLog, t, k, currentTerm[s])
            BY <2>1, <2>2, <2>7, <2>8, UpToDate
        <3>. QED
            BY <2>2, <2>3, <2>4, <3>1, NeverOverruled
    <2>10. Agree(log[s], leaderLog[t], k)
        BY <2>1, <2>2, <2>9, HasAgree
    <2>11. Agree(log[s], leaderLog[t], n)
        BY <2>1, <2>3, <2>4, <2>10, AgreePrefix
    <2>. QED
        BY <2>1, <2>3, <2>11 DEF Agree
<1>. QED
    BY <1>1, CommitInvariant, PTL

(***************************************************************************)
(* A committed entry is final on the server that committed it: no append,  *)
(* no deletion of a conflict and no crash in the middle of one takes it    *)
(* away, although handleAppendEntries never looks at commitIndex.          *)
(***************************************************************************)
THEOREM CommittedIsFinal ==
    ASSUME RacyStepDown = FALSE, Cardinality(Server) <= 4
    PROVE  HistorySpec => CommittedStable
<1>. DEFINE Kept == \A n \in Server : \A i \in 1..commitIndex[n] :
                        i <= Len(log'[n]) /\ log'[n][i] = log[n][i]
<1>1. ASSUME TypeOK, TypeOK', ElectionInv, LogInv, ChoiceInv, CommitInv, HistoryNext
      PROVE  Kept
    <2>. SUFFICES ASSUME NEW n \in Server, NEW i \in 1..commitIndex[n]
                  PROVE  i <= Len(log'[n]) /\ log'[n][i] = log[n][i]
        OBVIOUS
    <2>1. Around /\ Choices /\ Settled(log[n], commitIndex[n], currentTerm[n])
        BY <1>1, StepAround DEF Choices, LogInv, ChoiceInv, CommitInv
    <2>2. commitIndex[n] \in Nat /\ Len(log'[n]) \in Nat
        BY <1>1 DEF TypeOK
    <2>3. Agree(log'[n], log[n], commitIndex[n])
        BY <2>1, <2>2, SettledKept
    <2>. QED
        BY <2>2, <2>3 DEF Agree
<1>2. UNCHANGED historyVars => UNCHANGED vars
    BY DEF historyVars
<1>3. TypeOK /\ TypeOK' /\ ElectionInv /\ LogInv /\ ChoiceInv /\ CommitInv
          /\ [HistoryNext]_historyVars => [Kept]_vars
    <2>. SUFFICES ASSUME TypeOK, TypeOK', ElectionInv, LogInv, ChoiceInv,
                         CommitInv, [HistoryNext]_historyVars
                  PROVE  Kept \/ UNCHANGED vars
        OBVIOUS
    <2>1. CASE HistoryNext
        BY <1>1, <2>1
    <2>2. CASE UNCHANGED historyVars
        BY <1>2, <2>2
    <2>. QED
        BY <2>1, <2>2
<1>. QED
    BY <1>3, CommitInvariant, PTL DEF HistorySpec, CommittedStable

-----------------------------------------------------------------------------
(* Refinement *)

(***************************************************************************)
(* Raft implements ReplicatedLog, for every number of terms, entries,      *)
(* calls and crashes.                                                      *)
(*                                                                         *)
(* By CommitInv, whatever a server calls committed ends in a chosen entry, *)
(* and so does the recorded sequence; two such logs agree as far as the    *)
(* shorter goes (Meeting), because the Leader of the later of the two      *)
(* terms has both chosen entries.  So a commitIndex that moves shows a     *)
(* longer prefix of the recorded sequence, or extends it.                  *)
(***************************************************************************)

(***************************************************************************)
(* Raft with the history variables of RaftHistory and RaftImplementsLog.   *)
(* Neither restrains a step: RecordHistory and Record give a next value to *)
(* their variables whatever the step.                                      *)
(***************************************************************************)
fullVars == <<historyVars, chosen>>
FullInit == HistoryInit /\ chosen = <<>>
FullNext == HistoryNext /\ Record
FullSpec == FullInit /\ [][FullNext]_fullVars

\* Logs that agree have the same prefixes.
LEMMA SamePrefix ==
    ASSUME NEW a \in Seq(Entry), NEW b \in Seq(Entry), NEW n \in Nat, Agree(a, b, n)
    PROVE  /\ SubSeq(a, 1, n) = SubSeq(b, 1, n)
           /\ SubSeq(a, 1, n) \in Seq(Entry) /\ Len(SubSeq(a, 1, n)) = n
           /\ \A i \in 1..n : SubSeq(a, 1, n)[i] = a[i]
<1>1. n <= Len(a) /\ n <= Len(b) /\ \A j \in 1..n : a[j] = b[j]
    BY DEF Agree
<1>2. /\ SubSeq(a, 1, n) \in Seq(Entry) /\ Len(SubSeq(a, 1, n)) = n
      /\ \A i \in 1..n : SubSeq(a, 1, n)[i] = a[i]
    BY <1>1
<1>3. /\ SubSeq(b, 1, n) \in Seq(Entry) /\ Len(SubSeq(b, 1, n)) = n
      /\ \A i \in 1..n : SubSeq(b, 1, n)[i] = b[i]
    BY <1>1
<1>4. \A i \in 1..n : SubSeq(a, 1, n)[i] = SubSeq(b, 1, n)[i]
    BY <1>1, <1>2, <1>3
<1>5. SubSeq(a, 1, n) = SubSeq(b, 1, n)
    BY <1>2, <1>3, <1>4, SeqEqual
<1>. QED
    BY <1>2, <1>5

-----------------------------------------------------------------------------
(* One sequence *)

\* What is settled anywhere is settled everywhere: two settled logs agree as
\* far as the shorter commit goes.
Meeting ==
    \A a, b \in Seq(Entry), n, m, u, w \in Nat :
        Settled(a, n, u) /\ Settled(b, m, w) /\ n <= m => Agree(a, b, n)

LEMMA SettledMeet == Choices => Meeting
<1>. SUFFICES ASSUME Choices, NEW a \in Seq(Entry), NEW b \in Seq(Entry),
                     NEW n \in Nat, NEW m \in Nat, NEW u \in Nat, NEW w \in Nat,
                     Settled(a, n, u), Settled(b, m, w), n <= m
              PROVE  Agree(a, b, n)
    BY DEF Meeting
<1>0. /\ TypeOK /\ ElectionInv /\ TraceInv /\ AcceptInv /\ ElectedInv
      /\ Ledger(leaderLog) /\ DOMAIN leaderLog = WonTerms
    BY DEF Choices, TraceInv
<1>1. CASE n = 0
    BY <1>1 DEF Agree
<1>2. CASE n > 0
    <2>1. PICK t \in DOMAIN leaderLog, k \in Nat :
              n <= k /\ Chosen(t, k) /\ Agree(a, leaderLog[t], n)
        BY <1>2 DEF Settled
    <2>2. PICK x \in DOMAIN leaderLog, j \in Nat :
              m <= j /\ Chosen(x, j) /\ Agree(b, leaderLog[x], m)
        BY <1>2 DEF Settled
    <2>3. /\ t \in Nat /\ x \in Nat /\ t \in WonTerms /\ x \in WonTerms
          /\ leaderLog[t] \in Seq(Entry) /\ leaderLog[x] \in Seq(Entry)
          /\ Traced(leaderLog, leaderLog[t], t) /\ Traced(leaderLog, leaderLog[x], x)
        BY <1>0 DEF Ledger
    <2>4. Agree(leaderLog[t], leaderLog[x], n)
        <3>1. CASE t <= x
            <4>1. Has(leaderLog[x], k, t)
                BY <1>0, <2>1, <2>3, <3>1, ChosenStays
            <4>2. Agree(leaderLog[x], leaderLog[t], k)
                BY <1>0, <2>3, <4>1, HasAgree
            <4>. QED
                BY <2>1, <2>3, <4>2, AgreePrefix, AgreeSym
        <3>2. CASE x <= t
            <4>1. Has(leaderLog[t], j, x)
                BY <1>0, <2>2, <2>3, <3>2, ChosenStays
            <4>2. Agree(leaderLog[t], leaderLog[x], j)
                BY <1>0, <2>3, <4>1, HasAgree
            <4>3. n <= j
                BY <2>2
            <4>. QED
                BY <2>3, <4>2, <4>3, AgreePrefix
        <3>. QED
            BY <2>3, <3>1, <3>2
    <2>5. Agree(leaderLog[x], b, n)
        BY <2>2, <2>3, AgreePrefix, AgreeSym
    <2>6. Agree(a, leaderLog[x], n)
        BY <2>1, <2>3, <2>4, AgreeTrans
    <2>. QED
        BY <2>3, <2>5, <2>6, AgreeTrans
<1>. QED
    BY <1>1, <1>2

\* What has been recorded is settled, and no server is ahead of it.
SequenceInv ==
    /\ chosen \in Seq(Entry)
    /\ \E u \in Nat : Settled(chosen, Len(chosen), u)
    /\ \A s \in Server : commitIndex[s] <= Len(chosen)

(***************************************************************************)
(* A step moves one commitIndex at most, and back only in a restart.       *)
(***************************************************************************)
LEMMA OneCommits ==
    ASSUME TypeOK, TypeOK', \A s \in Server : commitIndex[s] <= Len(log'[s]),
           [Next]_vars
    PROVE  \E n \in Server :
               /\ \A s \in Server : s # n => commitIndex'[s] = commitIndex[s]
               /\ commitIndex'[n] = 0 \/ commitIndex[n] <= commitIndex'[n]
<1>0. /\ commitIndex \in [Server -> Nat]
      /\ \A s \in Server : Len(log'[s]) \in Nat /\ Len(log[s]) \in Nat
    BY DEF TypeOK
<1>. DEFINE Goal == \E n \in Server :
               /\ \A s \in Server : s # n => commitIndex'[s] = commitIndex[s]
               /\ commitIndex'[n] = 0 \/ commitIndex[n] <= commitIndex'[n]
<1>1. ASSUME commitIndex' = commitIndex PROVE Goal
    BY <1>0, <1>1, ServerAssumption
<1>2. ASSUME NEW n \in Server, NEW k \in Nat,
             commitIndex' = [commitIndex EXCEPT ![n] = k],
             k = 0 \/ commitIndex[n] <= k
      PROVE  Goal
    BY <1>0, <1>2
<1>3. ASSUME NEW n \in Server, NEW c \in calls, AcceptAppend(n, c) PROVE Goal
    <2>. DEFINE k == FollowerCommit(commitIndex[n], c.req.commit, Len(log'[n]))
    <2>1. c.req.commit \in Nat
        BY DEF TypeOK, Call, AppendReq
    <2>2. k \in Nat /\ commitIndex[n] <= k
        BY <1>0, <2>1 DEF FollowerCommit
    <2>3. commitIndex' = [commitIndex EXCEPT ![n] = k]
        BY <1>3 DEF AcceptAppend
    <2>. HIDE DEF k
    <2>. QED
        BY <1>2, <2>2, <2>3
<1>4. ASSUME NEW n \in Server, NEW c \in calls, ReplySuccess(n, c) PROVE Goal
    <2>. DEFINE k == Advance(n, matchIndex'[n])
                x == CommitCandidate([matchIndex'[n] EXCEPT ![n] = Len(log[n])], Server)
    <2>1. k = LeaderCommit(log[n], commitIndex[n], currentTerm[n], x)
        BY DEF Advance
    <2>. HIDE DEF x
    <2>2. k \in Nat /\ commitIndex[n] <= k
        BY <1>0, <2>1 DEF LeaderCommit
    <2>3. commitIndex' = [commitIndex EXCEPT ![n] = k]
        BY <1>4 DEF ReplySuccess
    <2>. HIDE DEF k
    <2>. QED
        BY <1>2, <2>2, <2>3
<1>5. ASSUME NEW n \in Server, CrashStep(n) PROVE Goal
    <2>1. commitIndex' = [commitIndex EXCEPT ![n] = 0]
        BY <1>5 DEF CrashStep, Restart, TornPersist, TornAppend, Reboot
    <2>. QED
        BY <1>2, <2>1
<1>6. ASSUME NEW n \in Server, MainStep(n) PROVE Goal
    <2>1. CASE ElectionTimeout(n) \/ CandidateGivesUp(n) \/ AppendNoOp(n)
        BY <1>1, <2>1 DEF ElectionTimeout, CandidateGivesUp, AppendNoOp
    <2>2. CASE \/ \E m \in voteReqs : HandleRequestVote(n, m)
               \/ \E r \in voteReplies : HandleVoteReply(n, r)
               \/ \E v \in Value : HandleApplyRequest(n, v)
        BY <1>1, <2>2 DEF HandleRequestVote, HandleVoteReply, HandleApplyRequest
    <2>3. CASE \E c \in calls : HandleAppendEntries(n, c)
        BY <1>1, <1>3, <2>3 DEF HandleAppendEntries, RejectAppend, RefuseAppend
    <2>. QED
        BY <1>6, <2>1, <2>2, <2>3 DEF MainStep
<1>7. ASSUME NEW n \in Server, ReplicatorStep(n) PROVE Goal
    <2>1. CASE \E p \in Server : ReplicateOnce(n, p)
        BY <1>1, <2>1 DEF ReplicateOnce
    <2>2. CASE \E c \in calls : HandleAppendReply(n, c)
        BY <1>1, <1>4, <2>2 DEF HandleAppendReply, ReplyHigherTerm, ReplyConflict
    <2>. QED
        BY <1>7, <2>1, <2>2 DEF ReplicatorStep
<1>8. CASE \/ UNCHANGED vars \/ \E m \in voteReqs : VoteCallFails(m)
           \/ \E c \in calls : CallFails(c)
    BY <1>1, <1>8 DEF vars, VoteCallFails, CallFails
<1>. QED
    BY <1>5, <1>6, <1>7, <1>8 DEF Next

(***************************************************************************)
(* Every step of Raft is a step of the abstract log, or none.              *)
(***************************************************************************)
LEMMA RefinementStep ==
    ASSUME Around, Choices, CommitInv, CommitInv', Meeting', SequenceInv,
           [Next]_vars, Record
    PROVE  /\ SequenceInv'
           /\ \/ Abstract!Next
              \/ UNCHANGED <<chosen, [n \in Server |-> Committed(n)]>>
<1>. DEFINE learned == [n \in Server |-> Committed(n)]
            h == Len(chosen)
<1>0. /\ TypeOK /\ TypeOK' /\ chosen \in Seq(Entry) /\ h \in Nat
      /\ \A s \in Server :
             /\ log[s] \in Seq(Entry) /\ log'[s] \in Seq(Entry)
             /\ commitIndex[s] \in Nat /\ commitIndex'[s] \in Nat
             /\ currentTerm[s] \in Nat /\ currentTerm'[s] \in Nat
             /\ commitIndex[s] <= h
    <2>1. TypeOK /\ TypeOK' /\ chosen \in Seq(Entry) /\ h \in Nat
        BY DEF Around, SequenceInv
    <2>2. \A s \in Server : log[s] \in Seq(Entry) /\ log'[s] \in Seq(Entry)
        BY <2>1 DEF TypeOK
    <2>3. \A s \in Server :
             /\ commitIndex[s] \in Nat /\ commitIndex'[s] \in Nat
             /\ currentTerm[s] \in Nat /\ currentTerm'[s] \in Nat
        BY <2>1 DEF TypeOK
    <2>. QED
        BY <2>1, <2>2, <2>3 DEF SequenceInv
<1>. HIDE DEF h
<1>1. ASSUME NEW s \in Server
      PROVE  /\ Agree(log'[s], log[s], commitIndex[s])
             /\ Agree(log[s], log[s], commitIndex[s])
             /\ commitIndex[s] <= Len(log'[s])
    <2>1. Agree(log'[s], log[s], commitIndex[s])
        BY <1>0, SettledKept DEF CommitInv
    <2>. QED
        BY <1>0, <2>1 DEF Agree
<1>2. PICK n \in Server :
          /\ \A s \in Server : s # n => commitIndex'[s] = commitIndex[s]
          /\ commitIndex'[n] = 0 \/ commitIndex[n] <= commitIndex'[n]
    BY <1>0, <1>1, OneCommits
<1>3. /\ learned \in [Server -> Seq(Entry)]
      /\ \A s \in Server : /\ learned[s] = Committed(s)
                           /\ Len(Committed(s)) = commitIndex[s]
    BY <1>0, <1>1, SamePrefix DEF Committed
<1>4. ASSUME NEW s \in Server, commitIndex'[s] = commitIndex[s]
      PROVE  Committed(s)' = Committed(s)
    <2>1. SubSeq(log'[s], 1, commitIndex[s]) = SubSeq(log[s], 1, commitIndex[s])
        BY <1>0, <1>1, SamePrefix
    <2>. QED
        BY <1>4, <2>1 DEF Committed
<1>5. /\ learned' = [s \in Server |-> Committed(s)']
      /\ learned' = [learned EXCEPT ![n] = Committed(n)']
    BY <1>2, <1>3, <1>4
<1>6. ASSUME NEW s \in Server, NEW a \in Seq(Entry), a = log'[s],
             NEW k \in Nat, k = commitIndex'[s], NEW v \in Nat, v = currentTerm'[s]
      PROVE  Settled(a, k, v)'
    BY <1>6 DEF CommitInv, Settled
<1>7. PICK u \in Nat : Settled(chosen, Len(chosen), u)
    BY DEF SequenceInv
<1>8. ASSUME NEW x \in Seq(Entry), x = chosen, NEW k \in Nat, k = h
      PROVE  Settled(x, k, u)'
    <2>1. Settled(x, k, u) /\ Agree(x, x, k) /\ u <= u
        BY <1>7, <1>8 DEF h, Agree
    <2>. QED
        BY <2>1, SettledGrows
<1>9. ASSUME NEW s \in Server
      PROVE  /\ commitIndex'[s] <= h => Agree(log'[s], chosen, commitIndex'[s])
             /\ h <= commitIndex'[s] => Agree(chosen, log'[s], h)
             /\ Agree(log'[s], log'[s], commitIndex'[s])
    <2>1. ASSUME NEW a \in Seq(Entry), a = log'[s], NEW k \in Nat, k = commitIndex'[s],
                 NEW v \in Nat, v = currentTerm'[s], NEW x \in Seq(Entry), x = chosen,
                 NEW j \in Nat, j = h
          PROVE  /\ k <= j => Agree(a, x, k)
                 /\ j <= k => Agree(x, a, j)
                 /\ Agree(a, a, k)
        <3>1. Settled(a, k, v)' /\ Settled(x, j, u)'
            BY <1>6, <1>8, <2>1
        <3>. QED
            BY <3>1 DEF Meeting
    <2>. QED
        BY <1>0, <2>1
<1>10. /\ Committed(n)' \in Seq(Entry) /\ Len(Committed(n)') = commitIndex'[n]
       /\ \A i \in 1..commitIndex'[n] : Committed(n)'[i] = log'[n][i]
    BY <1>0, <1>9, SamePrefix DEF Committed
<1>11. CASE commitIndex'[n] > h
    <2>1. chosen' = Committed(n)'
        BY <1>0, <1>2, <1>11 DEF Record, h
    <2>2. Agree(chosen, chosen', h)
        BY <1>0, <1>9, <1>10, <1>11, <2>1 DEF Agree
    <2>3. SequenceInv'
        <3>1. \A s \in Server : commitIndex'[s] <= Len(chosen')
            <4>1. Len(chosen') = commitIndex'[n]
                BY <1>10, <2>1
            <4>2. \A s \in Server : commitIndex'[s] <= commitIndex'[n]
                BY <1>0, <1>2, <1>11
            <4>. QED
                BY <4>1, <4>2
        <3>2. ASSUME NEW a \in Seq(Entry), a = chosen', NEW k \in Nat, k = Len(chosen'),
                     NEW v \in Nat, v = currentTerm'[n]
              PROVE  Settled(a, k, v)'
            <4>1. ASSUME NEW b \in Seq(Entry), b = log'[n] PROVE Settled(b, k, v)'
                BY <1>6, <1>10, <2>1, <3>2, <4>1
            <4>2. Agree(a, log'[n], k)
                BY <1>0, <1>9, <1>10, <2>1, <3>2 DEF Agree
            <4>. SUFFICES ASSUME k > 0
                          PROVE  \E t \in DOMAIN leaderLog' : \E j \in Nat :
                                     /\ t <= v /\ k <= j /\ Chosen(t, j)'
                                     /\ Agree(a, leaderLog'[t], k)
                BY DEF Settled
            <4>3. PICK t \in DOMAIN leaderLog', j \in Nat :
                      /\ t <= v /\ k <= j /\ Chosen(t, j)'
                      /\ Agree(log'[n], leaderLog'[t], k)
                BY <1>0, <4>1 DEF Settled
            <4>4. leaderLog'[t] \in Seq(Entry)
                BY Growing DEF Around, TraceInv, Ledger
            <4>. QED
                BY <1>0, <4>2, <4>3, <4>4, AgreeTrans
        <3>3. chosen' \in Seq(Entry) /\ Len(chosen') \in Nat
            BY <1>10, <2>1
        <3>4. \E v \in Nat : Settled(chosen, Len(chosen), v)'
            BY <1>0, <3>2, <3>3 DEF Settled
        <3>. QED
            BY <3>1, <3>3, <3>4 DEF SequenceInv
    <2>4. Abstract!IsPrefix(chosen, chosen')
        BY <1>0, <1>10, <1>11, <2>1, <2>2, SamePrefix DEF Abstract!IsPrefix, h
    <2>5. \A i \in (Len(chosen) + 1)..Len(chosen') : chosen'[i] \in Entry
        BY <1>0, <1>10, <2>1 DEF h
    <2>6. Abstract!Choose(n)
        BY <1>5, <1>10, <1>11, <2>1, <2>4, <2>5 DEF Abstract!Choose, h
    <2>. QED
        BY <2>3, <2>6 DEF Abstract!Next
<1>12. CASE ~ (commitIndex'[n] > h)
    <2>1. \A s \in Server : commitIndex'[s] <= h
        BY <1>0, <1>2, <1>12
    <2>2. chosen' = chosen
        BY <1>0, <2>1 DEF Record, h
    <2>3. SequenceInv'
        BY <1>0, <1>8, <2>1, <2>2 DEF SequenceInv, Settled, h
    <2>4. CASE commitIndex'[n] = commitIndex[n]
        <3>1. learned' = learned
            BY <1>3, <1>4, <1>5, <2>4
        <3>. QED
            BY <2>2, <2>3, <3>1
    <2>5. CASE commitIndex'[n] = 0 /\ commitIndex[n] # 0
        <3>1. Committed(n)' = <<>> /\ learned[n] # <<>>
            BY <1>3, <1>10, <2>5
        <3>2. Abstract!Forget(n)
            BY <1>5, <2>2, <3>1 DEF Abstract!Forget
        <3>. QED
            BY <2>3, <3>2 DEF Abstract!Next
    <2>6. CASE commitIndex[n] < commitIndex'[n]
        <3>1. Committed(n)' = SubSeq(chosen, 1, commitIndex'[n])
            BY <1>0, <1>9, <2>1, SamePrefix DEF Committed
        <3>2. Len(Committed(n)') \in (Len(learned[n]) + 1)..Len(chosen)
            BY <1>0, <1>3, <1>10, <2>1, <2>6 DEF h
        <3>3. Abstract!Learn(n)
            BY <1>5, <1>10, <2>2, <3>1, <3>2 DEF Abstract!Learn
        <3>. QED
            BY <2>3, <3>3 DEF Abstract!Next
    <2>. QED
        BY <1>0, <1>2, <2>4, <2>5, <2>6
<1>. QED
    BY <1>11, <1>12

\* Every step keeps SequenceInv, and is one of the abstract log or none.
LEMMA FullStep ==
    ASSUME RacyStepDown = FALSE, Cardinality(Server) <= 4, TypeOK, TypeOK',
           ElectionInv, LogInv, ChoiceInv, CommitInv, CommitInv', Meeting',
           SequenceInv, [FullNext]_fullVars
    PROVE  /\ SequenceInv'
           /\ \/ Abstract!Next
              \/ UNCHANGED <<chosen, [n \in Server |-> Committed(n)]>>
<1>1. CASE FullNext
    <2>1. HistoryNext /\ Record
        BY <1>1 DEF FullNext
    <2>2. Around /\ [Next]_vars
        BY <2>1, StepAround
    <2>3. Choices
        BY DEF Choices, LogInv, ChoiceInv
    <2>. QED
        BY <2>1, <2>2, <2>3, RefinementStep
<1>2. CASE UNCHANGED fullVars
    <2>1. UNCHANGED <<chosen, log, commitIndex, leaderLog, accepted>>
        BY <1>2 DEF fullVars, historyVars, vars
    <2>2. SequenceInv'
        BY <2>1 DEF SequenceInv, Settled, Chosen, Blocks
    <2>3. UNCHANGED [n \in Server |-> Committed(n)]
        BY <2>1 DEF Committed
    <2>. QED
        BY <2>1, <2>2, <2>3
<1>. QED
    BY <1>1, <1>2

(***************************************************************************)
(* Raft implements ReplicatedLog: the applyLoops of all the servers,       *)
(* before and after crashes, read one and the same growing sequence.  No   *)
(* index is committed with two different entries, nothing committed is     *)
(* taken back, and nothing is lost when every server that knew of it has   *)
(* crashed.                                                                *)
(***************************************************************************)
THEOREM RaftIsOneLog ==
    ASSUME RacyStepDown = FALSE, Cardinality(Server) <= 4
    PROVE  FullSpec => ImplementsLog
<1>. DEFINE Inv == /\ TypeOK /\ ElectionInv /\ LogInv
                   /\ ChoiceInv /\ CommitInv
            learned == [n \in Server |-> Committed(n)]
<1>1. FullSpec => HistorySpec
    <2>1. FullInit => HistoryInit
        BY DEF FullInit
    <2>2. [FullNext]_fullVars => [HistoryNext]_historyVars
        BY DEF FullNext, fullVars
    <2>. QED
        BY <2>1, <2>2, PTL DEF FullSpec, HistorySpec
<1>2. HistorySpec => []Inv
    BY CommitInvariant
<1>3. Inv => Meeting
    BY SettledMeet DEF Choices, LogInv, ChoiceInv
<1>4. FullInit => SequenceInv
    <2>. SUFFICES ASSUME FullInit PROVE SequenceInv
        OBVIOUS
    <2>1. chosen = <<>> /\ Len(chosen) = 0 /\ \A s \in Server : commitIndex[s] = 0
        BY DEF FullInit, HistoryInit, Init
    <2>2. Settled(chosen, Len(chosen), 0)
        BY <2>1 DEF Settled
    <2>. QED
        BY <2>1, <2>2 DEF SequenceInv
<1>5. Inv /\ Inv' /\ Meeting' /\ SequenceInv /\ [FullNext]_fullVars
          => SequenceInv' /\ [Abstract!Next]_<<chosen, learned>>
    <2>. SUFFICES ASSUME Inv, Inv', Meeting', SequenceInv, [FullNext]_fullVars
                  PROVE  /\ SequenceInv'
                         /\ Abstract!Next \/ UNCHANGED <<chosen, learned>>
        OBVIOUS
    <2>. QED
        BY FullStep
<1>6. FullInit => Abstract!Init
    <2>. SUFFICES ASSUME FullInit
                  PROVE  chosen = <<>> /\ learned = [n \in Server |-> <<>>]
        BY DEF Abstract!Init
    <2>1. \A n \in Server : log[n] = <<>> /\ commitIndex[n] = 0
        BY DEF FullInit, HistoryInit, Init
    <2>2. \A n \in Server : Committed(n) = <<>>
        BY <2>1, SubSeqEmpty DEF Committed
    <2>. QED
        BY <2>2 DEF FullInit
<1>. HIDE DEF Inv
<1>. QED
    BY <1>1, <1>2, <1>3, <1>4, <1>5, <1>6, PTL
       DEF FullSpec, ImplementsLog, Abstract!Spec

=============================================================================
