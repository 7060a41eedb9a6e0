-------------------------- MODULE LogStoresProofs --------------------------
(***************************************************************************)
(* Proofs about the log stores, for keys of any length and any base: the   *)
(* order of the bytes is the order of the numbers, so the cursor of Bolt   *)
(* finds the first and the last index; nobody can tell the two stores      *)
(* apart; and both are the sequence that Raft takes them for.              *)
(***************************************************************************)
EXTENDS LogStores, TLAPS, SequenceTheorems, WellFoundedInduction

-----------------------------------------------------------------------------
(* Keys *)

\* Every non-empty set of numbers has a least element.
LEMMA LeastOf ==
    ASSUME NEW S, S \subseteq Nat, S # {}
    PROVE  \E x \in S : \A y \in S : x <= y
<1>1. PICK x \in S : \A y \in S : ~ (<<y, x>> \in OpToRel(<, Nat))
    BY NatLessThanWellFounded, WFMin, Zenon
<1>2. \A y \in S : ~ (y < x)
    BY <1>1, Zenon DEF OpToRel
<1>. QED
    BY <1>2

\* The weights of the last n digits, n positions from the right: what the
\* definition of Weight stands on.
Weights(n, f) ==
    f = [i \in (Width - n + 1)..Width |->
            IF i = Width THEN 1 ELSE Base * f[i + 1]]

LEMMA WeightsExist == \E f : Weights(Width, f)
<1>. DEFINE Bad == {n \in 1..Width : ~ \E f : Weights(n, f)}
<1>1. SUFFICES ASSUME Bad # {} PROVE FALSE
    BY StoreAssumption
<1>2. PICK n \in Bad : \A m \in Bad : n <= m
    <2>1. Bad \subseteq Nat
        BY StoreAssumption
    <2>. HIDE DEF Bad
    <2>. QED
        BY <1>1, <2>1, LeastOf
<1>3. n # 1
    <2>. DEFINE f == [i \in Width..Width |-> 1]
    <2>1. f = [i \in Width..Width |-> IF i = Width THEN 1 ELSE Base * f[i + 1]]
        BY StoreAssumption
    <2>2. Width - 1 + 1 = Width
        BY StoreAssumption
    <2>3. Weights(1, f)
        BY <2>1, <2>2, Zenon DEF Weights
    <2>. QED
        BY <2>3, <1>2
<1>4. PICK g : Weights(n - 1, g)
    BY <1>2, <1>3, StoreAssumption
<1>. DEFINE f == [i \in (Width - n + 1)..Width |->
                     IF i = Width - n + 1 THEN Base * g[i + 1] ELSE g[i]]
<1>5. ASSUME NEW i \in (Width - n + 1)..Width
      PROVE  f[i] = IF i = Width THEN 1 ELSE Base * f[i + 1]
    <2>1. CASE i = Width - n + 1
        <3>1. i # Width /\ i + 1 \in (Width - n + 1)..Width /\ i + 1 # Width - n + 1
            BY <2>1, <1>3, StoreAssumption
        <3>. QED
            BY <3>1, <2>1
    <2>2. CASE i # Width - n + 1
        <3>1. i \in (Width - (n - 1) + 1)..Width
            BY <2>2, StoreAssumption
        <3>2. g[i] = IF i = Width THEN 1 ELSE Base * g[i + 1]
            BY <3>1, <1>4 DEF Weights
        <3>3. i # Width => i + 1 \in (Width - n + 1)..Width
                           /\ i + 1 # Width - n + 1
            BY <2>2, StoreAssumption
        <3>. QED
            BY <3>2, <3>3, <2>2
    <2>. QED
        BY <2>1, <2>2
<1>6. Weights(n, f)
    <2>. HIDE DEF f
    <2>1. f = [i \in (Width - n + 1)..Width |-> f[i]]
        BY DEF f
    <2>. QED
        BY <2>1, <1>5 DEF Weights
<1>. QED
    BY <1>6, <1>2

LEMMA WeightDef ==
    Weight = [i \in 1..Width |-> IF i = Width THEN 1 ELSE Base * Weight[i + 1]]
<1>1. \A f : Weights(Width, f) <=>
          f = [i \in 1..Width |-> IF i = Width THEN 1 ELSE Base * f[i + 1]]
    <2>1. Width - Width + 1 = 1
        BY StoreAssumption
    <2>. QED
        BY <2>1 DEF Weights
<1>2. \E f : f = [i \in 1..Width |->
                     IF i = Width THEN 1 ELSE Base * f[i + 1]]
    BY <1>1, WeightsExist
<1>. QED
    BY <1>2, Zenon DEF Weight

\* Every weight is a positive number.
LEMMA WeightPositive ==
    \A i \in 1..Width : Weight[i] \in Nat /\ Weight[i] > 0
<1>. DEFINE Bad == {n \in 0..(Width - 1) :
                       ~ (Weight[Width - n] \in Nat /\ Weight[Width - n] > 0)}
<1>1. Bad = {}
    <2>1. SUFFICES ASSUME Bad # {} PROVE FALSE
        OBVIOUS
    <2>2. PICK n \in Bad : \A m \in Bad : n <= m
        <3>1. Bad \subseteq Nat
            BY StoreAssumption
        <3>. HIDE DEF Bad
        <3>. QED
            BY <2>1, <3>1, LeastOf
    <2>3. n # 0
        BY WeightDef, StoreAssumption
    <2>4. n - 1 \notin Bad /\ n - 1 \in 0..(Width - 1)
        BY <2>2, <2>3, StoreAssumption
    <2>5. Weight[Width - n] = Base * Weight[Width - n + 1]
        BY <2>3, WeightDef, StoreAssumption
    <2>6. Width - (n - 1) = Width - n + 1
        BY StoreAssumption
    <2>7. Weight[Width - n + 1] \in Nat /\ Weight[Width - n + 1] > 0
        BY <2>4, <2>6
    <2>8. Weight[Width - n] \in Nat /\ Weight[Width - n] > 0
        BY <2>5, <2>7, StoreAssumption
    <2>. QED
        BY <2>8, <2>2
<1>2. ASSUME NEW i \in 1..Width
      PROVE  Width - i \in 0..(Width - 1) /\ Width - (Width - i) = i
    BY StoreAssumption
<1>. QED
    BY <1>1, <1>2

\* What is left of v when its last digits, those behind the i-th, are cut off.
Cut(v, i) == IF i = 0 THEN v \div Numbers ELSE v \div Weight[i]

LEMMA NumbersPositive == Numbers \in Nat /\ Numbers > 0
BY WeightPositive, StoreAssumption DEF Numbers

\* Division, as the steps below need it.
LEMMA DivMod ==
    ASSUME NEW v \in Nat, NEW d \in Nat, d > 0
    PROVE  /\ v \div d \in Nat /\ v % d \in Nat /\ v % d < d
           /\ v = d * (v \div d) + (v % d)
<1>1. v \div d \in Nat /\ v % d \in Nat /\ v % d < d
    OBVIOUS
<1>2. v % d = v - (v \div d) * d
    OBVIOUS
<1>3. (v \div d) * d \in Int /\ (v \div d) * d = d * (v \div d)
    BY <1>1
<1>4. v = d * (v \div d) + (v % d)
    BY <1>2, <1>3
<1>. QED
    BY <1>1, <1>4

LEMMA DivDiv ==
    ASSUME NEW v \in Nat, NEW b \in Nat, b > 0, NEW c \in Nat, c > 0
    PROVE  v \div (b * c) = (v \div c) \div b
OBVIOUS

LEMMA DivMonotone ==
    ASSUME NEW v \in Nat, NEW w \in Nat, v <= w, NEW d \in Nat, d > 0
    PROVE  v \div d <= w \div d
OBVIOUS

LEMMA CutNat ==
    ASSUME NEW v \in Nat, NEW i \in 0..Width
    PROVE  Cut(v, i) \in Nat
BY WeightPositive, NumbersPositive, DivMod, StoreAssumption DEF Cut

\* One digit more.
LEMMA CutStep ==
    ASSUME NEW v \in Nat, NEW i \in 1..Width
    PROVE  /\ uint64ToBytes(v)[i] \in Nat /\ uint64ToBytes(v)[i] < Base
           /\ Cut(v, i) = Base * Cut(v, i - 1) + uint64ToBytes(v)[i]
<1>1. Weight[i] \in Nat /\ Weight[i] > 0
    BY WeightPositive
<1>2. uint64ToBytes(v)[i] = (v \div Weight[i]) % Base
    BY DEF uint64ToBytes
<1>3. v \div Weight[i] \in Nat
    BY <1>1, DivMod
<1>4. Cut(v, i - 1) = (v \div Weight[i]) \div Base
    <2>1. CASE i = 1
        <3>1. Cut(v, i - 1) = v \div (Base * Weight[1])
            BY <2>1 DEF Cut, Numbers
        <3>. QED
            BY <3>1, <2>1, <1>1, DivDiv, StoreAssumption
    <2>2. CASE i # 1
        <3>1. i - 1 \in 1..Width /\ i - 1 # Width /\ i - 1 # 0 /\ (i - 1) + 1 = i
            BY <2>2, StoreAssumption
        <3>2. Weight[i - 1] = Base * Weight[(i - 1) + 1]
            BY <3>1, WeightDef
        <3>3. Cut(v, i - 1) = v \div (Base * Weight[i])
            BY <3>1, <3>2 DEF Cut
        <3>. QED
            BY <3>3, <1>1, DivDiv, StoreAssumption
    <2>. QED
        BY <2>1, <2>2
<1>5. Cut(v, i) = v \div Weight[i]
    BY DEF Cut
<1>. DEFINE q == v \div Weight[i]
<1>6. /\ q % Base \in Nat /\ q % Base < Base
      /\ q = Base * (q \div Base) + (q % Base)
    <2>1. q \in Nat
        BY <1>3
    <2>. HIDE DEF q
    <2>. QED
        BY <2>1, DivMod, StoreAssumption
<1>. QED
    BY <1>2, <1>4, <1>5, <1>6

LEMMA CutEnds ==
    ASSUME NEW v \in 0..(Numbers - 1)
    PROVE  v \in Nat /\ Cut(v, 0) = 0 /\ Cut(v, Width) = v
<1>1. v \in Nat /\ v < Numbers
    BY NumbersPositive
<1>2. v \div Numbers = 0
    BY <1>1, NumbersPositive, DivMod
<1>3. Weight[Width] = 1
    BY WeightDef, StoreAssumption
<1>4. v \div 1 = v
    BY <1>1, DivMod
<1>. QED
    BY <1>1, <1>2, <1>3, <1>4, StoreAssumption DEF Cut

(***************************************************************************)
(* The order of numbers is the order of their keys, byte by byte from the  *)
(* left: the first digit at which two keys differ decides.                 *)
(***************************************************************************)
LEMMA KeysInOrder ==
    ASSUME NEW v \in 0..(Numbers - 1), NEW w \in 0..(Numbers - 1), v < w
    PROVE  \E i \in 1..Width :
               /\ uint64ToBytes(v)[i] < uint64ToBytes(w)[i]
               /\ \A h \in 1..(i - 1) : uint64ToBytes(v)[h] = uint64ToBytes(w)[h]
<1>. DEFINE Differ == {i \in 0..Width : Cut(v, i) # Cut(w, i)}
<1>1. Differ \subseteq Nat /\ Width \in Differ
    BY CutEnds, StoreAssumption
<1>2. PICK i \in Differ : \A j \in Differ : i <= j
    <2>. HIDE DEF Differ
    <2>. QED
        BY <1>1, LeastOf
<1>3. i \in 1..Width
    BY CutEnds, StoreAssumption
<1>4. \A h \in 0..(i - 1) : Cut(v, h) = Cut(w, h)
    BY <1>2, <1>3, StoreAssumption
<1>5. v \in Nat /\ w \in Nat
    BY CutEnds
<1>6. Cut(v, i) < Cut(w, i)
    <2>1. v \div Weight[i] <= w \div Weight[i]
        BY <1>3, <1>5, WeightPositive, DivMonotone
    <2>2. Cut(v, i) <= Cut(w, i)
        BY <2>1, <1>3 DEF Cut
    <2>3. Cut(v, i) \in Nat /\ Cut(w, i) \in Nat /\ Cut(v, i) # Cut(w, i)
        BY <1>2, <1>5, CutNat
    <2>. QED
        BY <2>2, <2>3
<1>7. uint64ToBytes(v)[i] < uint64ToBytes(w)[i]
    <2>1. Cut(v, i) = Base * Cut(v, i - 1) + uint64ToBytes(v)[i]
          /\ uint64ToBytes(v)[i] \in Nat
        BY <1>3, <1>5, CutStep
    <2>2. Cut(w, i) = Base * Cut(v, i - 1) + uint64ToBytes(w)[i]
          /\ uint64ToBytes(w)[i] \in Nat
        BY <1>3, <1>4, <1>5, CutStep, StoreAssumption
    <2>3. Base * Cut(v, i - 1) \in Nat
        BY <1>3, <1>5, CutNat, StoreAssumption
    <2>. QED
        BY <2>1, <2>2, <2>3, <1>6
<1>8. ASSUME NEW h \in 1..(i - 1)
      PROVE  uint64ToBytes(v)[h] = uint64ToBytes(w)[h]
    <2>1. h \in 1..Width /\ h \in 0..(i - 1) /\ h - 1 \in 0..(i - 1)
          /\ h - 1 \in 0..Width
        BY <1>3, StoreAssumption
    <2>2. Cut(v, h) = Cut(w, h) /\ Cut(v, h - 1) = Cut(w, h - 1)
        BY <2>1, <1>4
    <2>3. Base * Cut(v, h - 1) \in Nat
        BY <2>1, <1>5, CutNat, StoreAssumption
    <2>4. Cut(v, h) = Base * Cut(v, h - 1) + uint64ToBytes(v)[h]
          /\ uint64ToBytes(v)[h] \in Nat
        BY <2>1, <1>5, CutStep
    <2>5. Cut(w, h) = Base * Cut(w, h - 1) + uint64ToBytes(w)[h]
          /\ uint64ToBytes(w)[h] \in Nat
        BY <2>1, <1>5, CutStep
    <2>6. ASSUME NEW a \in Nat, NEW d \in Nat, NEW e \in Nat, a + d = a + e
          PROVE  d = e
        BY <2>6
    <2>. QED
        BY <2>2, <2>3, <2>4, <2>5, <2>6, Zenon
<1>. QED
    BY <1>3, <1>7, <1>8

\* So the cursor's order is that of the numbers, and no two of them share a key.
LEMMA KeyOrder ==
    ASSUME NEW v \in 0..(Numbers - 1), NEW w \in 0..(Numbers - 1)
    PROVE  /\ ByteLeq(uint64ToBytes(v), uint64ToBytes(w)) <=> v <= w
           /\ uint64ToBytes(v) = uint64ToBytes(w) => v = w
<1>0. v \in Nat /\ w \in Nat
    BY CutEnds
<1>1. ASSUME NEW x \in 0..(Numbers - 1), NEW y \in 0..(Numbers - 1), x < y
      PROVE  /\ ByteLeq(uint64ToBytes(x), uint64ToBytes(y))
             /\ ~ ByteLeq(uint64ToBytes(y), uint64ToBytes(x))
             /\ uint64ToBytes(x) # uint64ToBytes(y)
    <2>. DEFINE j == uint64ToBytes(x)  k == uint64ToBytes(y)
    <2>1. PICK i \in 1..Width :
              j[i] < k[i] /\ \A h \in 1..(i - 1) : j[h] = k[h]
        BY <1>1, KeysInOrder
    <2>2. \A h \in 1..Width : j[h] \in Nat /\ k[h] \in Nat
        BY CutStep, CutEnds
    <2>. HIDE DEF j, k
    <2>3. j # k
        BY <2>1, <2>2
    <2>4. ASSUME NEW h \in 1..Width, k[h] < j[h],
                 \A g \in 1..(h - 1) : k[g] = j[g]
          PROVE  FALSE
        <3>1. h < i \/ h = i \/ i < h
            BY StoreAssumption
        <3>. QED
            BY <3>1, <2>1, <2>2, <2>4
    <2>. QED
        BY <2>1, <2>3, <2>4 DEF ByteLeq, j, k
<1>2. v < w \/ v = w \/ w < v
    BY <1>0
<1>3. CASE v = w
    BY <1>3, <1>0 DEF ByteLeq
<1>4. CASE v < w
    BY <1>4, <1>0, <1>1
<1>5. CASE w < v
    BY <1>5, <1>0, <1>1
<1>. QED
    BY <1>2, <1>3, <1>4, <1>5

\* bytesToUint64 undoes uint64ToBytes.
LEMMA KeyBack ==
    ASSUME NEW v \in 0..(Numbers - 1)
    PROVE  bytesToUint64(uint64ToBytes(v)) = v
<1>. DEFINE k == uint64ToBytes(v)
<1>1. \A w \in 0..(Numbers - 1) : uint64ToBytes(w) = k => w = v
    BY KeyOrder
<1>. HIDE DEF k
<1>2. \E w \in 0..(Numbers - 1) : uint64ToBytes(w) = k
    BY DEF k
<1>3. bytesToUint64(k) \in 0..(Numbers - 1)
      /\ uint64ToBytes(bytesToUint64(k)) = k
    BY <1>2, Zenon DEF bytesToUint64
<1>. QED
    BY <1>1, <1>3 DEF k

-----------------------------------------------------------------------------
(* The stores *)

\* The inductive invariant: the map holds the indexes from 1 to highIdx, and the
\* bucket the same values under their keys.
IInv ==
    /\ highIdx \in 0..MaxIndex
    /\ lowIdx = IF highIdx = 0 THEN 0 ELSE 1
    /\ entries \in [1..highIdx -> Value]
    /\ bucket = [k \in {uint64ToBytes(i) : i \in 1..highIdx} |->
                    entries[bytesToUint64(k)]]

\* Indexes are numbers that keys tell apart.
LEMMA Indexes ==
    ASSUME NEW i \in 0..MaxIndex
    PROVE  i \in 0..(Numbers - 1) /\ i \in Nat
BY StoreAssumption, IndexAssumption, NumbersPositive

LEMMA BucketKeys ==
    ASSUME IInv
    PROVE  /\ DOMAIN bucket = {uint64ToBytes(i) : i \in 1..highIdx}
           /\ \A i \in 0..MaxIndex :
                  /\ uint64ToBytes(i) \in DOMAIN bucket <=> i \in 1..highIdx
                  /\ i \in 1..highIdx => bucket[uint64ToBytes(i)] = entries[i]
<1>1. DOMAIN bucket = {uint64ToBytes(i) : i \in 1..highIdx}
    BY DEF IInv
<1>2. ASSUME NEW i \in 0..MaxIndex
      PROVE  /\ uint64ToBytes(i) \in DOMAIN bucket <=> i \in 1..highIdx
             /\ i \in 1..highIdx => bucket[uint64ToBytes(i)] = entries[i]
    <2>1. ASSUME NEW j \in 1..highIdx
          PROVE  j \in 0..MaxIndex /\ j \in 0..(Numbers - 1)
        BY Indexes, StoreAssumption DEF IInv
    <2>2. \A j \in 1..highIdx : uint64ToBytes(j) = uint64ToBytes(i) => j = i
        BY <2>1, Indexes, KeyOrder
    <2>3. uint64ToBytes(i) \in DOMAIN bucket <=> i \in 1..highIdx
        BY <1>1, <2>2
    <2>4. ASSUME i \in 1..highIdx
          PROVE  bucket[uint64ToBytes(i)] = entries[i]
        BY <1>1, <2>3, <2>4, Indexes, KeyBack DEF IInv
    <2>. QED
        BY <2>3, <2>4
<1>. QED
    BY <1>1, <1>2

\* A cursor's first and last keys are those of 1 and of highIdx.
LEMMA Ends ==
    ASSUME IInv
    PROVE  FirstIndex = lowIdx /\ LastIndex = highIdx
<1>0. highIdx \in 0..MaxIndex /\ highIdx \in Nat
    BY StoreAssumption DEF IInv
<1>1. DOMAIN bucket = {uint64ToBytes(i) : i \in 1..highIdx}
    BY BucketKeys
<1>2. CASE highIdx = 0
    <2>1. DOMAIN bucket = {}
        BY <1>1, <1>2
    <2>. QED
        BY <2>1, <1>2 DEF FirstIndex, LastIndex, IInv
<1>3. CASE highIdx # 0
    <2>1. \A i \in 1..highIdx : i \in 0..(Numbers - 1) /\ i \in Nat
        BY <1>0, Indexes, StoreAssumption
    <2>2. 1 \in 1..highIdx /\ highIdx \in 1..highIdx
        BY <1>0, <1>3
    <2>3. DOMAIN bucket # {}
        BY <1>1, <2>2
    <2>4. \A i, j \in 1..highIdx :
              ByteLeq(uint64ToBytes(i), uint64ToBytes(j)) <=> i <= j
        BY <2>1, KeyOrder
    <2>5. \A i \in 1..highIdx : bytesToUint64(uint64ToBytes(i)) = i
        BY <2>1, KeyBack
    <2>. DEFINE D == DOMAIN bucket
                First(k) == \A j \in D : ByteLeq(k, j)
                Final(k) == \A j \in D : ByteLeq(j, k)
    <2>6. First(uint64ToBytes(1)) /\ Final(uint64ToBytes(highIdx))
        BY <1>1, <2>2, <2>4, <2>1
    <2>7. \A i \in 1..highIdx : First(uint64ToBytes(i)) => i = 1
        BY <1>1, <2>2, <2>4, <2>1
    <2>8. \A i \in 1..highIdx : Final(uint64ToBytes(i)) => i = highIdx
        BY <1>1, <2>2, <2>4, <2>1
    <2>9. \A k \in D : First(k) => k = uint64ToBytes(1)
        BY <1>1, <2>7
    <2>10. \A k \in D : Final(k) => k = uint64ToBytes(highIdx)
        BY <1>1, <2>8
    <2>11. uint64ToBytes(1) \in D /\ uint64ToBytes(highIdx) \in D
        BY <1>1, <2>2
    <2>. HIDE DEF First, Final
    <2>12. (CHOOSE k \in D : First(k)) = uint64ToBytes(1)
        BY <2>6, <2>9, <2>11
    <2>13. (CHOOSE k \in D : Final(k)) = uint64ToBytes(highIdx)
        BY <2>6, <2>10, <2>11
    <2>14. FirstIndex = bytesToUint64(uint64ToBytes(1))
        BY <2>3, <2>12 DEF FirstIndex, First
    <2>15. LastIndex = bytesToUint64(uint64ToBytes(highIdx))
        BY <2>3, <2>13 DEF LastIndex, Final
    <2>. QED
        BY <2>14, <2>15, <2>5, <2>2, <1>3 DEF IInv
<1>. QED
    BY <1>2, <1>3

LEMMA Agreement == ASSUME IInv PROVE StoresAgree
<1>1. \A i \in 0..MaxIndex :
          GetLog(i) = IF i \in DOMAIN entries THEN entries[i] ELSE None
    <2>1. DOMAIN entries = 1..highIdx
        BY DEF IInv
    <2>. QED
        BY <2>1, BucketKeys DEF GetLog
<1>. QED
    BY <1>1, Ends DEF StoresAgree

LEMMA IInvInit == ASSUME Init PROVE IInv
<1>1. highIdx = 0 /\ lowIdx = 0 /\ bucket = <<>> /\ entries = <<>>
    BY DEF Init
<1>2. 1..0 = {} /\ {uint64ToBytes(i) : i \in 1..0} = {}
    OBVIOUS
<1>3. \A f : [x \in {} |-> f[x]] = <<>>
    OBVIOUS
<1>4. entries \in [1..highIdx -> Value]
    BY <1>1, <1>2
<1>5. bucket = [k \in {uint64ToBytes(i) : i \in 1..highIdx} |->
                    entries[bytesToUint64(k)]]
    BY <1>1, <1>2
<1>. QED
    BY <1>1, <1>4, <1>5, StoreAssumption DEF IInv

(***************************************************************************)
(* StoreLogs: the entries of the batch come behind the ones that are there *)
(* and no index is met twice, so that each has its own value.              *)
(***************************************************************************)
LEMMA Stored ==
    ASSUME IInv, NEW n \in Nat, n # 0, NEW values \in [1..n -> Value],
           StoreLogs(values)
    PROVE  /\ highIdx' = highIdx + n /\ highIdx' \in 0..MaxIndex /\ lowIdx' = 1
           /\ entries' = [j \in 1..(highIdx + n) |->
                  IF j \in 1..highIdx THEN entries[j] ELSE values[j - highIdx]]
           /\ bucket' = [k \in {uint64ToBytes(i) : i \in 1..(highIdx + n)} |->
                  entries'[bytesToUint64(k)]]
<1>. DEFINE batch == [i \in 1..n |-> [index |-> highIdx + i, value |-> values[i]]]
            indexes == {batch[i].index : i \in DOMAIN batch}
            keys == {uint64ToBytes(batch[i].index) : i \in DOMAIN batch}
<1>0. highIdx \in Nat /\ highIdx \in 0..MaxIndex
      /\ lowIdx = IF highIdx = 0 THEN 0 ELSE 1
    BY StoreAssumption DEF IInv
<1>1. /\ highIdx + n <= MaxIndex
      /\ BoltStoreLogs(batch) /\ InmemStoreLogs(batch)
    <2>1. LastIndex = highIdx /\ DOMAIN values = 1..n /\ Len(values) = n
        BY Ends
    <2>. QED
        BY <2>1 DEF StoreLogs
<1>2. /\ DOMAIN batch = 1..n
      /\ \A i \in 1..n : batch[i].index = highIdx + i /\ batch[i].value = values[i]
    OBVIOUS
<1>3. indexes = (highIdx + 1)..(highIdx + n)
    <2>1. \A j \in (highIdx + 1)..(highIdx + n) :
              j - highIdx \in 1..n /\ highIdx + (j - highIdx) = j
        BY <1>0
    <2>2. \A i \in 1..n : highIdx + i \in (highIdx + 1)..(highIdx + n)
        BY <1>0
    <2>3. indexes = {highIdx + i : i \in 1..n}
        BY <1>2
    <2>. HIDE DEF batch, indexes
    <2>. QED
        BY <2>1, <2>2, <2>3
<1>. HIDE DEF batch
<1>4. ASSUME NEW i \in 1..n
      PROVE  /\ {h \in DOMAIN batch : batch[h].index = highIdx + i} = {i}
             /\ {h \in DOMAIN batch :
                    uint64ToBytes(batch[h].index) = uint64ToBytes(highIdx + i)}
                  = {i}
    <2>1. \A h \in 1..n : highIdx + h \in 0..(Numbers - 1)
        BY <1>0, <1>1, Indexes, StoreAssumption
    <2>2. \A h \in 1..n : uint64ToBytes(highIdx + h) = uint64ToBytes(highIdx + i)
              => highIdx + h = highIdx + i
        BY <2>1, KeyOrder
    <2>3. \A h \in 1..n : highIdx + h = highIdx + i => h = i
        BY <1>0
    <2>. QED
        BY <1>2, <2>2, <2>3
<1>5. \A i \in 1..n : Max({i}) = i
    BY DEF Max
<1>6. entries' = [j \in 1..(highIdx + n) |->
          IF j \in 1..highIdx THEN entries[j] ELSE values[j - highIdx]]
    <2>1. DOMAIN entries = 1..highIdx
        BY DEF IInv
    <2>2. DOMAIN entries \cup indexes = 1..(highIdx + n)
        BY <2>1, <1>3, <1>0
    <2>3. entries' = [j \in 1..(highIdx + n) |->
              IF j \in indexes
              THEN batch[Max({h \in DOMAIN batch : batch[h].index = j})].value
              ELSE entries[j]]
        BY <1>1, <2>2 DEF InmemStoreLogs
    <2>4. ASSUME NEW j \in indexes
          PROVE  /\ batch[Max({h \in DOMAIN batch : batch[h].index = j})].value
                      = values[j - highIdx]
                 /\ j \notin 1..highIdx
        <3>1. j - highIdx \in 1..n /\ highIdx + (j - highIdx) = j
              /\ j \notin 1..highIdx
            BY <1>3, <1>0
        <3>2. {h \in DOMAIN batch : batch[h].index = j} = {j - highIdx}
            BY <3>1, <1>4
        <3>. QED
            BY <3>1, <3>2, <1>5, <1>2
    <2>5. \A j \in 1..(highIdx + n) : j \in indexes <=> j \notin 1..highIdx
        BY <1>3, <1>0
    <2>. HIDE DEF indexes
    <2>. QED
        BY <2>3, <2>4, <2>5
<1>7. highIdx' = highIdx + n
    <2>1. highIdx' = Max(indexes \cup {highIdx})
        BY <1>1 DEF InmemStoreLogs
    <2>2. /\ highIdx + n \in indexes \cup {highIdx}
          /\ \A y \in indexes \cup {highIdx} : y \in Nat /\ highIdx + n >= y
        <3>. HIDE DEF indexes
        <3>. QED
            BY <1>0, <1>3
    <2>. HIDE DEF indexes
    <2>3. \A x \in indexes \cup {highIdx} :
              (\A y \in indexes \cup {highIdx} : x >= y) => x = highIdx + n
        BY <2>2, <1>0
    <2>. QED
        BY <2>1, <2>2, <2>3 DEF Max
<1>8. lowIdx' = 1
    <2>. DEFINE S == indexes \cup ({lowIdx} \ {0})
    <2>1. lowIdx' = Min(S)
        BY <1>1 DEF InmemStoreLogs
    <2>2. 1 \in S /\ \A y \in S : y \in Nat /\ 1 <= y
        BY <1>0, <1>3
    <2>. HIDE DEF S
    <2>3. \A x \in S : (\A y \in S : x <= y) => x = 1
        BY <2>2
    <2>. QED
        BY <2>1, <2>2, <2>3 DEF Min
<1>9. bucket' = [k \in {uint64ToBytes(i) : i \in 1..(highIdx + n)} |->
                    entries'[bytesToUint64(k)]]
    <2>. DEFINE Keys(m) == {uint64ToBytes(i) : i \in 1..m}
    <2>1. \A i \in 1..(highIdx + n) : i \in 0..MaxIndex /\ i \in 0..(Numbers - 1)
        BY <1>0, <1>1, Indexes, StoreAssumption
    <2>2. \A i \in 1..(highIdx + n) : uint64ToBytes(i) \in keys <=> i \in indexes
        <3>1. \A i, j \in 1..(highIdx + n) :
                  uint64ToBytes(i) = uint64ToBytes(j) => i = j
            BY <2>1, KeyOrder
        <3>2. indexes \subseteq 1..(highIdx + n)
            BY <1>3, <1>0
        <3>. QED
            BY <3>1, <3>2
    <2>3. DOMAIN bucket \cup keys = Keys(highIdx + n)
        <3>1. DOMAIN bucket = Keys(highIdx)
            BY BucketKeys
        <3>2. keys = {uint64ToBytes(i) : i \in indexes}
            OBVIOUS
        <3>3. 1..(highIdx + n) = 1..highIdx \cup indexes
            BY <1>3, <1>0
        <3>. HIDE DEF keys, indexes
        <3>. QED
            BY <3>1, <3>2, <3>3
    <2>4. bucket' = [k \in Keys(highIdx + n) |->
              IF k \in keys
              THEN batch[Max({h \in DOMAIN batch :
                                 uint64ToBytes(batch[h].index) = k})].value
              ELSE bucket[k]]
        BY <1>1, <2>3 DEF BoltStoreLogs
    <2>5. ASSUME NEW i \in 1..(highIdx + n)
          PROVE  bucket'[uint64ToBytes(i)] = entries'[i]
        <3>1. uint64ToBytes(i) \in Keys(highIdx + n)
            OBVIOUS
        <3>2. CASE i \in indexes
            <4>1. i - highIdx \in 1..n /\ highIdx + (i - highIdx) = i
                  /\ i \notin 1..highIdx
                BY <3>2, <1>3, <1>0
            <4>2. {h \in DOMAIN batch :
                      uint64ToBytes(batch[h].index) = uint64ToBytes(i)}
                    = {i - highIdx}
                BY <4>1, <1>4
            <4>3. bucket'[uint64ToBytes(i)] = batch[Max({i - highIdx})].value
                BY <2>4, <3>1, <3>2, <2>2, <4>2
            <4>4. bucket'[uint64ToBytes(i)] = values[i - highIdx]
                BY <4>1, <4>3, <1>5, <1>2
            <4>. QED
                BY <4>4, <4>1, <1>6
        <3>3. CASE i \notin indexes
            <4>1. i \in 1..highIdx
                <5>. HIDE DEF indexes
                <5>. QED
                    BY <3>3, <1>3, <1>0
            <4>2. bucket'[uint64ToBytes(i)] = bucket[uint64ToBytes(i)]
                BY <2>4, <3>1, <3>3, <2>2
            <4>3. bucket[uint64ToBytes(i)] = entries[i]
                BY <4>1, <2>1, BucketKeys
            <4>. QED
                BY <4>1, <4>2, <4>3, <1>6
        <3>. QED
            BY <3>2, <3>3
    <2>6. \A i \in 1..(highIdx + n) : bytesToUint64(uint64ToBytes(i)) = i
        BY <2>1, KeyBack
    <2>7. bucket' = [k \in Keys(highIdx + n) |-> bucket'[k]]
        BY <2>4
    <2>8. \A k \in Keys(highIdx + n) : bucket'[k] = entries'[bytesToUint64(k)]
        BY <2>5, <2>6
    <2>. HIDE DEF Keys
    <2>9. bucket' = [k \in Keys(highIdx + n) |-> entries'[bytesToUint64(k)]]
        BY <2>7, <2>8
    <2>. QED
        BY <2>9 DEF Keys
<1>. QED
    BY <1>0, <1>1, <1>6, <1>7, <1>8, <1>9

\* DeleteRange from min to the end: what is below min stays.
LEMMA Deleted ==
    ASSUME IInv, NEW min \in 1..LastIndex, DeleteRange(min)
    PROVE  /\ min \in 1..highIdx
           /\ highIdx' = min - 1 /\ lowIdx' = IF min = 1 THEN 0 ELSE 1
           /\ entries' = [j \in 1..(min - 1) |-> entries[j]]
           /\ bucket' = [k \in {uint64ToBytes(i) : i \in 1..(min - 1)} |->
                  entries[bytesToUint64(k)]]
<1>0. /\ highIdx \in Nat /\ highIdx \in 0..MaxIndex /\ LastIndex = highIdx
      /\ min \in 1..highIdx /\ DOMAIN entries = 1..highIdx
    BY Ends, StoreAssumption DEF IInv
<1>1. BoltDeleteRange(min, highIdx) /\ InmemDeleteRange(min, highIdx)
    BY <1>0 DEF DeleteRange
<1>2. DOMAIN entries \ (min..highIdx) = 1..(min - 1)
    BY <1>0
<1>3. entries' = [j \in 1..(min - 1) |-> entries[j]]
    BY <1>1, <1>2 DEF InmemDeleteRange
<1>4. /\ lowIdx' = IF 1..(min - 1) = {} THEN 0 ELSE Min(1..(min - 1))
      /\ highIdx' = IF 1..(min - 1) = {} THEN 0 ELSE Max(1..(min - 1))
    BY <1>1, <1>2 DEF InmemDeleteRange
<1>5. highIdx' = min - 1 /\ lowIdx' = IF min = 1 THEN 0 ELSE 1
    <2>1. CASE min = 1
        BY <2>1, <1>4
    <2>2. CASE min # 1
        <3>1. 1 \in 1..(min - 1) /\ min - 1 \in 1..(min - 1)
            BY <2>2, <1>0
        <3>2. Min(1..(min - 1)) = 1
            BY <3>1 DEF Min
        <3>3. Max(1..(min - 1)) = min - 1
            BY <3>1 DEF Max
        <3>. QED
            BY <2>2, <3>1, <3>2, <3>3, <1>4
    <2>. QED
        BY <2>1, <2>2
<1>6. bucket' = [k \in {uint64ToBytes(i) : i \in 1..(min - 1)} |->
                    entries[bytesToUint64(k)]]
    <2>. DEFINE from == {k \in DOMAIN bucket : ByteLeq(uint64ToBytes(min), k)}
                deleted == {k \in from : \A j \in from :
                                ByteLeq(j, k) => bytesToUint64(j) <= highIdx}
    <2>1. bucket' = [k \in DOMAIN bucket \ deleted |-> bucket[k]]
        BY <1>1 DEF BoltDeleteRange
    <2>2. \A i \in 1..highIdx : i \in 0..MaxIndex /\ i \in 0..(Numbers - 1)
        BY <1>0, Indexes, StoreAssumption
    <2>3. DOMAIN bucket = {uint64ToBytes(i) : i \in 1..highIdx}
        BY BucketKeys
    <2>4. \A i \in 1..highIdx : uint64ToBytes(i) \in from <=> min <= i
        BY <2>2, <2>3, <1>0, KeyOrder
    <2>5. \A k \in from : bytesToUint64(k) <= highIdx
        BY <2>2, <2>3, <1>0, KeyBack
    <2>6. deleted = from
        BY <2>5
    <2>7. DOMAIN bucket \ deleted = {uint64ToBytes(i) : i \in 1..(min - 1)}
        <3>1. \A i \in 1..highIdx : i \in 1..(min - 1) <=> ~ (min <= i)
            BY <1>0
        <3>2. 1..(min - 1) \subseteq 1..highIdx
            BY <1>0
        <3>. HIDE DEF from, deleted
        <3>. QED
            BY <2>3, <2>4, <2>6, <3>1, <3>2
    <2>8. \A k \in DOMAIN bucket : bucket[k] = entries[bytesToUint64(k)]
        BY DEF IInv
    <2>. HIDE DEF deleted
    <2>. QED
        BY <2>1, <2>7, <2>8
<1>. QED
    BY <1>0, <1>3, <1>5, <1>6

LEMMA IInvNext == ASSUME IInv, [Next]_vars PROVE IInv'
<1>0. highIdx \in Nat /\ highIdx \in 0..MaxIndex /\ entries \in [1..highIdx -> Value]
    BY StoreAssumption DEF IInv
<1>1. ASSUME NEW n \in 1..MaxBatch, NEW values \in [1..n -> Value],
             StoreLogs(values)
      PROVE  IInv'
    <2>1. n \in Nat /\ n # 0
        BY StoreAssumption
    <2>2. /\ highIdx' = highIdx + n /\ highIdx' \in 0..MaxIndex /\ lowIdx' = 1
          /\ entries' = [j \in 1..(highIdx + n) |->
                 IF j \in 1..highIdx THEN entries[j] ELSE values[j - highIdx]]
          /\ bucket' = [k \in {uint64ToBytes(i) : i \in 1..(highIdx + n)} |->
                 entries'[bytesToUint64(k)]]
        BY <1>1, <2>1, Stored
    <2>3. entries' \in [1..(highIdx + n) -> Value]
        <3>1. \A j \in 1..(highIdx + n) : j \notin 1..highIdx => j - highIdx \in 1..n
            BY <1>0, <2>1
        <3>. QED
            BY <2>2, <3>1, <1>0
    <2>4. highIdx + n # 0
        BY <1>0, <2>1
    <2>. QED
        BY <2>2, <2>3, <2>4 DEF IInv
<1>2. ASSUME NEW min \in 1..LastIndex, DeleteRange(min)
      PROVE  IInv'
    <2>1. /\ min \in 1..highIdx
          /\ highIdx' = min - 1 /\ lowIdx' = IF min = 1 THEN 0 ELSE 1
          /\ entries' = [j \in 1..(min - 1) |-> entries[j]]
          /\ bucket' = [k \in {uint64ToBytes(i) : i \in 1..(min - 1)} |->
                 entries[bytesToUint64(k)]]
        BY <1>2, Deleted
    <2>2. min - 1 \in 0..MaxIndex /\ (min - 1 = 0 <=> min = 1)
          /\ 1..(min - 1) \subseteq 1..highIdx
        BY <2>1, <1>0, StoreAssumption
    <2>3. entries' \in [1..(min - 1) -> Value]
        BY <2>1, <2>2, <1>0
    <2>4. \A i \in 1..(min - 1) :
              /\ bytesToUint64(uint64ToBytes(i)) = i /\ entries'[i] = entries[i]
        BY <2>1, <2>2, <1>0, Indexes, KeyBack, StoreAssumption
    <2>5. bucket' = [k \in {uint64ToBytes(i) : i \in 1..(min - 1)} |->
                 entries'[bytesToUint64(k)]]
        BY <2>1, <2>4
    <2>. QED
        BY <2>1, <2>2, <2>3, <2>5 DEF IInv
<1>3. CASE UNCHANGED vars
    BY <1>3 DEF IInv, vars
<1>. QED
    BY <1>1, <1>2, <1>3 DEF Next

(***************************************************************************)
(* Nobody can tell the store of production from the store of the tests,    *)
(* whatever is stored and cut off, for any number of digits.               *)
(***************************************************************************)
THEOREM SameStores == Spec => []StoresAgree
<1>1. Spec => []IInv
    BY IInvInit, IInvNext, PTL DEF Spec
<1>. QED
    BY <1>1, Agreement, PTL

-----------------------------------------------------------------------------
(* The sequence *)

LEMMA LogIsEntries == IInv => [i \in 1..LastIndex |-> GetLog(i)] = entries
<1>. SUFFICES ASSUME IInv
              PROVE  [i \in 1..LastIndex |-> GetLog(i)] = entries
    OBVIOUS
<1>1. LastIndex = highIdx /\ entries \in [1..highIdx -> Value]
      /\ highIdx \in 0..MaxIndex
    BY Ends DEF IInv
<1>2. \A i \in 1..highIdx : GetLog(i) = entries[i]
    <2>1. \A i \in 1..highIdx : i \in 0..MaxIndex
        BY <1>1, StoreAssumption
    <2>. QED
        BY <2>1, BucketKeys DEF GetLog
<1>. QED
    BY <1>1, <1>2

LEMMA SequenceStep ==
    ASSUME IInv, [Next]_vars,
           [i \in 1..LastIndex |-> GetLog(i)] = entries,
           [i \in 1..LastIndex |-> GetLog(i)]' = entries'
    PROVE  [Sequence!Next]_([i \in 1..LastIndex |-> GetLog(i)])
<1>. DEFINE log == [i \in 1..LastIndex |-> GetLog(i)]
<1>0. log = entries /\ log' = entries'
    OBVIOUS
<1>1. highIdx \in Nat /\ entries \in [1..highIdx -> Value]
      /\ entries \in Seq(Value) /\ Len(entries) = highIdx
    BY StoreAssumption DEF IInv
<1>2. ASSUME NEW n \in 1..MaxBatch, NEW values \in [1..n -> Value],
             StoreLogs(values)
      PROVE  entries' = entries \o values
    <2>1. n \in Nat /\ n # 0 /\ Len(values) = n /\ values \in Seq(Value)
        <3>1. n \in Nat /\ n # 0
            BY StoreAssumption
        <3>. QED
            BY <3>1
    <2>2. entries' = [j \in 1..(highIdx + n) |->
              IF j \in 1..highIdx THEN entries[j] ELSE values[j - highIdx]]
        BY <1>2, <2>1, Stored
    <2>. DEFINE both == entries \o values
    <2>3. /\ both \in Seq(Value) /\ Len(both) = highIdx + n
          /\ \A j \in 1..(highIdx + n) :
                 both[j] = IF j <= highIdx THEN entries[j] ELSE values[j - highIdx]
        BY <2>1, <1>1, ConcatProperties
    <2>. HIDE DEF both
    <2>4. both = [j \in 1..(highIdx + n) |-> both[j]]
        BY <2>3
    <2>5. \A j \in 1..(highIdx + n) : j \in 1..highIdx <=> j <= highIdx
        BY <1>1, <2>1
    <2>6. entries' = both
        BY <2>2, <2>3, <2>4, <2>5
    <2>. QED
        BY <2>6 DEF both
<1>3. ASSUME NEW min \in 1..LastIndex, DeleteRange(min)
      PROVE  min \in 1..Len(entries) /\ entries' = SubSeq(entries, 1, min - 1)
    <2>1. min \in 1..highIdx /\ entries' = [j \in 1..(min - 1) |-> entries[j]]
        BY <1>3, Deleted
    <2>. QED
        BY <2>1, <1>1
<1>4. CASE UNCHANGED vars
    BY <1>4, <1>0 DEF vars
<1>. HIDE DEF log
<1>5. ASSUME NEW n \in 1..MaxBatch, NEW values \in [1..n -> Value],
             StoreLogs(values)
      PROVE  Sequence!Store
    BY <1>0, <1>2, <1>5 DEF Sequence!Store, log
<1>6. ASSUME NEW min \in 1..LastIndex, DeleteRange(min)
      PROVE  Sequence!Cut
    BY <1>0, <1>3, <1>6 DEF Sequence!Cut, log
<1>. QED
    BY <1>4, <1>5, <1>6 DEF Next, Sequence!Next, log

(***************************************************************************)
(* The Bolt store is the sequence that module Raft works with.             *)
(***************************************************************************)
THEOREM StoreIsSequence == Spec => ImplementsSequence
<1>1. Spec => []IInv
    BY IInvInit, IInvNext, PTL DEF Spec
<1>2. Init => Sequence!Init
    <2>1. Init => entries = <<>>
        BY DEF Init
    <2>. QED
        BY <2>1, IInvInit, LogIsEntries DEF Sequence!Init
<1>. DEFINE Same == [i \in 1..LastIndex |-> GetLog(i)] = entries
<1>3. IInv /\ Same /\ Same' /\ [Next]_vars
          => [Sequence!Next]_([i \in 1..LastIndex |-> GetLog(i)])
    BY SequenceStep
<1>4. IInv => Same
    BY LogIsEntries
<1>. HIDE DEF Same
<1>. QED
    BY <1>1, <1>2, <1>3, <1>4, PTL DEF Spec, ImplementsSequence, Sequence!Spec

=============================================================================
