--------------------------- MODULE ProvidersProofs ---------------------------
(***************************************************************************)
(* The safety of the HTTP embedders, for any calls, batches, permits,      *)
(* attempts and failures.                                                  *)
(***************************************************************************)
EXTENDS Providers, SumsProofs, SequenceTheorems, FiniteSetTheorems

-----------------------------------------------------------------------------
(* How a call's texts fall into batches.                                   *)

(* The configuration of an embedder.                                       *)
LEMMA Configured ==
    /\ BatchSize \in Nat \ {0} /\ MaxConcurrency \in Nat \ {0} /\ Attempts \in Nat \ {0}
BY BatchingAssumption

(* There are as many batches as it takes, and none is empty.               *)
LEMMA BatchSpan ==
    ASSUME NEW c \in Calls
    PROVE  /\ TextCount[c] \in Nat
           /\ (TextCount[c] + BatchSize - 1) \div BatchSize \in Nat
           /\ TextCount[c] = 0 => Batches(c) = {}
           /\ TextCount[c] > 0 =>
                 /\ (TextCount[c] + BatchSize - 1) \div BatchSize > 0
                 /\ TextCount[c] <= ((TextCount[c] + BatchSize - 1) \div BatchSize) * BatchSize
           /\ \A b \in Batches(c) : b \in Nat \ {0} /\ (b - 1) * BatchSize < TextCount[c]
<1> DEFINE N == TextCount[c]
           S == BatchSize
           q == (N + S - 1) \div S
<1>1. N \in Nat /\ S \in Nat \ {0}
  BY BatchingAssumption
<1> HIDE DEF N, S
<1>2. q \in Nat /\ q * S <= N + S - 1 /\ N + S - 1 < q * S + S
  <2> DEFINE M == N + S - 1
  <2>1. M \in Nat
    BY <1>1
  <2> HIDE DEF M
  <2>2. M \div S \in Nat /\ M % S \in 0 .. (S - 1) /\ M = ((M \div S) * S) + (M % S)
    BY <1>1, <2>1
  <2>3. (M \div S) * S <= M /\ M < (M \div S) * S + S
    BY <1>1, <2>1, <2>2
  <2> QED
    BY <2>2, <2>3 DEF M
<1> HIDE DEF q
<1>3. q * S \in Nat
  BY <1>1, <1>2
<1>4. N <= q * S
  BY <1>1, <1>2, <1>3
<1>5. N = 0 => q = 0
  <2> SUFFICES ASSUME N = 0, q > 0 PROVE FALSE
    BY <1>2
  <2>1. q * S >= S
    BY <1>1, <1>2
  <2> QED
    BY <1>1, <1>2, <1>3, <2>1
<1>6. N > 0 => q > 0
  <2> SUFFICES ASSUME N > 0, q = 0 PROVE FALSE
    BY <1>2
  <2>1. q * S = 0
    BY <1>1
  <2> QED
    BY <1>1, <1>4, <2>1
<1>7. ASSUME NEW b \in 1 .. q PROVE b \in Nat \ {0} /\ (b - 1) * S < N
  <2>1. b \in Nat \ {0} /\ b - 1 \in Nat /\ b - 1 <= q - 1
    BY <1>2
  <2>2. (b - 1) * S <= (q - 1) * S
    BY <1>1, <1>2, <2>1
  <2>3. (q - 1) * S = q * S - S
    BY <1>1, <1>2
  <2>4. (b - 1) * S \in Nat
    BY <1>1, <2>1
  <2> QED
    BY <1>1, <1>2, <1>3, <2>1, <2>2, <2>3, <2>4
<1>8. Batches(c) = 1 .. q
  BY DEF Batches, q, N, S
<1>9. N = 0 => Batches(c) = {}
  BY <1>5, <1>8
<1> QED
  BY <1>1, <1>2, <1>4, <1>6, <1>7, <1>8, <1>9 DEF q, N, S

(* A batch is a nonempty sequence of places.                               *)
LEMMA BatchIsSeq ==
    ASSUME NEW c \in Calls, NEW b \in Batches(c)
    PROVE  Batch(c, b) \in Seq(Nat) /\ Len(Batch(c, b)) > 0
<1> DEFINE first == (b - 1) * BatchSize
           rest == TextCount[c] - first
           n == IF rest < BatchSize THEN rest ELSE BatchSize
<1>1. first \in Nat /\ rest \in Nat /\ rest > 0 /\ BatchSize \in Nat \ {0}
  <2>1. b \in Nat \ {0} /\ (b - 1) * BatchSize < TextCount[c] /\ TextCount[c] \in Nat
    BY BatchSpan
  <2>2. BatchSize \in Nat \ {0} /\ b - 1 \in Nat
    BY <2>1, BatchingAssumption
  <2>3. (b - 1) * BatchSize \in Nat
    BY <2>2
  <2> QED
    BY <2>1, <2>2, <2>3
<1>2. n \in Nat /\ n > 0
  BY <1>1
<1>3. Batch(c, b) = [i \in 1 .. n |-> first + i]
  BY DEF Batch
<1> HIDE DEF first, n
<1>4. \A i \in 1 .. n : first + i \in Nat
  BY <1>1
<1>5. Batch(c, b) \in Seq(Nat)
  BY <1>2, <1>3, <1>4, IsASeq
<1>6. Len(Batch(c, b)) = n
  BY <1>2, <1>3, <1>5
<1> QED
  BY <1>2, <1>5, <1>6

(* The places of the first n texts, in order.                              *)
Places(n) == [k \in 1 .. n |-> k]

(* One batch more.                                                         *)
LEMMA OneBatchMore ==
    ASSUME NEW c \in Calls, NEW b \in Batches(c), NEW m \in Nat, m = (b - 1) * BatchSize,
           NEW e \in Nat, e = IF m + BatchSize < TextCount[c] THEN m + BatchSize ELSE TextCount[c]
    PROVE  /\ m < e /\ m < TextCount[c]
           /\ b = 1 => Batch(c, b) = Places(e)
           /\ Places(m) \o Batch(c, b) = Places(e)
<1> DEFINE u == Places(m)
           v == Batch(c, b)
           w == Places(e)
           n == IF TextCount[c] - m < BatchSize THEN TextCount[c] - m ELSE BatchSize
<1> USE DEF Places
<1>1. BatchSize \in Nat \ {0} /\ TextCount[c] \in Nat /\ m < TextCount[c]
  BY BatchSpan, BatchingAssumption
<1>2. m < e /\ e - m \in Nat /\ n = e - m
  BY <1>1
<1>3. v = [i \in 1 .. (e - m) |-> m + i]
  <2>1. v = [i \in 1 .. n |-> m + i]
    BY DEF Batch
  <2> HIDE DEF n, v
  <2> QED
    BY <1>2, <2>1
<1>4. u \in Seq(Nat) /\ Len(u) = m
  <2>1. u \in Seq(Nat)
    BY IsASeq
  <2> QED
    BY <2>1
<1>5. w \in Seq(Nat) /\ Len(w) = e
  <2>1. w \in Seq(Nat)
    BY IsASeq
  <2> QED
    BY <2>1
<1>6. v \in Seq(Nat) /\ Len(v) = e - m
  <2>1. v \in Seq(Nat)
    BY BatchIsSeq
  <2> HIDE DEF v
  <2> QED
    BY <1>2, <1>3, <2>1
<1>7. \A k \in 1 .. m : u[k] = k
  OBVIOUS
<1>8. \A k \in 1 .. (e - m) : v[k] = m + k
  <2> HIDE DEF v
  <2> QED
    BY <1>3
<1>9. \A k \in 1 .. e : w[k] = k
  OBVIOUS
<1>7a. b = 1 => v = w
  <2> SUFFICES ASSUME b = 1 PROVE v = w
    OBVIOUS
  <2>1. m = 0
    BY BatchingAssumption
  <2> HIDE DEF v
  <2>2. v = [k \in 1 .. e |-> k]
    BY <1>2, <1>3, <2>1
  <2> QED
    BY <2>2
<1> HIDE DEF u, v, w, Places
<1>10. u \o v \in Seq(Nat) /\ Len(u \o v) = e
  <2>1. u \o v \in Seq(Nat) /\ Len(u \o v) = Len(u) + Len(v)
    BY <1>4, <1>6, ConcatProperties
  <2>2. m + (e - m) = e
    BY <1>2
  <2> QED
    BY <1>4, <1>6, <2>1, <2>2
<1>11. ASSUME NEW k \in 1 .. e PROVE (u \o v)[k] = w[k]
  <2>1. (u \o v)[k] = IF k <= Len(u) THEN u[k] ELSE v[k - Len(u)]
    <3>1. \A i \in 1 .. Len(u) + Len(v) : (u \o v)[i] = IF i <= Len(u) THEN u[i] ELSE v[i - Len(u)]
      BY <1>4, <1>6, ConcatProperties
    <3>2. k \in 1 .. Len(u) + Len(v)
      BY <1>2, <1>4, <1>6
    <3> QED
      BY <3>1, <3>2
  <2>2. CASE k <= m
    <3>1. k \in 1 .. m
      BY <2>2
    <3> QED
      BY <1>4, <1>7, <1>9, <2>1, <2>2, <3>1
  <2>3. CASE ~ (k <= m)
    <3>1. k - m \in 1 .. (e - m) /\ m + (k - m) = k
      BY <1>2, <2>3
    <3>2. v[k - m] = k
      BY <1>8, <3>1
    <3> QED
      BY <1>4, <1>9, <2>1, <2>3, <3>2
  <2> QED
    BY <2>2, <2>3
<1>12. u \o v = w
  <2>1. \A k \in 1 .. Len(u \o v) : (u \o v)[k] = w[k]
    BY <1>10, <1>11
  <2> DEFINE x == u \o v
  <2>2. x \in Seq(Nat) /\ Len(x) = Len(w) /\ \A k \in 1 .. Len(x) : x[k] = w[k]
    BY <1>5, <1>10, <2>1
  <2> HIDE DEF x
  <2>3. x = w
    BY <1>5, <2>2, SeqEqual
  <2> QED
    BY <2>3 DEF x
<1> QED
  BY <1>1, <1>2, <1>7a, <1>12 DEF u, v, w

(* The batches, one after the other, are the texts of the call: the        *)
(* recursion of FlattenSeq has one solution, which lists the places so far.*)
LEMMA BatchesJoin ==
    ASSUME NEW c \in Calls, NEW s, s = [b \in Batches(c) |-> Batch(c, b)]
    PROVE  FlattenSeq(s) = Places(TextCount[c])
<1> DEFINE N == TextCount[c]
           S == BatchSize
           q == (N + S - 1) \div S
           Cut(i) == IF i * S < N THEN i * S ELSE N
           Upto(i) == Places(Cut(i))
           F == [i \in 1 .. q |-> Upto(i)]
           Body(f) == [i \in 1 .. q |-> IF i = 1 THEN s[i] ELSE f[i - 1] \o s[i]]
<1>1. N \in Nat /\ S \in Nat \ {0} /\ q \in Nat /\ Batches(c) = 1 .. q
  BY BatchSpan, BatchingAssumption DEF Batches
<1>2. s \in Seq(Seq(Nat)) /\ Len(s) = q
  <2> HIDE DEF q
  <2>1. s = [b \in 1 .. q |-> Batch(c, b)]
    BY <1>1
  <2>2. s \in Seq(Seq(Nat))
    BY <1>1, <2>1, BatchIsSeq, IsASeq
  <2> QED
    BY <1>1, <2>1, <2>2
<1>3. (N = 0 => q = 0) /\ (N > 0 => q > 0 /\ N <= q * S)
  <2>1. N = 0 => q = 0
    <3> SUFFICES ASSUME N = 0 PROVE q = 0
      OBVIOUS
    <3>1. 1 .. q = {}
      BY <1>1, BatchSpan
    <3> HIDE DEF q
    <3>2. ~ (1 \in 1 .. q)
      BY <3>1
    <3> QED
      BY <1>1, <3>2
  <2> QED
    BY <2>1, BatchSpan
<1>4. CASE N = 0
  <2>1. FlattenSeq(s) = s
    BY <1>2, <1>3, <1>4 DEF FlattenSeq
  <2>2. s = << >>
    <3> HIDE DEF q
    <3> QED
      BY <1>2, <1>3, <1>4
  <2>3. Places(N) = << >>
    <3> DEFINE x == Places(N)
    <3>1. x \in Seq(Nat)
      BY <1>1, IsASeq DEF Places
    <3>2. Len(x) = 0
      BY <1>4, <3>1 DEF Places
    <3> HIDE DEF x
    <3>3. x = << >>
      BY <3>1, <3>2
    <3> QED
      BY <3>3 DEF x
  <2> QED
    BY <2>1, <2>2, <2>3
<1>5. CASE N > 0
  <2>1. q > 0 /\ N <= q * S
    BY <1>3, <1>5
  <2>2. FlattenSeq(s) = (CHOOSE f : f = Body(f))[q]
    <3> DEFINE R(n) == CHOOSE f : f = [i \in 1 .. n |-> IF i = 1 THEN s[i] ELSE f[i - 1] \o s[i]]
    <3>1. FlattenSeq(s) = IF Len(s) = 0 THEN s ELSE R(Len(s))[Len(s)]
      BY Zenon DEF FlattenSeq
    <3>2. R(q) = CHOOSE f : f = Body(f)
      BY Zenon
    <3> HIDE DEF q, R
    <3>3. Len(s) = q /\ ~ (Len(s) = 0)
      BY <1>1, <1>2, <2>1
    <3>4. FlattenSeq(s) = R(q)[q]
      BY <3>1, <3>3, Zenon
    <3> QED
      BY <3>2, <3>4, Zenon
  <2>3. \A i \in 1 .. q : s[i] = Batch(c, i)
    BY <1>1
  <2> HIDE DEF q
  <2>4. ASSUME NEW i \in 1 .. q
        PROVE  /\ i = 1 => s[i] = Upto(i)
               /\ i > 1 => i - 1 \in 1 .. q /\ Upto(i - 1) \o s[i] = Upto(i)
    <3> DEFINE m == (i - 1) * S
               e == IF m + S < N THEN m + S ELSE N
    <3>1. m \in Nat /\ e \in Nat /\ i \in Batches(c)
      <4>1. i - 1 \in Nat
        BY <1>1
      <4>2. m \in Nat
        BY <1>1, <4>1
      <4> HIDE DEF m
      <4> QED
        BY <1>1, <4>2
    <3>2. m + S = i * S
      BY <1>1
    <3>3. e = Cut(i)
      BY <3>2
    <3>4. /\ m < e /\ m < N /\ (i = 1 => Batch(c, i) = Places(e))
          /\ Places(m) \o Batch(c, i) = Places(e)
      <4>1. m = (i - 1) * BatchSize /\ e = IF m + BatchSize < TextCount[c] THEN m + BatchSize ELSE TextCount[c]
        OBVIOUS
      <4>2. m \in Nat /\ e \in Nat
        BY <3>1
      <4> HIDE DEF m, e, N, q
      <4>3. /\ m < e /\ m < TextCount[c] /\ (i = 1 => Batch(c, i) = Places(e))
            /\ Places(m) \o Batch(c, i) = Places(e)
        BY <3>1, <4>1, <4>2, OneBatchMore
      <4> QED
        BY <4>3 DEF N
    <3>5. m = Cut(i - 1)
      BY <3>1, <3>4
    <3>6. ASSUME i = 1 PROVE s[i] = Upto(i)
      <4> HIDE DEF m, e, Cut
      <4> QED
        BY <2>3, <3>3, <3>4, <3>6
    <3>7. ASSUME i > 1 PROVE i - 1 \in 1 .. q /\ Upto(i - 1) \o s[i] = Upto(i)
      <4>1. i - 1 \in 1 .. q
        BY <1>1, <3>7
      <4> HIDE DEF m, e, Cut
      <4> QED
        BY <2>3, <3>3, <3>4, <3>5, <4>1
    <3> QED
      BY <3>6, <3>7
  <2> HIDE DEF Upto
  <2>5. F = Body(F)
    <3> SUFFICES ASSUME NEW i \in 1 .. q PROVE F[i] = IF i = 1 THEN s[i] ELSE F[i - 1] \o s[i]
      OBVIOUS
    <3>1. CASE i = 1
      BY <2>4, <3>1
    <3>2. CASE i # 1
      <4>1. i > 1
        BY <1>1, <3>2
      <4> QED
        BY <2>4, <3>2, <4>1
    <3> QED
      BY <3>1, <3>2
  <2> DEFINE f == CHOOSE g : g = Body(g)
  <2>6. f = Body(f)
    <3> HIDE DEF F, Body
    <3> QED
      BY <2>5
  <2> HIDE DEF f
  <2> DEFINE G == {i \in 0 .. q : i = 0 \/ f[i] = F[i]}
  <2>7. 0 \in G
    BY <1>1
  <2>8. ASSUME NEW i \in 1 .. q, i - 1 \in G PROVE i \in G
    <3>1. f[i] = IF i = 1 THEN s[i] ELSE f[i - 1] \o s[i]
      BY <2>6
    <3>2. F[i] = IF i = 1 THEN s[i] ELSE F[i - 1] \o s[i]
      BY <2>5
    <3>3. i = 1 \/ f[i - 1] = F[i - 1]
      BY <1>1, <2>8
    <3>4. i \in 0 .. q
      BY <1>1
    <3> HIDE DEF F
    <3> QED
      BY <3>1, <3>2, <3>3, <3>4
  <2>9. 0 .. q \subseteq G
    <3> HIDE DEF G
    <3> QED
      BY <1>1, <2>7, <2>8, SetInduction
  <2>10. f[q] = F[q]
    <3>1. q \in 0 .. q /\ q # 0
      BY <1>1, <2>1
    <3> HIDE DEF F
    <3> QED
      BY <2>9, <3>1
  <2>11. F[q] = Upto(q)
    BY <1>1, <2>1
  <2>12. Upto(q) = Places(N)
    <3>1. Cut(q) = N
      <4>1. q * S \in Nat
        BY <1>1
      <4> QED
        BY <1>1, <2>1, <4>1
    <3> HIDE DEF Cut
    <3> QED
      BY <3>1 DEF Upto
  <2> QED
    BY <2>2, <2>10, <2>11, <2>12 DEF f
<1> QED
  BY <1>1, <1>4, <1>5

-----------------------------------------------------------------------------
(* How the items of an answer are sorted.                                  *)

(* A rising function from 1 .. n to itself is the identity.                *)
LEMMA RisingIsIdentity ==
    ASSUME NEW n \in Nat, NEW q \in [1 .. n -> 1 .. n],
           \A i, j \in 1 .. n : i < j => q[i] < q[j]
    PROVE  \A i \in 1 .. n : q[i] = i
<1> DEFINE G == {i \in 0 .. n : i = 0 \/ i <= q[i]}
           D == {k \in 0 .. n : k = 0 \/ q[n + 1 - k] <= n + 1 - k}
<1>1. 0 .. n \subseteq G
  <2>1. 0 \in G
    OBVIOUS
  <2>2. ASSUME NEW i \in 1 .. n, i - 1 \in G PROVE i \in G
    <3>1. CASE i = 1
      BY <3>1
    <3>2. CASE i # 1
      <4>1. i - 1 \in 1 .. n /\ i - 1 < i
        BY <3>2
      <4>2. i - 1 <= q[i - 1] /\ q[i - 1] < q[i] /\ q[i - 1] \in Nat /\ q[i] \in Nat
        BY <2>2, <4>1
      <4> QED
        BY <4>2
    <3> QED
      BY <3>1, <3>2
  <2> HIDE DEF G
  <2> QED
    BY <2>1, <2>2, SetInduction
<1>2. 0 .. n \subseteq D
  <2>1. 0 \in D
    OBVIOUS
  <2>2. ASSUME NEW k \in 1 .. n, k - 1 \in D PROVE k \in D
    <3> DEFINE i == n + 1 - k
    <3>1. i \in 1 .. n /\ n + 1 - (k - 1) = i + 1
      OBVIOUS
    <3> HIDE DEF i
    <3>2. q[i] <= i
      <4>1. CASE k = 1
        <5>1. i = n
          BY <4>1 DEF i
        <5> QED
          BY <3>1, <5>1
      <4>2. CASE k # 1
        <5>1. i + 1 \in 1 .. n /\ i < i + 1
          BY <3>1, <4>2 DEF i
        <5>2. q[i + 1] <= i + 1
          <6>1. k - 1 # 0 /\ q[n + 1 - (k - 1)] <= n + 1 - (k - 1)
            BY <2>2, <4>2
          <6> QED
            BY <3>1, <6>1
        <5>3. q[i] < q[i + 1] /\ q[i] \in Nat /\ q[i + 1] \in Nat
          BY <3>1, <5>1
        <5> QED
          BY <3>1, <5>2, <5>3
      <4> QED
        BY <4>1, <4>2
    <3> QED
      BY <3>2 DEF i
  <2> HIDE DEF D
  <2> QED
    BY <2>1, <2>2, SetInduction
<1>3. ASSUME NEW i \in 1 .. n PROVE q[i] = i
  <2>1. i \in 0 .. n /\ i # 0 /\ n + 1 - i \in 0 .. n /\ n + 1 - i # 0 /\ n + 1 - (n + 1 - i) = i
    OBVIOUS
  <2>2. i <= q[i]
    BY <1>1, <2>1
  <2>3. q[i] <= i
    <3>1. n + 1 - i \in D
      BY <1>2, <2>1
    <3>2. q[n + 1 - (n + 1 - i)] <= n + 1 - (n + 1 - i)
      BY <2>1, <3>1
    <3> QED
      BY <2>1, <3>2
  <2> QED
    BY <2>2, <2>3
<1> QED
  BY <1>3

(* Sorting by the index gives the vectors of the batch back, in whatever   *)
(* order the items came.                                                   *)
LEMMA ExtractRestores ==
    ASSUME NEW S, NEW v \in Seq(S), NEW order \in Orders(Len(v)),
           NEW items, items = [i \in DOMAIN v |-> [index |-> order[i], vector |-> v[order[i]]]]
    PROVE  Extract(items) = v
<1> DEFINE n == Len(v)
           D == 1 .. n
           Sorts(p) == \A i, j \in D : i < j => items[p[i]].index < items[p[j]].index
           p0 == Sorting(items)
<1>1. n \in Nat /\ DOMAIN v = D /\ v = [i \in D |-> v[i]] /\ \A i \in D : v[i] \in S
  OBVIOUS
<1>2. order \in [D -> D] /\ (\A i, j \in D : order[i] = order[j] => i = j) /\ \A i \in D : \E j \in D : order[j] = i
  BY DEF Orders, Bijection, Injection, Surjection, IsInjective
<1> HIDE DEF n
<1>3. /\ DOMAIN items = D /\ Len(items) = n
      /\ \A i \in D : items[i].index = order[i] /\ items[i].vector = v[order[i]]
  <2>1. items = [i \in D |-> [index |-> order[i], vector |-> v[order[i]]]]
    BY <1>1
  <2>2. \A i \in D : [index |-> order[i], vector |-> v[order[i]]] \in [index : D, vector : S]
    BY <1>1, <1>2
  <2> DEFINE T == [index : D, vector : S]
  <2>3. items \in Seq(T)
    <3>1. items = [i \in 1 .. n |-> items[i]] /\ \A i \in 1 .. n : items[i] \in T
      BY <2>1, <2>2
    <3> HIDE DEF T
    <3>2. [i \in 1 .. n |-> items[i]] \in Seq(T)
      BY ONLY <1>1, <3>1, IsASeq
    <3> QED
      BY <3>1, <3>2, Zenon
  <2> QED
    BY <1>1, <2>1, <2>3
<1>4. \E p \in Orders(n) : Sorts(p)
  <2> DEFINE p == [i \in D |-> CHOOSE j \in D : order[j] = i]
  <2>1. \A i \in D : p[i] \in D /\ order[p[i]] = i
    BY <1>2
  <2>2. p \in [D -> D]
    BY <2>1
  <2> HIDE DEF p
  <2>3. \A i, j \in D : p[i] = p[j] => i = j
    BY <2>1
  <2>4. ASSUME NEW i \in D PROVE \E j \in D : p[j] = i
    <3>1. order[i] \in D
      BY <1>2
    <3>2. p[order[i]] \in D /\ order[p[order[i]]] = order[i]
      BY <2>1, <3>1
    <3>3. p[order[i]] = i
      BY <1>2, <3>2
    <3> QED
      BY <3>1, <3>3
  <2>5. p \in Orders(n)
    BY <2>2, <2>3, <2>4 DEF Orders, Bijection, Injection, Surjection, IsInjective
  <2>6. Sorts(p)
    BY <1>3, <2>1
  <2> HIDE DEF Sorts
  <2> QED
    BY <2>5, <2>6
<1>5. p0 \in Orders(n) /\ Sorts(p0)
  <2> DEFINE P(p) == \A i, j \in DOMAIN items : i < j => items[p[i]].index < items[p[j]].index
  <2>1. ASSUME NEW p PROVE Sorts(p) <=> P(p)
    <3>1. DOMAIN items = D
      BY <1>3
    <3> QED
      BY ONLY <3>1, Zenon
  <2>2. p0 = CHOOSE p \in Orders(Len(items)) : P(p)
    BY Zenon DEF Sorting
  <2> HIDE DEF P, Sorts, p0
  <2>3. \E p \in Orders(Len(items)) : P(p)
    BY <1>3, <1>4, <2>1
  <2>4. p0 \in Orders(Len(items)) /\ P(p0)
    BY <2>2, <2>3, Zenon
  <2> QED
    BY <1>3, <2>1, <2>4
<1>6. Extract(items) = [i \in D |-> items[p0[i]].vector]
  BY <1>3 DEF Extract
<1> HIDE DEF p0
<1>7. p0 \in [D -> D]
  BY <1>5 DEF Orders, Bijection, Injection, Surjection
<1> DEFINE q == [i \in D |-> order[p0[i]]]
<1>8. \A i \in D : q[i] = i
  <2>1. q \in [1 .. n -> 1 .. n]
    BY <1>2, <1>7
  <2>2. \A i, j \in 1 .. n : i < j => q[i] < q[j]
    BY <1>3, <1>5, <1>7
  <2> HIDE DEF q
  <2> QED
    BY <1>1, <2>1, <2>2, RisingIsIdentity
<1>9. \A i \in D : items[p0[i]].vector = v[i]
  <2>1. \A i \in D : p0[i] \in D /\ order[p0[i]] = i
    BY <1>7, <1>8
  <2> QED
    BY <1>3, <2>1
<1> QED
  BY <1>1, <1>6, <1>9

-----------------------------------------------------------------------------
(* The inductive invariant.                                                *)

CallStates == {"idle", "running", "returned", "failed", "stray"}

TaskStates == {"new", "queued", "posted", "prompt", "backoff", "done", "failed", "stray"}

Task == [at : TaskStates, left : 1 .. Attempts, got : Seq(Nat)]

Shape ==
    /\ calls \in [Calls -> CallStates]
    /\ DOMAIN tasks = Calls
    /\ \A c \in Calls :
          /\ DOMAIN tasks[c] = Batches(c)
          /\ \A b \in Batches(c) : tasks[c][b] \in Task
    /\ vectors \in [Calls -> Seq(Nat)]
    /\ faults \in [{"passing", "lasting", "stray"} -> Nat]
    /\ legacy \in BOOLEAN
    /\ misses \in [Calls -> Nat]

(* The batches of a call that stand at one of these places.                *)
Among(T, c, Q) == {b \in Batches(c) : T[c][b].at \in Q}

Holding == Waiting \cup {"backoff"}

(* No more batches hold a permit than there are, and the 404s a call has   *)
(* met leave room for those its posted requests may still meet.            *)
PermitsInv == \A c \in Calls :
    /\ Cardinality(Among(tasks, c, Holding)) <= MaxConcurrency
    /\ ~ legacy => misses[c] = 0
    /\ misses[c] + Cardinality(Among(tasks, c, {"posted"})) <= MaxConcurrency

(* The attempts a batch has used up are failures that were counted.        *)
TriesInv ==
    /\ \A c \in Calls : \A b \in Batches(c) : Attempts - tasks[c][b].left <= faults["passing"]
    /\ FailsForAReason

(* What an attempt has got so far is the beginning of its batch.           *)
GotOK(c, b, t) ==
    /\ t.at = "done" => t.got = Batch(c, b)
    /\ t.at = "posted" => t.got = << >>
    /\ t.at = "prompt" =>
          /\ Len(t.got) < Len(Batch(c, b))
          /\ \A i \in 1 .. Len(t.got) : t.got[i] = Batch(c, b)[i]

GotInv ==
    /\ \A c \in Calls : \A b \in Batches(c) : GotOK(c, b, tasks[c][b])
    /\ InputOrder

(* A call has finitely many batches.                                       *)
LEMMA BatchesFinite ==
    ASSUME NEW T, NEW c \in Calls, NEW Q
    PROVE  IsFiniteSet(Among(T, c, Q)) /\ Cardinality(Among(T, c, Q)) \in Nat
<1>1. IsFiniteSet(Batches(c))
  BY BatchSpan, FS_Interval DEF Batches
<1>2. Among(T, c, Q) \in SUBSET Batches(c)
  BY DEF Among
<1> QED
  BY <1>1, <1>2, FS_Subset, FS_CardinalityType

(* One batch moves, and no other.                                          *)
LEMMA OneMoves ==
    ASSUME Shape, NEW c \in Calls, NEW b \in Batches(c), NEW t, Moved(c, b, t)
    PROVE  /\ DOMAIN tasks' = Calls
           /\ \A d \in Calls :
                 /\ DOMAIN tasks'[d] = Batches(d)
                 /\ \A a \in Batches(d) :
                       tasks'[d][a] = IF d = c /\ a = b THEN t ELSE tasks[d][a]
<1>1. tasks' = [tasks EXCEPT ![c] = [tasks[c] EXCEPT ![b] = t]]
  BY DEF Moved
<1> QED
  BY <1>1 DEF Shape

(* How its move changes the number of batches at some places.              *)
LEMMA CountMoved ==
    ASSUME Shape, NEW c \in Calls, NEW b \in Batches(c), NEW t, Moved(c, b, t),
           NEW d \in Calls, NEW Q,
           NEW m, m = Cardinality(Among(tasks, d, Q)),
           NEW n, n = Cardinality(Among(tasks', d, Q))
    PROVE  /\ m \in Nat /\ n \in Nat
           /\ d # c => n = m
           /\ n <= m + 1
           /\ t.at \notin Q \/ tasks[c][b].at \in Q => n <= m
           /\ d = c /\ tasks[c][b].at \in Q /\ t.at \notin Q => n = m - 1
<1> DEFINE A == Among(tasks, d, Q)
           B == Among(tasks', d, Q)
<1>1. IsFiniteSet(A) /\ IsFiniteSet(B) /\ m \in Nat /\ n \in Nat
  BY BatchesFinite
<1>2. \A a \in Batches(d) : tasks'[d][a] = IF d = c /\ a = b THEN t ELSE tasks[d][a]
  BY OneMoves
<1>3. A = {a \in Batches(d) : tasks[d][a].at \in Q} /\ B = {a \in Batches(d) : tasks'[d][a].at \in Q}
  BY DEF Among
<1>4. d # c => B = A
  BY <1>2, <1>3
<1>5. B \subseteq A \cup {b}
  BY <1>2, <1>3
<1>6. t.at \notin Q \/ tasks[c][b].at \in Q => B \subseteq A
  BY <1>2, <1>3
<1>7. d = c /\ tasks[c][b].at \in Q /\ t.at \notin Q => B = A \ {b} /\ b \in A
  BY <1>2, <1>3
<1> HIDE DEF A, B
<1>8. m = Cardinality(A) /\ n = Cardinality(B)
  BY DEF A, B
<1>9. n <= m + 1
  <2>1. IsFiniteSet(A \cup {b}) /\ Cardinality(A \cup {b}) \in {m, m + 1}
    BY <1>1, <1>8, FS_AddElement
  <2>2. n <= Cardinality(A \cup {b})
    BY <1>5, <1>8, <2>1, FS_Subset
  <2> QED
    BY <1>1, <2>1, <2>2
<1>10. t.at \notin Q \/ tasks[c][b].at \in Q => n <= m
  BY <1>1, <1>6, <1>8, FS_Subset
<1>11. d = c /\ tasks[c][b].at \in Q /\ t.at \notin Q => n = m - 1
  BY <1>1, <1>7, <1>8, FS_RemoveElement
<1> QED
  BY <1>1, <1>4, <1>8, <1>9, <1>10, <1>11

(* What a move keeps.                                                      *)
LEMMA ShapeMoved ==
    ASSUME Shape, NEW c \in Calls, NEW b \in Batches(c), NEW t \in Task, Moved(c, b, t),
           calls' \in [Calls -> CallStates], vectors' \in [Calls -> Seq(Nat)],
           faults' \in [{"passing", "lasting", "stray"} -> Nat], legacy' \in BOOLEAN,
           misses' \in [Calls -> Nat]
    PROVE  Shape'
<1>1. /\ DOMAIN tasks' = Calls
      /\ \A d \in Calls :
            /\ DOMAIN tasks'[d] = Batches(d)
            /\ \A a \in Batches(d) : tasks'[d][a] = IF d = c /\ a = b THEN t ELSE tasks[d][a]
  BY OneMoves
<1>2. \A d \in Calls : \A a \in Batches(d) : tasks'[d][a] \in Task
  BY <1>1 DEF Shape
<1> QED
  BY <1>1, <1>2 DEF Shape

(* A batch that takes a permit finds one free, and is posted only while    *)
(* no 404 is remembered.                                                   *)
LEMMA PermitsMoved ==
    ASSUME Shape, PermitsInv, NEW c \in Calls, NEW b \in Batches(c), NEW t, Moved(c, b, t),
           legacy' = legacy, misses' = misses,
           \/ t.at \notin Holding
           \/ tasks[c][b].at \in Holding
           \/ Cardinality(Among(tasks, c, Holding)) < MaxConcurrency,
           t.at = "posted" => ~ legacy
    PROVE  PermitsInv'
<1> SUFFICES ASSUME NEW d \in Calls
             PROVE  /\ Cardinality(Among(tasks', d, Holding)) <= MaxConcurrency
                    /\ ~ legacy => misses[d] = 0
                    /\ misses[d] + Cardinality(Among(tasks', d, {"posted"})) <= MaxConcurrency
  BY DEF PermitsInv
<1> DEFINE m == Cardinality(Among(tasks, d, Holding))
           n == Cardinality(Among(tasks', d, Holding))
           p == Cardinality(Among(tasks, d, {"posted"}))
           r == Cardinality(Among(tasks', d, {"posted"}))
<1>1. /\ m \in Nat /\ n \in Nat /\ (d # c => n = m) /\ n <= m + 1
      /\ t.at \notin Holding \/ tasks[c][b].at \in Holding => n <= m
  BY CountMoved
<1>2. /\ p \in Nat /\ r \in Nat /\ (d # c => r = p)
      /\ t.at \notin {"posted"} => r <= p
  BY CountMoved
<1>3. m <= MaxConcurrency /\ (~ legacy => misses[d] = 0) /\ misses[d] + p <= MaxConcurrency /\ misses[d] \in Nat
  BY DEF PermitsInv, Shape
<1>4. r <= n
  <2>1. Among(tasks', d, {"posted"}) \in SUBSET Among(tasks', d, Holding)
    BY DEF Among, Holding, Waiting
  <2> QED
    BY <2>1, BatchesFinite, FS_Subset
<1>5. MaxConcurrency \in Nat \ {0}
  BY BatchingAssumption
<1>6. d = c => m = Cardinality(Among(tasks, c, Holding))
  OBVIOUS
<1> HIDE DEF m, n, p, r
<1>7. n <= MaxConcurrency
  BY <1>1, <1>3, <1>5, <1>6
<1>8. misses[d] + r <= MaxConcurrency
  <2>1. CASE t.at = "posted"
    BY <1>1, <1>2, <1>3, <1>4, <1>5, <1>7, <2>1
  <2>2. CASE t.at # "posted"
    BY <1>2, <1>3, <1>5, <2>2
  <2> QED
    BY <2>1, <2>2
<1> QED
  BY <1>3, <1>7, <1>8 DEF n, r

(* A batch that moves by no failure.                                       *)
LEMMA TriesMoved ==
    ASSUME Shape, TriesInv, NEW c \in Calls, NEW b \in Batches(c), NEW t, Moved(c, b, t),
           t.left = tasks[c][b].left, faults' = faults, calls' = calls
    PROVE  TriesInv'
<1>1. \A d \in Calls : \A a \in Batches(d) : tasks'[d][a] = IF d = c /\ a = b THEN t ELSE tasks[d][a]
  BY OneMoves
<1>2. \A d \in Calls : \A a \in Batches(d) : tasks'[d][a].left = tasks[d][a].left
  BY <1>1
<1>3. FailsForAReason'
  BY DEF TriesInv, FailsForAReason
<1> QED
  BY <1>2, <1>3 DEF TriesInv

(* A batch that moves with what it should have got.                        *)
LEMMA GotMoved ==
    ASSUME Shape, GotInv, NEW c \in Calls, NEW b \in Batches(c), NEW t, Moved(c, b, t),
           GotOK(c, b, t), vectors' = vectors,
           \A d \in Calls : calls'[d] = "returned" => calls[d] = "returned"
    PROVE  GotInv'
<1>1. \A d \in Calls : \A a \in Batches(d) : tasks'[d][a] = IF d = c /\ a = b THEN t ELSE tasks[d][a]
  BY OneMoves
<1>2. \A d \in Calls : \A a \in Batches(d) : GotOK(d, a, tasks'[d][a])
  BY <1>1 DEF GotInv
<1>3. InputOrder'
  BY DEF GotInv, InputOrder
<1> QED
  BY <1>2, <1>3 DEF GotInv

IInv == Shape /\ PermitsInv /\ TriesInv /\ GotInv

-----------------------------------------------------------------------------
(* Every step keeps it.                                                    *)

(* Nothing has begun.                                                      *)
LEMMA InitKeeps == Init => IInv
<1> SUFFICES ASSUME Init PROVE IInv
  OBVIOUS
<1>1. /\ \A c \in Calls : DOMAIN tasks[c] = Batches(c)
      /\ \A c \in Calls : \A b \in Batches(c) : tasks[c][b] = [at |-> "new", left |-> Attempts, got |-> << >>]
      /\ DOMAIN tasks = Calls /\ vectors = [c \in Calls |-> << >>] /\ calls = [c \in Calls |-> "idle"]
      /\ faults = [why \in {"passing", "lasting", "stray"} |-> 0]
      /\ legacy = FALSE /\ misses = [c \in Calls |-> 0]
  BY DEF Init, InitBatching
<1>2. [at |-> "new", left |-> Attempts, got |-> << >>] \in Task
  <2>1. Attempts \in 1 .. Attempts
    BY Configured
  <2>2. << >> \in Seq(Nat)
    OBVIOUS
  <2> QED
    BY <2>1, <2>2 DEF Task, TaskStates
<1>3. Shape
  <2>1. calls \in [Calls -> CallStates]
    BY <1>1 DEF CallStates
  <2>2. vectors \in [Calls -> Seq(Nat)]
    <3>1. << >> \in Seq(Nat)
      OBVIOUS
    <3> QED
      BY <1>1, <3>1
  <2>3. faults \in [{"passing", "lasting", "stray"} -> Nat] /\ misses \in [Calls -> Nat]
    BY <1>1
  <2> QED
    BY <1>1, <1>2, <2>1, <2>2, <2>3 DEF Shape
<1>4. PermitsInv
  <2> SUFFICES ASSUME NEW c \in Calls
               PROVE  /\ Cardinality(Among(tasks, c, Holding)) <= MaxConcurrency
                      /\ misses[c] = 0
                      /\ misses[c] + Cardinality(Among(tasks, c, {"posted"})) <= MaxConcurrency
    BY DEF PermitsInv
  <2>1. Among(tasks, c, Holding) = {} /\ Among(tasks, c, {"posted"}) = {}
    BY <1>1 DEF Among, Holding, Waiting
  <2>2. Cardinality(Among(tasks, c, Holding)) = 0 /\ Cardinality(Among(tasks, c, {"posted"})) = 0
    BY <2>1, FS_EmptySet, Zenon
  <2>3. misses[c] = 0
    BY <1>1
  <2> QED
    BY <2>2, <2>3, Configured
<1>5. TriesInv
  <2>1. \A c \in Calls : \A b \in Batches(c) : Attempts - tasks[c][b].left <= faults["passing"]
    <3>1. faults["passing"] = 0
      BY <1>1
    <3> QED
      BY <1>1, <3>1, Configured
  <2> QED
    BY <1>1, <2>1 DEF TriesInv, FailsForAReason
<1>6. GotInv
  BY <1>1 DEF GotInv, GotOK, InputOrder
<1> QED
  BY <1>3, <1>4, <1>5, <1>6 DEF IInv

(* A batch that holds a permit takes none by going on.                     *)
LEMMA PostKeeps ==
    ASSUME IInv, NEW c \in Calls, NEW b \in Batches(c), Post(c, b)
    PROVE  IInv'
<1> DEFINE t == [tasks[c][b] EXCEPT !.at = IF legacy THEN "prompt" ELSE "posted", !.got = << >>]
<1>1. /\ Moved(c, b, t) /\ UNCHANGED <<calls, vectors, faults, provider, legacy, misses>>
      /\ Ready(c, b) /\ Shape /\ tasks[c][b] \in Task
  BY DEF Post, IInv, Shape
<1>2. /\ t \in Task /\ t.left = tasks[c][b].left /\ t.got = << >>
      /\ t.at = IF legacy THEN "prompt" ELSE "posted"
  <2>1. << >> \in Seq(Nat)
    OBVIOUS
  <2> QED
    BY <1>1, <2>1 DEF Task, TaskStates
<1> HIDE DEF t
<1>3. Shape'
  BY <1>1, <1>2, ShapeMoved DEF Shape
<1>4. \/ tasks[c][b].at \in Holding
      \/ Cardinality(Among(tasks, c, Holding)) < MaxConcurrency
  <2>1. Holders(c) = Among(tasks, c, Holding)
    BY DEF Holders, Among, Holding
  <2> QED
    BY <1>1, <2>1 DEF Ready, Admitted, Holding
<1>5. PermitsInv'
  BY <1>1, <1>2, <1>4, PermitsMoved DEF IInv
<1>6. TriesInv'
  BY <1>1, <1>2, TriesMoved DEF IInv
<1>7. GotOK(c, b, t)
  BY <1>2, BatchIsSeq DEF GotOK
<1>8. GotInv'
  BY <1>1, <1>7, GotMoved DEF IInv
<1> QED
  BY <1>3, <1>5, <1>6, <1>8 DEF IInv

(* A batch that got what it asked for is done.                             *)
LEMMA FinishKeeps ==
    ASSUME IInv, NEW c \in Calls, NEW b \in Batches(c), Finished(c, b, Batch(c, b))
    PROVE  IInv'
<1> DEFINE t == [tasks[c][b] EXCEPT !.at = "done", !.got = Batch(c, b)]
<1>1. /\ Moved(c, b, t) /\ UNCHANGED <<calls, vectors, faults, provider, legacy, misses>>
      /\ Shape /\ tasks[c][b] \in Task
  BY DEF Finished, IInv, Shape
<1>2. /\ t \in Task /\ t.left = tasks[c][b].left /\ t.got = Batch(c, b) /\ t.at = "done"
  BY <1>1, BatchIsSeq DEF Task, TaskStates
<1> HIDE DEF t
<1>3. Shape'
  BY <1>1, <1>2, ShapeMoved DEF Shape
<1>4. PermitsInv'
  BY <1>1, <1>2, PermitsMoved DEF IInv, Holding, Waiting
<1>5. TriesInv'
  BY <1>1, <1>2, TriesMoved DEF IInv
<1>6. GotOK(c, b, t)
  BY <1>2 DEF GotOK
<1>7. GotInv'
  BY <1>1, <1>6, GotMoved DEF IInv
<1> QED
  BY <1>3, <1>4, <1>5, <1>7 DEF IInv

(* A 404 takes one request from those that may still meet one.             *)
LEMMA NotFoundKeeps ==
    ASSUME IInv, NEW c \in Calls, NEW b \in Batches(c), NotFound(c, b)
    PROVE  IInv'
<1> DEFINE t == [tasks[c][b] EXCEPT !.at = "prompt"]
<1>1. /\ Moved(c, b, t) /\ UNCHANGED <<calls, vectors, faults, provider>>
      /\ legacy' = TRUE /\ misses' = [misses EXCEPT ![c] = @ + 1]
      /\ Shape /\ tasks[c][b] \in Task /\ tasks[c][b].at = "posted" /\ GotOK(c, b, tasks[c][b])
  BY DEF NotFound, IInv, Shape, GotInv
<1>2. /\ t \in Task /\ t.left = tasks[c][b].left /\ t.got = << >> /\ t.at = "prompt"
  BY <1>1 DEF Task, TaskStates, GotOK
<1> HIDE DEF t
<1>3. Shape'
  <2>1. misses' \in [Calls -> Nat]
    BY <1>1 DEF Shape
  <2>2. /\ calls' \in [Calls -> CallStates] /\ vectors' \in [Calls -> Seq(Nat)]
        /\ faults' \in [{"passing", "lasting", "stray"} -> Nat] /\ legacy' \in BOOLEAN
    BY <1>1 DEF Shape
  <2> QED
    BY <1>1, <1>2, <2>1, <2>2, ShapeMoved
<1>4. PermitsInv'
  <2> SUFFICES ASSUME NEW d \in Calls
               PROVE  /\ Cardinality(Among(tasks', d, Holding)) <= MaxConcurrency
                      /\ misses'[d] + Cardinality(Among(tasks', d, {"posted"})) <= MaxConcurrency
    BY <1>1 DEF PermitsInv
  <2> DEFINE m == Cardinality(Among(tasks, d, Holding))
             n == Cardinality(Among(tasks', d, Holding))
             p == Cardinality(Among(tasks, d, {"posted"}))
             r == Cardinality(Among(tasks', d, {"posted"}))
  <2>1. /\ m \in Nat /\ n \in Nat
        /\ t.at \notin Holding \/ tasks[c][b].at \in Holding => n <= m
    BY <1>1, CountMoved
  <2>2. /\ p \in Nat /\ r \in Nat /\ (d # c => r = p)
        /\ d = c /\ tasks[c][b].at \in {"posted"} /\ t.at \notin {"posted"} => r = p - 1
    BY <1>1, CountMoved
  <2>3. m <= MaxConcurrency /\ misses[d] + p <= MaxConcurrency /\ misses[d] \in Nat
    BY DEF PermitsInv, Shape, IInv
  <2>4. misses'[d] = IF d = c THEN misses[d] + 1 ELSE misses[d]
    BY <1>1 DEF Shape
  <2>5. MaxConcurrency \in Nat
    BY BatchingAssumption
  <2>6. tasks[c][b].at \in Holding
    BY <1>1 DEF Holding, Waiting
  <2> HIDE DEF m, n, p, r
  <2>7. n <= MaxConcurrency
    BY <2>1, <2>3, <2>5, <2>6
  <2>8. misses'[d] + r <= MaxConcurrency
    BY <1>1, <1>2, <2>2, <2>3, <2>4, <2>5
  <2> QED
    BY <2>7, <2>8 DEF n, r
<1>5. TriesInv'
  BY <1>1, <1>2, TriesMoved DEF IInv
<1>6. GotOK(c, b, t)
  BY <1>2, BatchIsSeq DEF GotOK
<1>7. GotInv'
  BY <1>1, <1>6, GotMoved DEF IInv
<1> QED
  BY <1>3, <1>4, <1>5, <1>7 DEF IInv

(* One prompt more is answered.                                            *)
LEMMA PromptKeeps ==
    ASSUME IInv, NEW c \in Calls, NEW b \in Batches(c), PromptAnswered(c, b)
    PROVE  IInv'
<1> DEFINE old == tasks[c][b]
           v == Batch(c, b)
           n == Len(old.got) + 1
           got == Append(old.got, v[n])
           t == [old EXCEPT !.got = got]
<1>1. /\ Shape /\ old \in Task /\ old.at = "prompt" /\ GotOK(c, b, old)
      /\ v \in Seq(Nat) /\ old.got \in Seq(Nat)
  BY BatchIsSeq DEF PromptAnswered, IInv, Shape, GotInv, Task
<1>2. \/ n = Len(v) /\ Finished(c, b, got)
      \/ /\ n # Len(v) /\ Moved(c, b, t)
         /\ UNCHANGED <<calls, vectors, faults, provider, legacy, misses>>
  BY DEF PromptAnswered
<1>3. Len(old.got) < Len(v) /\ \A i \in 1 .. Len(old.got) : old.got[i] = v[i]
  BY <1>1 DEF GotOK
<1>4. /\ n \in 1 .. Len(v) /\ got \in Seq(Nat) /\ Len(got) = n
      /\ \A i \in 1 .. n : got[i] = v[i]
  <2> DEFINE g == old.got
  <2>1. g \in Seq(Nat) /\ v \in Seq(Nat) /\ Len(g) < Len(v) /\ \A i \in 1 .. Len(g) : g[i] = v[i]
    BY <1>1, <1>3
  <2>2. n = Len(g) + 1 /\ got = Append(g, v[n])
    OBVIOUS
  <2> HIDE DEF g, v, n, got
  <2>3. n \in 1 .. Len(v) /\ v[n] \in Nat
    BY <2>1, <2>2
  <2> QED
    BY <2>1, <2>2, <2>3
<1>5. CASE n = Len(v) /\ Finished(c, b, got)
  <2>1. got = v
    <3> HIDE DEF got, v, n
    <3> QED
      BY <1>1, <1>4, <1>5, SeqEqual
  <2>2. Finished(c, b, Batch(c, b))
    BY <1>5, <2>1
  <2> QED
    BY <2>2, FinishKeeps
<1>6. CASE /\ n # Len(v) /\ Moved(c, b, t)
           /\ UNCHANGED <<calls, vectors, faults, provider, legacy, misses>>
  <2>1. t \in Task /\ t.left = old.left /\ t.got = got /\ t.at = "prompt"
    <3>1. got \in Seq(Nat)
      BY <1>4
    <3> HIDE DEF got
    <3> QED
      BY <1>1, <3>1 DEF Task, TaskStates
  <2> HIDE DEF t
  <2>2. Shape'
    BY <1>1, <1>6, <2>1, ShapeMoved DEF Shape
  <2>3. PermitsInv'
    <3>1. tasks[c][b].at \in Holding
      BY <1>1 DEF Holding, Waiting
    <3> QED
      BY <1>6, <2>1, <3>1, PermitsMoved DEF IInv
  <2>4. TriesInv'
    BY <1>6, <2>1, TriesMoved DEF IInv
  <2>5. GotOK(c, b, t)
    <3>1. Len(t.got) = n /\ n < Len(v) /\ \A i \in 1 .. n : t.got[i] = v[i]
      <4> HIDE DEF got, v, n
      <4> QED
        BY <1>1, <1>4, <1>6, <2>1
    <3> HIDE DEF n
    <3> QED
      BY <2>1, <3>1 DEF GotOK
  <2>6. GotInv'
    BY <1>6, <2>5, GotMoved DEF IInv
  <2> QED
    BY <2>2, <2>3, <2>4, <2>6 DEF IInv
<1> QED
  BY <1>2, <1>5, <1>6

(* The items of an answer in any order.                                    *)
LEMMA OpenAIKeeps ==
    ASSUME IInv, NEW c \in Calls, NEW b \in Batches(c), OpenAIAnswers(c, b)
    PROVE  IInv'
<1> DEFINE v == Batch(c, b)
           Items(order) == [i \in DOMAIN v |-> [index |-> order[i], vector |-> v[order[i]]]]
<1>1. PICK order \in Orders(Len(v)) : Finished(c, b, Extract(Items(order)))
  BY DEF OpenAIAnswers
<1>2. v \in Seq(Nat)
  BY BatchIsSeq
<1>3. Extract(Items(order)) = v
  <2> DEFINE items == Items(order)
  <2>1. items = [i \in DOMAIN v |-> [index |-> order[i], vector |-> v[order[i]]]]
    OBVIOUS
  <2> HIDE DEF v, items
  <2>2. Extract(items) = v
    BY <1>1, <1>2, <2>1, ExtractRestores
  <2> QED
    BY <2>2 DEF items
<1> QED
  BY <1>1, <1>3, FinishKeeps

(* A failure that repeats the batch.                                       *)
LEMMA BackoffKeeps ==
    ASSUME IInv, NEW c \in Calls, NEW b \in Batches(c), tasks[c][b].at \in Waiting,
           Counts("passing"), UNCHANGED <<calls, legacy, misses>>, tasks[c][b].left - 1 > 0,
           Moved(c, b, [tasks[c][b] EXCEPT !.at = "backoff", !.left = tasks[c][b].left - 1])
    PROVE  IInv'
<1> DEFINE t == [tasks[c][b] EXCEPT !.at = "backoff", !.left = tasks[c][b].left - 1]
<1>1. /\ Shape /\ tasks[c][b] \in Task /\ Moved(c, b, t) /\ vectors' = vectors
      /\ faults' = [faults EXCEPT !["passing"] = @ + 1]
  BY DEF Counts, IInv, Shape
<1>2. /\ t \in Task /\ t.left = tasks[c][b].left - 1 /\ t.at = "backoff"
  <2>1. tasks[c][b].left \in 1 .. Attempts /\ tasks[c][b].left - 1 \in 1 .. Attempts
    BY <1>1, Configured DEF Task
  <2> QED
    BY <1>1, <2>1 DEF Task, TaskStates
<1> HIDE DEF t
<1>3. /\ faults' \in [{"passing", "lasting", "stray"} -> Nat]
      /\ faults'["passing"] = faults["passing"] + 1 /\ faults'["lasting"] = faults["lasting"]
      /\ faults["passing"] \in Nat
  BY <1>1 DEF Shape
<1>4. Shape'
  BY <1>1, <1>2, <1>3, ShapeMoved DEF Shape
<1>5. PermitsInv'
  <2>1. tasks[c][b].at \in Holding
    BY DEF Holding
  <2> QED
    BY <1>1, <1>2, <2>1, PermitsMoved DEF IInv
<1>6. TriesInv'
  <2>1. ASSUME NEW d \in Calls, NEW a \in Batches(d)
        PROVE  Attempts - tasks'[d][a].left <= faults'["passing"]
    <3>1. tasks'[d][a] = IF d = c /\ a = b THEN t ELSE tasks[d][a]
      BY <1>1, OneMoves
    <3>2. /\ Attempts - tasks[d][a].left <= faults["passing"]
          /\ Attempts - tasks[c][b].left <= faults["passing"]
      BY DEF IInv, TriesInv
    <3>3. tasks[d][a].left \in Nat /\ tasks[c][b].left \in Nat /\ Attempts \in Nat
      BY <1>1, Configured DEF Shape, Task
    <3>4. CASE d = c /\ a = b
      <4>1. tasks'[d][a].left = tasks[c][b].left - 1
        BY <1>2, <3>1, <3>4
      <4> QED
        BY <1>3, <3>2, <3>3, <4>1
    <3>5. CASE ~ (d = c /\ a = b)
      BY <1>3, <3>1, <3>2, <3>3, <3>5
    <3> QED
      BY <3>4, <3>5
  <2>2. FailsForAReason'
    BY <1>3, Configured DEF IInv, TriesInv, FailsForAReason
  <2> QED
    BY <2>1, <2>2 DEF TriesInv
<1>7. GotInv'
  BY <1>1, <1>2, GotMoved DEF IInv, GotOK
<1> QED
  BY <1>4, <1>5, <1>6, <1>7 DEF IInv

(* A failure that ends the batch, and its call if it is the first.         *)
LEMMA ThrowKeeps ==
    ASSUME IInv, NEW c \in Calls, NEW b \in Batches(c), tasks[c][b].at \in Waiting,
           NEW why \in {"passing", "lasting", "stray"}, NEW how \in {"failed", "stray"},
           Counts(why), Throws(c, b, how), UNCHANGED <<legacy, misses>>,
           how = "failed" => why = "lasting" \/ (why = "passing" /\ tasks[c][b].left = 1)
    PROVE  IInv'
<1> DEFINE t == [tasks[c][b] EXCEPT !.at = how]
<1>1. /\ Shape /\ tasks[c][b] \in Task /\ Moved(c, b, t) /\ vectors' = vectors
      /\ faults' = [faults EXCEPT ![why] = @ + 1]
      /\ calls' = [calls EXCEPT ![c] = IF @ = "running" THEN how ELSE @]
  BY DEF Counts, Throws, IInv, Shape
<1>2. /\ t \in Task /\ t.left = tasks[c][b].left /\ t.at = how
  BY <1>1 DEF Task, TaskStates
<1> HIDE DEF t
<1>3. /\ faults' \in [{"passing", "lasting", "stray"} -> Nat]
      /\ faults'["passing"] = IF why = "passing" THEN faults["passing"] + 1 ELSE faults["passing"]
      /\ faults'["lasting"] = IF why = "lasting" THEN faults["lasting"] + 1 ELSE faults["lasting"]
      /\ faults["passing"] \in Nat /\ faults["lasting"] \in Nat
  BY <1>1 DEF Shape
<1>4. Shape'
  <2>1. calls' \in [Calls -> CallStates]
    BY <1>1 DEF Shape, CallStates
  <2>2. vectors' \in [Calls -> Seq(Nat)] /\ legacy' \in BOOLEAN /\ misses' \in [Calls -> Nat]
    BY <1>1 DEF Shape
  <2> QED
    BY <1>1, <1>2, <1>3, <2>1, <2>2, ShapeMoved
<1>5. PermitsInv'
  <2>1. t.at \notin Holding /\ t.at # "posted"
    BY <1>2 DEF Holding, Waiting
  <2> QED
    BY <1>1, <2>1, PermitsMoved DEF IInv
<1>6. TriesInv'
  <2>1. ASSUME NEW d \in Calls, NEW a \in Batches(d)
        PROVE  Attempts - tasks'[d][a].left <= faults'["passing"]
    <3>1. tasks'[d][a].left = tasks[d][a].left
      BY <1>1, <1>2, OneMoves
    <3>2. Attempts - tasks[d][a].left <= faults["passing"]
      BY DEF IInv, TriesInv
    <3>3. tasks[d][a].left \in Nat /\ Attempts \in Nat
      BY <1>1, Configured DEF Shape, Task
    <3> QED
      BY <1>3, <3>1, <3>2, <3>3
  <2>2. FailsForAReason'
    <3>1. how = "failed" => faults'["lasting"] > 0 \/ faults'["passing"] >= Attempts
      <4>1. Attempts - tasks[c][b].left <= faults["passing"] /\ Attempts \in Nat
        BY Configured DEF IInv, TriesInv
      <4>2. CASE how = "failed" /\ why = "lasting"
        BY <1>3, <4>2
      <4>3. CASE why = "passing" /\ tasks[c][b].left = 1
        BY <1>3, <4>1, <4>3
      <4> QED
        BY <4>2, <4>3
    <3>2. (\E d \in Calls : calls[d] = "failed") =>
              faults'["lasting"] > 0 \/ faults'["passing"] >= Attempts
      BY <1>3, Configured DEF IInv, TriesInv, FailsForAReason
    <3>3. (\E d \in Calls : calls'[d] = "failed") =>
              how = "failed" \/ \E d \in Calls : calls[d] = "failed"
      BY <1>1 DEF Shape
    <3> QED
      BY <3>1, <3>2, <3>3 DEF FailsForAReason
  <2> QED
    BY <2>1, <2>2 DEF TriesInv
<1>7. GotInv'
  <2>1. \A d \in Calls : calls'[d] = "returned" => calls[d] = "returned"
    BY <1>1 DEF Shape
  <2>2. GotOK(c, b, t)
    BY <1>2 DEF GotOK
  <2> QED
    BY <1>1, <2>1, <2>2, GotMoved DEF IInv
<1> QED
  BY <1>4, <1>5, <1>6, <1>7 DEF IInv

(* A call that starts queues its batches.                                  *)
LEMMA StartKeeps ==
    ASSUME IInv, NEW c \in Calls, Start(c), UNCHANGED <<provider, legacy, misses>>
    PROVE  IInv'
<1>1. /\ Shape /\ calls' = [calls EXCEPT ![c] = "running"] /\ UNCHANGED <<vectors, faults, legacy, misses>>
      /\ tasks' = [tasks EXCEPT ![c] = [b \in Batches(c) |-> [tasks[c][b] EXCEPT !.at = "queued"]]]
  BY DEF Start, IInv
<1>2. /\ DOMAIN tasks' = Calls
      /\ \A d \in Calls :
            /\ DOMAIN tasks'[d] = Batches(d)
            /\ \A a \in Batches(d) :
                  tasks'[d][a] = IF d = c THEN [tasks[d][a] EXCEPT !.at = "queued"] ELSE tasks[d][a]
  BY <1>1 DEF Shape
<1>3. \A d \in Calls : \A a \in Batches(d) :
          /\ tasks[d][a] \in Task /\ tasks'[d][a] \in Task /\ tasks'[d][a].left = tasks[d][a].left
          /\ d = c => tasks'[d][a].at = "queued"
          /\ d # c => tasks'[d][a] = tasks[d][a]
  <2> SUFFICES ASSUME NEW d \in Calls, NEW a \in Batches(d)
               PROVE  /\ tasks[d][a] \in Task /\ tasks'[d][a] \in Task
                      /\ tasks'[d][a].left = tasks[d][a].left
                      /\ d = c => tasks'[d][a].at = "queued"
                      /\ d # c => tasks'[d][a] = tasks[d][a]
    OBVIOUS
  <2>1. tasks[d][a] \in Task
    BY <1>1 DEF Shape
  <2>2. CASE d = c
    <3>1. tasks'[d][a] = [tasks[d][a] EXCEPT !.at = "queued"]
      BY <1>2, <2>2
    <3> QED
      BY <2>1, <2>2, <3>1 DEF Task, TaskStates
  <2>3. CASE d # c
    BY <1>2, <2>1, <2>3
  <2> QED
    BY <2>2, <2>3
<1>4. Shape'
  <2>1. calls' \in [Calls -> CallStates]
    BY <1>1 DEF Shape, CallStates
  <2> QED
    BY <1>1, <1>2, <1>3, <2>1 DEF Shape
<1>5. PermitsInv'
  <2> SUFFICES ASSUME NEW d \in Calls
               PROVE  /\ Cardinality(Among(tasks', d, Holding)) <= MaxConcurrency
                      /\ ~ legacy => misses[d] = 0
                      /\ misses[d] + Cardinality(Among(tasks', d, {"posted"})) <= MaxConcurrency
    <3>1. legacy' = legacy /\ misses' = misses
      BY <1>1
    <3> QED
      BY <3>1 DEF PermitsInv
  <2>1. /\ Cardinality(Among(tasks, d, Holding)) <= MaxConcurrency
        /\ ~ legacy => misses[d] = 0
        /\ misses[d] + Cardinality(Among(tasks, d, {"posted"})) <= MaxConcurrency
        /\ misses[d] \in Nat /\ Cardinality(Among(tasks, d, {"posted"})) \in Nat
    BY BatchesFinite DEF IInv, PermitsInv, Shape
  <2>2. CASE d = c
    <3>1. Among(tasks', d, Holding) = {} /\ Among(tasks', d, {"posted"}) = {}
      BY <1>3, <2>2 DEF Among, Holding, Waiting
    <3>2. Cardinality(Among(tasks', d, Holding)) = 0 /\ Cardinality(Among(tasks', d, {"posted"})) = 0
      BY <3>1, FS_EmptySet, Zenon
    <3> QED
      BY <2>1, <3>2, Configured
  <2>3. CASE d # c
    <3>1. \A Q : Among(tasks', d, Q) = Among(tasks, d, Q)
      BY <1>3, <2>3 DEF Among
    <3> QED
      BY <2>1, <3>1
  <2> QED
    BY <2>2, <2>3
<1>6. TriesInv'
  <2>1. \A d \in Calls : calls'[d] = "failed" => calls[d] = "failed"
    BY <1>1 DEF Shape
  <2>2. FailsForAReason'
    BY <1>1, <2>1 DEF IInv, TriesInv, FailsForAReason
  <2> QED
    BY <1>1, <1>3, <2>2 DEF IInv, TriesInv
<1>7. GotInv'
  <2>1. \A d \in Calls : calls'[d] = "returned" => calls[d] = "returned"
    BY <1>1 DEF Shape
  <2>2. InputOrder'
    BY <1>1, <2>1 DEF IInv, GotInv, InputOrder
  <2>3. \A d \in Calls : \A a \in Batches(d) : GotOK(d, a, tasks'[d][a])
    BY <1>3 DEF IInv, GotInv, GotOK
  <2> QED
    BY <2>2, <2>3 DEF GotInv
<1> QED
  BY <1>4, <1>5, <1>6, <1>7 DEF IInv

(* A call that returns joins what its batches got.                         *)
LEMMA ReturnKeeps ==
    ASSUME IInv, NEW c \in Calls, Return(c), UNCHANGED <<provider, legacy, misses>>
    PROVE  IInv'
<1>1. /\ Shape /\ calls' = [calls EXCEPT ![c] = "returned"] /\ UNCHANGED <<tasks, faults, legacy, misses>>
      /\ vectors' = [vectors EXCEPT ![c] = InOrder(c)]
      /\ \A b \in Batches(c) : tasks[c][b].at = "done"
  BY DEF Return, IInv
<1>2. InOrder(c) = Places(TextCount[c])
  <2> DEFINE s == [b \in Batches(c) |-> Batch(c, b)]
  <2>1. \A b \in Batches(c) : tasks[c][b].got = Batch(c, b)
    BY <1>1 DEF IInv, GotInv, GotOK
  <2>2. [b \in Batches(c) |-> tasks[c][b].got] = s
    BY <2>1
  <2>3. InOrder(c) = FlattenSeq(s)
    BY <2>2 DEF InOrder
  <2> HIDE DEF s
  <2>4. FlattenSeq(s) = Places(TextCount[c])
    BY BatchesJoin DEF s
  <2> QED
    BY <2>3, <2>4
<1>3. Shape'
  <2>1. Places(TextCount[c]) \in Seq(Nat)
    BY BatchSpan, IsASeq DEF Places
  <2>2. vectors' \in [Calls -> Seq(Nat)]
    BY <1>1, <1>2, <2>1 DEF Shape
  <2>3. calls' \in [Calls -> CallStates]
    BY <1>1 DEF Shape, CallStates
  <2> QED
    BY <1>1, <2>2, <2>3 DEF Shape
<1>4. PermitsInv'
  <2>1. tasks' = tasks /\ legacy' = legacy /\ misses' = misses
    BY <1>1
  <2>2. PermitsInv
    BY DEF IInv
  <2> QED
    BY <2>1, <2>2 DEF PermitsInv
<1>5. TriesInv'
  <2>1. \A d \in Calls : calls'[d] = "failed" => calls[d] = "failed"
    BY <1>1 DEF Shape
  <2>2. FailsForAReason'
    BY <1>1, <2>1 DEF IInv, TriesInv, FailsForAReason
  <2> QED
    BY <1>1, <2>2 DEF IInv, TriesInv
<1>6. GotInv'
  <2>1. ASSUME NEW d \in Calls, calls'[d] = "returned" PROVE vectors'[d] = Places(TextCount[d])
    <3>1. CASE d = c
      BY <1>1, <1>2, <3>1 DEF Shape
    <3>2. CASE d # c
      <4>1. calls[d] = "returned" /\ vectors'[d] = vectors[d]
        BY <1>1, <2>1, <3>2 DEF Shape
      <4>2. vectors[d] = [i \in 1 .. TextCount[d] |-> i]
        BY <4>1 DEF IInv, GotInv, InputOrder
      <4> QED
        BY <4>1, <4>2 DEF Places
    <3> QED
      BY <3>1, <3>2
  <2>2. InputOrder'
    BY <2>1 DEF InputOrder, Places
  <2> QED
    BY <1>1, <2>2 DEF IInv, GotInv
<1> QED
  BY <1>3, <1>4, <1>5, <1>6 DEF IInv

-----------------------------------------------------------------------------
(* What the batches of any calls keep, in any interleaving.                *)
THEOREM Invariance == Spec => []IInv
<1>1. Init => IInv
  BY InitKeeps
<1>2. ASSUME IInv, Next PROVE IInv'
  <2>1. PICK c \in Calls : CallStep(c) \/ \E b \in Batches(c) : TaskStep(c, b)
    BY <1>2 DEF Next
  <2>2. CASE CallStep(c)
    BY <1>2, <2>2, StartKeeps, ReturnKeeps DEF CallStep
  <2>3. ASSUME NEW b \in Batches(c), TaskStep(c, b) PROVE IInv'
    <3>1. CASE Post(c, b)
      BY <1>2, <3>1, PostKeeps
    <3>2. CASE OllamaAnswers(c, b)
      BY <1>2, <3>2, FinishKeeps DEF OllamaAnswers
    <3>3. CASE NotFound(c, b)
      BY <1>2, <3>3, NotFoundKeeps
    <3>4. CASE PromptAnswered(c, b)
      BY <1>2, <3>4, PromptKeeps
    <3>5. CASE OpenAIAnswers(c, b)
      BY <1>2, <3>5, OpenAIKeeps
    <3>6. CASE Refused(c, b)
      <4>1. UNCHANGED <<legacy, misses>>
        BY <3>6 DEF Refused
      <4>2. CASE FailsInPassing(c, b)
        <5>1. tasks[c][b].at \in Waiting /\ Counts("passing")
          BY <4>2 DEF FailsInPassing
        <5>2. CASE tasks[c][b].left - 1 = 0 /\ Throws(c, b, "failed")
          <6>1. tasks[c][b].left = 1
            BY <1>2, <5>2 DEF IInv, Shape, Task
          <6> QED
            BY <1>2, <4>1, <5>1, <5>2, <6>1, ThrowKeeps
        <5>3. CASE /\ tasks[c][b].left - 1 > 0 /\ UNCHANGED calls
                   /\ Moved(c, b, [tasks[c][b] EXCEPT !.at = "backoff", !.left = tasks[c][b].left - 1])
          BY <1>2, <4>1, <5>1, <5>3, BackoffKeeps
        <5> QED
          BY <4>2, <5>2, <5>3 DEF FailsInPassing
      <4>3. CASE FailsForGood(c, b)
        BY <1>2, <4>1, <4>3, ThrowKeeps DEF FailsForGood
      <4>4. CASE Undecodable(c, b)
        BY <1>2, <4>1, <4>4, ThrowKeeps DEF Undecodable
      <4> QED
        BY <3>6, <4>2, <4>3, <4>4 DEF Refused
    <3> QED
      BY <2>3, <3>1, <3>2, <3>3, <3>4, <3>5, <3>6 DEF TaskStep
  <2> QED
    BY <2>1, <2>2, <2>3
<1>3. ASSUME IInv, UNCHANGED vars PROVE IInv'
  BY <1>3 DEF IInv, vars, batching, Shape, PermitsInv, TriesInv, GotInv, Among, FailsForAReason, InputOrder
<1>4. IInv /\ [Next]_vars => IInv'
  BY <1>2, <1>3
<1> QED
  BY <1>1, <1>4, PTL DEF Spec

(* A call returns its vectors in the order of its texts, whatever the      *)
(* order of batches and items, the endpoint and the attempt.               *)
THEOREM VectorsInOrder == Spec => []InputOrder
<1>1. IInv => InputOrder
  BY DEF IInv, GotInv
<1> QED
  BY <1>1, Invariance, PTL

(* A call fails only for a lasting failure, or for as many passing ones as *)
(* a batch has attempts.                                                   *)
THEOREM FailureHasAReason == Spec => []FailsForAReason
<1>1. IInv => FailsForAReason
  BY DEF IInv, TriesInv
<1> QED
  BY <1>1, Invariance, PTL

(* A call meets no more 404s than it may have requests under way.          *)
THEOREM DowngradeRemembered == Spec => []FewMisses
<1>1. IInv => FewMisses
  <2> SUFFICES ASSUME IInv, NEW c \in Calls PROVE misses[c] <= MaxConcurrency
    BY DEF FewMisses
  <2>1. /\ misses[c] + Cardinality(Among(tasks, c, {"posted"})) <= MaxConcurrency
        /\ misses[c] \in Nat /\ Cardinality(Among(tasks, c, {"posted"})) \in Nat
    BY BatchesFinite DEF IInv, PermitsInv, Shape
  <2> QED
    BY <2>1, Configured
<1> QED
  BY <1>1, Invariance, PTL
=============================================================================
