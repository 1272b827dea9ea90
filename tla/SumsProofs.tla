----------------------------- MODULE SumsProofs -----------------------------
(***************************************************************************)
(* What the proofs need of finite sums and of least elements.  Induction   *)
(* is done on sets of naturals: a set that holds 0 and the successor of    *)
(* each of its members holds every natural, because a least missing one    *)
(* would have a predecessor.                                               *)
(***************************************************************************)
EXTENDS Sums, Sorting, Sequences, FiniteSetsExt, WellFoundedInduction, FiniteSetTheorems, FunctionTheorems,
    TLAPS

LessOnNat == {p \in Nat \X Nat : p[1] < p[2]}

(* The order of the naturals is well founded.                              *)
LEMMA LessOnNatWellFounded == IsWellFoundedOn(LessOnNat, Nat)
<1>1. IsWellFoundedOn(OpToRel(<, Nat), Nat)
  BY NatLessThanWellFounded, Zenon
<1>2. OpToRel(<, Nat) = LessOnNat
  BY Zenon DEF OpToRel, LessOnNat
<1> QED
  BY <1>1, <1>2, Zenon

(* A nonempty set of naturals has a least element.                         *)
LEMMA LeastNatural ==
    ASSUME NEW T, T \subseteq Nat, T # {}
    PROVE  \E x \in T : \A y \in T : x <= y
<1>1. \E x \in T : \A y \in T : ~ (<<y, x>> \in LessOnNat)
  BY LessOnNatWellFounded, WFMin
<1>2. PICK x \in T : \A y \in T : ~ (<<y, x>> \in LessOnNat)
  BY <1>1
<1>3. ASSUME NEW y \in T PROVE x <= y
  <2>1. x \in Nat /\ y \in Nat
    OBVIOUS
  <2>2. y < x => <<y, x>> \in LessOnNat
    BY <2>1 DEF LessOnNat
  <2>3. ~ (y < x)
    BY <1>2, <2>2, Zenon
  <2> QED
    BY <2>1, <2>3
<1> QED
  BY <1>3

(* Min picks it.                                                           *)
LEMMA MinIsLeast ==
    ASSUME NEW T, T \subseteq Nat, T # {}
    PROVE  Min(T) \in T /\ \A y \in T : Min(T) <= y
BY LeastNatural DEF Min

(* Induction up to n, over a set of naturals.                              *)
LEMMA SetInduction ==
    ASSUME NEW n \in Nat, NEW G, 0 \in G, \A i \in 1 .. n : i - 1 \in G => i \in G
    PROVE  0 .. n \subseteq G
<1> SUFFICES ASSUME (0 .. n) \ G # {} PROVE FALSE
  OBVIOUS
<1>1. PICK x \in (0 .. n) \ G : \A y \in (0 .. n) \ G : x <= y
  <2> DEFINE T == (0 .. n) \ G
  <2>1. T \subseteq Nat /\ T # {}
    OBVIOUS
  <2> HIDE DEF T
  <2>2. \E x \in T : \A y \in T : x <= y
    BY <2>1, LeastNatural
  <2> QED
    BY <2>2 DEF T
<1>2. x \in 1 .. n /\ x - 1 \in 0 .. n /\ ~ (x <= x - 1)
  BY <1>1
<1>3. x - 1 \in G
  BY <1>1, <1>2
<1> QED
  BY <1>1, <1>2, <1>3

(* The partial sums of w.                                                  *)
PartialSums(s, w, n) ==
    /\ s \in [0 .. n -> Int]
    /\ s[0] = 0
    /\ \A i \in 1 .. n : s[i] = s[i - 1] + w[i]

(* The recursion of SumTo has a solution, so SumTo is the last partial     *)
(* sum.                                                                    *)
LEMMA SumToDef ==
    ASSUME NEW n \in Nat, NEW w \in [1 .. n -> Int]
    PROVE  \E s : PartialSums(s, w, n) /\ SumTo(w, n) = s[n]
<1> DEFINE G == {k \in 0 .. n : \E s : PartialSums(s, w, k)}
           Body(s) == [i \in 0 .. n |-> IF i = 0 THEN 0 ELSE s[i - 1] + w[i]]
<1>1. 0 \in G
  <2>1. PartialSums([i \in 0 .. 0 |-> 0], w, 0)
    BY DEF PartialSums
  <2> QED
    BY <2>1
<1>2. ASSUME NEW k \in 1 .. n, k - 1 \in G PROVE k \in G
  <2>1. PICK s : PartialSums(s, w, k - 1)
    BY <1>2
  <2> DEFINE t == [i \in 0 .. k |-> IF i = k THEN s[k - 1] + w[k] ELSE s[i]]
  <2>2. PartialSums(t, w, k)
    BY <2>1 DEF PartialSums
  <2> QED
    BY <2>2
<1>3. n \in G
  <2>1. 0 .. n \subseteq G
    <3> HIDE DEF G
    <3> QED
      BY <1>1, <1>2, SetInduction
  <2> QED
    BY <2>1
<1>4. PICK r : PartialSums(r, w, n)
  BY <1>3
<1>5. r = Body(r)
  BY <1>4 DEF PartialSums
<1>6. \A s : s = Body(s) => PartialSums(s, w, n)
  <2> SUFFICES ASSUME NEW s, s = Body(s) PROVE PartialSums(s, w, n)
    OBVIOUS
  <2> DEFINE H == {i \in 0 .. n : s[i] \in Int}
  <2>1. 0 \in H
    OBVIOUS
  <2>2. \A i \in 1 .. n : s[i] = s[i - 1] + w[i]
    OBVIOUS
  <2>3. ASSUME NEW i \in 1 .. n, i - 1 \in H PROVE i \in H
    BY <2>2, <2>3
  <2>4. 0 .. n \subseteq H
    <3> HIDE DEF H
    <3> QED
      BY <2>1, <2>3, SetInduction
  <2>5. s \in [0 .. n -> Int]
    BY <2>4
  <2> QED
    BY <2>2, <2>5 DEF PartialSums
<1> DEFINE S == CHOOSE s : s = Body(s)
<1>7. S = Body(S)
  BY <1>5
<1>8. SumTo(w, n) = S[n]
  BY DEF SumTo
<1> QED
  BY <1>6, <1>7, <1>8

(* Partial sums add up.                                                    *)
LEMMA SumAdds ==
    ASSUME NEW n \in Nat,
           NEW u \in [1 .. n -> Int], NEW v \in [1 .. n -> Int], NEW w \in [1 .. n -> Int],
           \A i \in 1 .. n : w[i] = u[i] + v[i]
    PROVE  SumTo(w, n) = SumTo(u, n) + SumTo(v, n)
<1>1. PICK r : PartialSums(r, u, n) /\ SumTo(u, n) = r[n]
  BY SumToDef
<1>2. PICK s : PartialSums(s, v, n) /\ SumTo(v, n) = s[n]
  BY SumToDef
<1>3. PICK t : PartialSums(t, w, n) /\ SumTo(w, n) = t[n]
  BY SumToDef
<1> DEFINE G == {i \in 0 .. n : t[i] = r[i] + s[i]}
<1>4. 0 \in G
  BY <1>1, <1>2, <1>3 DEF PartialSums
<1>5. ASSUME NEW i \in 1 .. n, i - 1 \in G PROVE i \in G
  BY <1>1, <1>2, <1>3, <1>5 DEF PartialSums
<1>6. n \in G
  <2>1. 0 .. n \subseteq G
    <3> HIDE DEF G
    <3> QED
      BY <1>4, <1>5, SetInduction
  <2> QED
    BY <2>1
<1> QED
  BY <1>1, <1>2, <1>3, <1>6

(* The sum of a function that is zero everywhere but at k.                 *)
LEMMA SumSingle ==
    ASSUME NEW n \in Nat, NEW k \in 1 .. n, NEW x \in Int
    PROVE  SumTo([i \in 1 .. n |-> IF i = k THEN x ELSE 0], n) = x
<1> DEFINE w == [i \in 1 .. n |-> IF i = k THEN x ELSE 0]
<1>1. PICK s : PartialSums(s, w, n) /\ SumTo(w, n) = s[n]
  <2>1. w \in [1 .. n -> Int]
    OBVIOUS
  <2> HIDE DEF w
  <2> QED
    BY <2>1, SumToDef
<1> DEFINE G == {i \in 0 .. n : s[i] = IF i < k THEN 0 ELSE x}
<1>2. 0 \in G
  BY <1>1 DEF PartialSums
<1>3. ASSUME NEW i \in 1 .. n, i - 1 \in G PROVE i \in G
  <2>1. s[i] = s[i - 1] + (IF i = k THEN x ELSE 0)
    BY <1>1 DEF PartialSums
  <2>2. s[i - 1] = IF i - 1 < k THEN 0 ELSE x
    BY <1>3
  <2>3. s[i] = IF i < k THEN 0 ELSE x
    <3>1. CASE i < k
      BY <2>1, <2>2, <3>1
    <3>2. CASE i = k
      BY <2>1, <2>2, <3>2
    <3>3. CASE i > k
      BY <2>1, <2>2, <3>3
    <3> QED
      BY <3>1, <3>2, <3>3
  <2> QED
    BY <2>3
<1>4. n \in G
  <2>1. 0 .. n \subseteq G
    <3> HIDE DEF G
    <3> QED
      BY <1>2, <1>3, SetInduction
  <2> QED
    BY <2>1
<1> QED
  BY <1>1, <1>4

(* A sum of integers is an integer.                                        *)
LEMMA SumToInt ==
    ASSUME NEW n \in Nat, NEW w \in [1 .. n -> Int]
    PROVE  SumTo(w, n) \in Int
BY SumToDef DEF PartialSums

(* The sum of a function that is zero everywhere.                          *)
LEMMA SumOfZeros ==
    ASSUME NEW n \in Nat, NEW w \in [1 .. n -> Int], \A i \in 1 .. n : w[i] = 0
    PROVE  SumTo(w, n) = 0
<1>1. SumTo(w, n) = SumTo(w, n) + SumTo(w, n)
  BY SumAdds
<1>2. SumTo(w, n) \in Int
  BY SumToInt
<1> QED
  BY <1>1, <1>2

(* Changing one term changes the sum by as much.                           *)
LEMMA SumPlusOne ==
    ASSUME NEW n \in Nat, NEW k \in 1 .. n, NEW x \in Int,
           NEW u \in [1 .. n -> Int], NEW w \in [1 .. n -> Int],
           w[k] = u[k] + x, \A i \in 1 .. n : i # k => w[i] = u[i]
    PROVE  SumTo(w, n) = SumTo(u, n) + x
<1> DEFINE one == [i \in 1 .. n |-> IF i = k THEN x ELSE 0]
<1>1. one \in [1 .. n -> Int] /\ \A i \in 1 .. n : w[i] = u[i] + one[i]
  OBVIOUS
<1>2. SumTo(one, n) = x
  BY SumSingle
<1> HIDE DEF one
<1> QED
  BY <1>1, <1>2, SumAdds

-----------------------------------------------------------------------------
(* What the proofs need of sorting.  An order is a set of pairs here.      *)

Ranks(R, S) ==
    /\ \A x, y \in S : x # y => <<x, y>> \in R \/ <<y, x>> \in R
    /\ \A x, y, z \in S : <<x, y>> \in R /\ <<y, z>> \in R => <<x, z>> \in R

Lines(f, R, n) == \A i, j \in 1 .. n : i < j => <<f[i], f[j]>> \in R

(* A member finds its place in a line of others.                           *)
LEMMA LineUp ==
    ASSUME NEW R, NEW S, Ranks(R, S), NEW n \in Nat \ {0}, NEW x \in S,
           NEW g \in [1 .. (n - 1) -> S \ {x}], Lines(g, R, n - 1)
    PROVE  \E f \in [1 .. n -> S] : Lines(f, R, n)
<1> DEFINE T == {i \in 1 .. n : i = n \/ <<x, g[i]>> \in R}
<1>1. T \subseteq Nat /\ T # {}
  <2>1. n \in T
    OBVIOUS
  <2> QED
    BY <2>1
<1>2. PICK p \in T : \A i \in T : p <= i
  <2> HIDE DEF T
  <2> QED
    BY <1>1, LeastNatural
<1>3. p \in 1 .. n /\ (p # n => <<x, g[p]>> \in R)
  BY <1>2
<1>4. ASSUME NEW i \in 1 .. n, i < p
      PROVE  i \in 1 .. (n - 1) /\ g[i] \in S /\ <<g[i], x>> \in R
  <2>1. i \in 1 .. (n - 1) /\ ~ (p <= i)
    BY <1>3, <1>4
  <2>2. g[i] \in S /\ g[i] # x
    BY <2>1
  <2>3. <<x, g[i]>> \notin R
    BY <1>2, <1>4, <2>1
  <2> QED
    BY <2>1, <2>2, <2>3 DEF Ranks
<1>5. ASSUME NEW i \in 1 .. n, p < i
      PROVE  i - 1 \in 1 .. (n - 1) /\ g[i - 1] \in S /\ <<x, g[i - 1]>> \in R
  <2>1. i - 1 \in 1 .. (n - 1) /\ p \in 1 .. (n - 1) /\ (p = i - 1 \/ p < i - 1)
    BY <1>3, <1>5
  <2>2. <<x, g[p]>> \in R /\ g[p] \in S /\ g[i - 1] \in S
    BY <1>3, <2>1
  <2>3. p = i - 1 \/ <<g[p], g[i - 1]>> \in R
    BY <2>1 DEF Lines
  <2> QED
    BY <2>1, <2>2, <2>3 DEF Ranks
<1> DEFINE f == [i \in 1 .. n |-> IF i < p THEN g[i] ELSE IF i = p THEN x ELSE g[i - 1]]
<1>6. \A i \in 1 .. n : (i < p => f[i] = g[i]) /\ (i = p => f[i] = x) /\ (p < i => f[i] = g[i - 1])
  BY <1>3
<1>7. f \in [1 .. n -> S]
  <2>1. ASSUME NEW i \in 1 .. n PROVE (IF i < p THEN g[i] ELSE IF i = p THEN x ELSE g[i - 1]) \in S
    <3>1. i < p \/ i = p \/ p < i
      BY <1>3
    <3> QED
      BY <1>4, <1>5, <3>1
  <2> QED
    BY <2>1
<1> HIDE DEF f, T
<1>8. ASSUME NEW i \in 1 .. n, NEW j \in 1 .. n, i < j
      PROVE  <<f[i], f[j]>> \in R
  <2>1. CASE j < p
    <3>1. i < p
      BY <1>3, <1>8, <2>1
    <3> QED
      BY <1>4, <1>6, <1>8, <2>1, <3>1 DEF Lines
  <2>2. CASE j = p
    BY <1>4, <1>6, <1>8, <2>2
  <2>3. CASE p < j /\ i = p
    BY <1>5, <1>6, <2>3
  <2>4. CASE p < j /\ p < i
    <3>1. i - 1 \in 1 .. (n - 1) /\ j - 1 \in 1 .. (n - 1) /\ i - 1 < j - 1
      BY <1>3, <1>8, <2>4
    <3> QED
      BY <1>6, <2>4, <3>1 DEF Lines
  <2>5. CASE p < j /\ i < p
    <3>1. <<f[i], x>> \in R /\ <<x, f[j]>> \in R
      BY <1>4, <1>5, <1>6, <2>5
    <3> QED
      BY <1>7, <3>1 DEF Ranks
  <2> QED
    BY <1>3, <1>8, <2>1, <2>2, <2>3, <2>4, <2>5
<1> QED
  BY <1>7, <1>8 DEF Lines

(* A finite set that is ordered can be lined up.                           *)
LEMMA SortExists ==
    ASSUME NEW R, NEW S, IsFiniteSet(S), Ranks(R, S)
    PROVE  \E f \in [1 .. Cardinality(S) -> S] : Lines(f, R, Cardinality(S))
<1> DEFINE Sorts(U, k) == (IsFiniteSet(U) /\ Cardinality(U) = k /\ U \subseteq S) =>
                              \E f \in [1 .. k -> U] : Lines(f, R, k)
<1>0. PICK n \in Nat : n = Cardinality(S)
  BY FS_CardinalityType
<1> DEFINE G == {k \in 0 .. n : \A U : Sorts(U, k)}
<1>1. 0 \in G
  <2>1. ASSUME NEW U PROVE Sorts(U, 0)
    <3>1. [i \in 1 .. 0 |-> i] \in [1 .. 0 -> U] /\ Lines([i \in 1 .. 0 |-> i], R, 0)
      BY DEF Lines
    <3> QED
      BY <3>1
  <2> QED
    BY <2>1
<1>2. ASSUME NEW k \in 1 .. n, k - 1 \in G
      PROVE  k \in G
  <2>1. ASSUME NEW U, IsFiniteSet(U), Cardinality(U) = k, U \subseteq S
        PROVE  \E f \in [1 .. k -> U] : Lines(f, R, k)
    <3>1. PICK x \in U : TRUE
      BY <2>1, FS_EmptySet
    <3>2. IsFiniteSet(U \ {x}) /\ Cardinality(U \ {x}) = k - 1
      BY <2>1, FS_RemoveElement
    <3>3. PICK g \in [1 .. (k - 1) -> U \ {x}] : Lines(g, R, k - 1)
      BY <1>2, <2>1, <3>2
    <3>4. Ranks(R, U)
      BY <2>1 DEF Ranks
    <3>5. k \in Nat \ {0}
      OBVIOUS
    <3> QED
      BY <3>3, <3>4, <3>5, LineUp
  <2> QED
    BY <2>1
<1>3. 0 .. n \subseteq G
  <2> HIDE DEF G
  <2> QED
    BY <1>1, <1>2, SetInduction
<1> QED
  BY <1>0, <1>3

(* A line in which nobody stands twice shows everyone.                     *)
LEMMA LineIsAll ==
    ASSUME NEW S, IsFiniteSet(S), NEW f \in [1 .. Cardinality(S) -> S],
           \A i, j \in 1 .. Cardinality(S) : i < j => f[i] # f[j]
    PROVE  \A x \in S : \E i \in 1 .. Cardinality(S) : f[i] = x
<1>0. PICK n \in Nat : n = Cardinality(S)
  BY FS_CardinalityType
<1>1. \A i, j \in 1 .. n : i < j \/ j < i \/ i = j
  OBVIOUS
<1>2. f \in Injection(1 .. n, S)
  BY <1>0, <1>1 DEF Injection, IsInjective
<1>3. Cardinality(1 .. n) = n
  BY FS_Interval
<1>4. f \in Surjection(1 .. n, S)
  BY <1>0, <1>2, <1>3, FS_Injection
<1> QED
  BY <1>0, <1>4 DEF Surjection

(* An ascending line of as many naturals as a set has shows the whole set. *)
LEMMA AscendingIsAll ==
    ASSUME NEW S, S \subseteq Nat, IsFiniteSet(S), NEW f \in [1 .. Cardinality(S) -> S],
           \A i, j \in 1 .. Cardinality(S) : i < j => f[i] < f[j]
    PROVE  \A x \in S : \E i \in 1 .. Cardinality(S) : f[i] = x
<1>1. ASSUME NEW i \in 1 .. Cardinality(S), NEW j \in 1 .. Cardinality(S), i < j PROVE f[i] # f[j]
  <2>1. f[i] \in Nat /\ f[j] \in Nat /\ f[i] < f[j]
    BY <1>1
  <2> QED
    BY <2>1
<1> QED
  BY <1>1, LineIsAll

(* What sorting numbers gives.                                             *)
IsSorting(f, S) ==
    f = CHOOSE h \in [1 .. Cardinality(S) -> S] : \A i, j \in DOMAIN h : i < j => h[i] < h[j]

Ascends(f, n, S) ==
    /\ f \in [1 .. n -> S]
    /\ \A i, j \in 1 .. n : i < j => f[i] < f[j]
    /\ \A x \in S : \E i \in 1 .. n : f[i] = x

(* Sorted numbers ascend, and are all of them.                             *)
LEMMA SortedAscends ==
    ASSUME NEW S, S \subseteq Nat, IsFiniteSet(S), NEW f, IsSorting(f, S), NEW n, n = Cardinality(S)
    PROVE  Ascends(f, n, S)
<1>0. n \in Nat
  BY FS_CardinalityType
<1>r. PICK R : R = {p \in S \X S : p[1] < p[2]}
  OBVIOUS
<1>t. \A x \in S : x \in Nat
  OBVIOUS
<1>p. ASSUME NEW x \in S, NEW y \in S PROVE <<x, y>> \in R <=> x < y
  BY <1>r
<1>1. Ranks(R, S)
  <2>1. ASSUME NEW x \in S, NEW y \in S, x # y PROVE <<x, y>> \in R \/ <<y, x>> \in R
    <3>1. x < y \/ y < x
      BY <1>t, <2>1
    <3> QED
      BY <1>p, <3>1
  <2>2. ASSUME NEW x \in S, NEW y \in S, NEW z \in S, <<x, y>> \in R, <<y, z>> \in R
        PROVE  <<x, z>> \in R
    <3>1. x < y /\ y < z
      BY <1>p, <2>2
    <3>2. x < z
      BY <1>t, <3>1
    <3> QED
      BY <1>p, <3>2
  <2> QED
    BY <2>1, <2>2 DEF Ranks
<1>2. PICK g \in [1 .. n -> S] : Lines(g, R, n)
  BY <1>0, <1>1, SortExists
<1>3. \A i, j \in 1 .. n : i < j => g[i] < g[j]
  BY <1>2, <1>p DEF Lines
<1>4. f \in [1 .. n -> S] /\ \A i, j \in 1 .. n : i < j => f[i] < f[j]
  <2>1. f = CHOOSE h \in [1 .. n -> S] : \A i, j \in DOMAIN h : i < j => h[i] < h[j]
    BY <1>0 DEF IsSorting
  <2>2. g \in [1 .. n -> S] /\ \A i, j \in DOMAIN g : i < j => g[i] < g[j]
    BY <1>3
  <2>3. f \in [1 .. n -> S] /\ \A i, j \in DOMAIN f : i < j => f[i] < f[j]
    BY <2>1, <2>2, Zenon
  <2> QED
    BY <2>3
<1>5. f \in [1 .. Cardinality(S) -> S]
      /\ \A i, j \in 1 .. Cardinality(S) : i < j => f[i] < f[j]
  BY <1>4
<1>6. \A x \in S : \E i \in 1 .. Cardinality(S) : f[i] = x
  BY <1>5, AscendingIsAll
<1> QED
  BY <1>4, <1>6 DEF Ascends

-----------------------------------------------------------------------------
(* Lists strung together, as FlattenSeq of the community modules does.     *)

(* The lists of the first ranks, one after another.                        *)
Strings(f, q, n, A) ==
    /\ f \in [0 .. n -> Seq(A)]
    /\ f[0] = << >>
    /\ \A i \in 1 .. n : f[i] = f[i - 1] \o q[i]

(* Some list of lists strings together their members.                      *)
LEMMA StringExists ==
    ASSUME NEW n \in Nat, NEW A, NEW q \in [1 .. n -> Seq(A)]
    PROVE  \E f : Strings(f, q, n, A)
<1> DEFINE G == {k \in 0 .. n : \E f : Strings(f, q, k, A)}
<1>1. 0 \in G
  <2>1. [i \in 0 .. 0 |-> << >>] \in [0 .. 0 -> Seq(A)]
    <3>1. << >> \in Seq(A)
      OBVIOUS
    <3> QED
      BY <3>1, Zenon
  <2>2. Strings([i \in 0 .. 0 |-> << >>], q, 0, A)
    BY <2>1 DEF Strings
  <2> QED
    BY <2>2
<1>2. ASSUME NEW k \in 1 .. n, k - 1 \in G PROVE k \in G
  <2>1. PICK f : Strings(f, q, k - 1, A)
    BY <1>2
  <2> DEFINE t == [i \in 0 .. k |-> IF i = k THEN f[k - 1] \o q[k] ELSE f[i]]
  <2>2. f[k - 1] \in Seq(A) /\ q[k] \in Seq(A)
    BY <2>1 DEF Strings
  <2>3. f[k - 1] \o q[k] \in Seq(A)
    BY <2>2
  <2>4. ASSUME NEW i \in 0 .. k PROVE t[i] \in Seq(A)
    BY <2>1, <2>3, <2>4 DEF Strings
  <2>5. t \in [0 .. k -> Seq(A)]
    BY <2>4
  <2>6. t[0] = << >>
    BY <2>1 DEF Strings
  <2>7. ASSUME NEW i \in 1 .. k PROVE t[i] = t[i - 1] \o q[i]
    <3>1. i \in 0 .. k /\ i - 1 \in 0 .. k /\ i - 1 # k
      OBVIOUS
    <3>2. i # k => i \in 1 .. (k - 1)
      OBVIOUS
    <3>3. i # k => f[i] = f[i - 1] \o q[i]
      BY <2>1, <3>2 DEF Strings
    <3> QED
      BY <3>1, <3>3
  <2>8. Strings(t, q, k, A)
    <3> HIDE DEF t
    <3> QED
      BY <2>5, <2>6, <2>7 DEF Strings
  <2> QED
    BY <2>8
<1>3. 0 .. n \subseteq G
  <2> HIDE DEF G
  <2> QED
    BY <1>1, <1>2, SetInduction
<1>4. n \in G
  BY <1>3
<1> QED
  BY <1>4

(* What a recursive concatenation of the lists computes.                   *)
Strung(q, n) == CHOOSE g : g = [i \in 1 .. n |-> IF i = 1 THEN q[i] ELSE g[i - 1] \o q[i]]

(* It ends in the last of them.                                            *)
LEMMA StrungIs ==
    ASSUME NEW n \in Nat \ {0}, NEW A, NEW q \in [1 .. n -> Seq(A)]
    PROVE  \E f : Strings(f, q, n, A) /\ Strung(q, n)[n] = f[n]
<1> DEFINE Body(g) == [i \in 1 .. n |-> IF i = 1 THEN q[i] ELSE g[i - 1] \o q[i]]
           S == CHOOSE g : g = Body(g)
<1>0. PICK f : Strings(f, q, n, A)
  BY StringExists
<1>2. PICK r : r = [i \in 1 .. n |-> f[i]]
  OBVIOUS
<1>3. ASSUME NEW i \in 1 .. n PROVE r[i] = IF i = 1 THEN q[i] ELSE r[i - 1] \o q[i]
  <2>1. f[i] = f[i - 1] \o q[i] /\ q[i] \in Seq(A)
    BY <1>0 DEF Strings
  <2>2. CASE i = 1
    <3>1. f[i - 1] = << >>
      BY <1>0, <2>2 DEF Strings
    <3>2. << >> \o q[i] = q[i]
      BY <2>1
    <3> QED
      BY <1>2, <2>1, <2>2, <3>1, <3>2
  <2>3. CASE i # 1
    BY <1>2, <2>1, <2>3
  <2> QED
    BY <2>2, <2>3
<1>4. r = Body(r)
  BY <1>2, <1>3
<1>5. S = Body(S)
  BY <1>4, Zenon
<1> HIDE DEF S
<1>6. \A i \in 1 .. n : S[i] = IF i = 1 THEN q[i] ELSE S[i - 1] \o q[i]
  BY <1>5
<1> DEFINE H == {i \in 0 .. n : i # 0 => S[i] = f[i]}
<1>7. 0 \in H
  <2>1. 0 \in 0 .. n
    OBVIOUS
  <2> QED
    BY <2>1
<1>8. ASSUME NEW i \in 1 .. n, i - 1 \in H PROVE i \in H
  <2>1. CASE i = 1
    <3>1. S[i] = q[i] /\ r[i] = q[i] /\ r[i] = f[i]
      BY <1>2, <1>3, <1>6, <2>1
    <3> QED
      BY <3>1
  <2>2. CASE i # 1
    <3>1. S[i - 1] = f[i - 1]
      BY <1>8, <2>2
    <3>2. S[i] = S[i - 1] \o q[i]
      BY <1>6, <2>2
    <3>3. f[i] = f[i - 1] \o q[i]
      BY <1>0 DEF Strings
    <3>4. i \in 0 .. n /\ S[i] = f[i]
      BY <3>1, <3>2, <3>3
    <3> QED
      BY <3>4
  <2> QED
    BY <2>1, <2>2
<1>9. 0 .. n \subseteq H
  <2> HIDE DEF H
  <2> QED
    BY <1>7, <1>8, SetInduction
<1>10. n \in H
  BY <1>9
<1>11. S[n] = f[n]
  BY <1>10
<1>12. Strung(q, n) = S
  BY DEF S, Strung
<1> QED
  BY <1>0, <1>11, <1>12
=============================================================================
