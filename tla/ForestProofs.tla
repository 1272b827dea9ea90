----------------------------- MODULE ForestProofs -----------------------------
(***************************************************************************)
(* Theorems about the grid, the slicer and the containment forest, for     *)
(* every grid and every token counter.                                     *)
(***************************************************************************)
EXTENDS Forest, SumsProofs, SequenceTheorems, FiniteSetTheorems

(* Division with remainder, as the slicer uses it on offsets.              *)
LEMMA QuotientAndRemainder ==
    ASSUME NEW o \in Nat, NEW s \in Nat \ {0}
    PROVE  /\ o \div s \in Nat /\ o % s \in 0 .. (s - 1)
           /\ o = ((o \div s) * s) + (o % s)
OBVIOUS

(* A multiple of s is some q times s.                                      *)
LEMMA MultipleHasQuotient ==
    ASSUME NEW b \in Nat, NEW s \in Nat \ {0}, b % s = 0
    PROVE  \E q \in Nat : b = q * s
<1>1. b \div s \in Nat /\ b = (b \div s) * s
  BY QuotientAndRemainder
<1> QED
  BY <1>1

(* The parent offset (grid.py, parent_offset) is the start of a slot.      *)
LEMMA ParentOffsetIsMultiple ==
    ASSUME NEW o \in Nat, NEW s \in Nat \ {0}
    PROVE  /\ ParentOffset(o, s) \in Nat
           /\ ParentOffset(o, s) <= o /\ o < ParentOffset(o, s) + s
           /\ ParentOffset(o, s) % s = 0
BY QuotientAndRemainder DEF ParentOffset

(* The slot start at most s below o is the parent offset of o.             *)
LEMMA MultipleBelow ==
    ASSUME NEW o \in Nat, NEW b \in Nat, NEW s \in Nat \ {0}, b % s = 0, b <= o, o < b + s
    PROVE b = ParentOffset(o, s)
<1>1. PICK q \in Nat : b = q * s
  BY MultipleHasQuotient
<1>2. o = (q * s) + (o - b) /\ o - b \in 0 .. (s - 1)
  BY <1>1
<1>3. o \div s = q
  BY <1>1, <1>2
<1> QED BY <1>1, <1>3 DEF ParentOffset

(* A start on a coarse level of the grid is a start on the finer ones.     *)
LEMMA MultipleOfMultiple ==
    ASSUME NEW b \in Nat, NEW l \in Nat \ {0}, NEW s \in Nat \ {0}, l % s = 0, b % l = 0
    PROVE b % s = 0
<1>1. PICK q \in Nat : b = q * l
  BY MultipleHasQuotient
<1>2. PICK r \in Nat : l = r * s
  BY MultipleHasQuotient
<1>3. b = (q * r) * s /\ q * r \in Nat
  BY <1>1, <1>2
<1> QED
  BY <1>3

(* Two different starts on one level lie at least one slot apart.          *)
LEMMA MultiplesApart ==
    ASSUME NEW a \in Nat, NEW b \in Nat, NEW s \in Nat \ {0}, a % s = 0, b % s = 0, a < b
    PROVE a + s <= b
<1>1. PICK q \in Nat : a = q * s
  BY MultipleHasQuotient
<1>2. PICK r \in Nat : b = r * s
  BY MultipleHasQuotient
<1>3. q < r
  BY <1>1, <1>2
<1>4. q + 1 <= r
  BY <1>3
<1>5. (q + 1) * s <= r * s
  BY <1>4
<1>6. (q+1) * s = a + s
  BY <1>1
<1> QED BY <1>2, <1>5, <1>6

(* Starts on one level differ, and add up, to starts on that level.        *)
LEMMA DifferenceIsMultiple ==
    ASSUME NEW a \in Nat, NEW b \in Nat, NEW s \in Nat \ {0}, a % s = 0, b % s = 0, a <= b
    PROVE  (b - a) % s = 0 /\ (a + b) % s = 0
<1>1. PICK q \in Nat : a = q * s
  BY MultipleHasQuotient
<1>2. PICK r \in Nat : b = r * s
  BY MultipleHasQuotient
<1>3. b - a = (r - q) * s /\ r - q \in Int /\ a + b = (q + r) * s /\ q + r \in Nat
  BY <1>1, <1>2
<1> QED
  BY <1>3

(* A piece of a sequence.                                                  *)
LEMMA PieceOf ==
    ASSUME NEW S, NEW t \in Seq(S), NEW m \in Nat, NEW n \in Nat, m <= n, n <= Len(t)
    PROVE  /\ SubSeq(t, m + 1, n) \in Seq(S)
           /\ Len(SubSeq(t, m + 1, n)) = n - m
           /\ \A i \in 1 .. (n - m) : SubSeq(t, m + 1, n)[i] = t[m + i]
<1>1. \A i \in (m + 1) .. n : t[i] \in S
  OBVIOUS
<1>2. /\ SubSeq(t, m + 1, n) \in Seq(S)
      /\ Len(SubSeq(t, m + 1, n)) = IF m + 1 <= n THEN n - (m + 1) + 1 ELSE 0
      /\ \A i \in 1 .. (n - (m + 1) + 1) : SubSeq(t, m + 1, n)[i] = t[m + 1 + i - 1]
  BY <1>1, SubSeqProperties
<1>3. n - (m + 1) + 1 = n - m /\ \A i \in 1 .. (n - m) : m + 1 + i - 1 = m + i
  OBVIOUS
<1> QED
  BY <1>2, <1>3

(* A stretch of t that reads like u, point by point, is u.                 *)
LEMMA SamePiece ==
    ASSUME NEW S, NEW t \in Seq(S), NEW T, NEW u \in Seq(T), NEW m \in Nat, NEW n \in Nat,
           m <= n, n <= Len(t), n - m = Len(u), \A i \in 1 .. Len(u) : t[m + i] = u[i]
    PROVE  SubSeq(t, m + 1, n) = u
<1> DEFINE v == SubSeq(t, m + 1, n)
<1>1. v \in Seq(S \cup T) /\ u \in Seq(S \cup T) /\ Len(v) = Len(u)
  BY PieceOf
<1>2. \A i \in 1 .. Len(v) : v[i] = u[i]
  BY PieceOf
<1> HIDE DEF v
<1>3. v = u
  BY <1>1, <1>2, SeqEqual
<1> QED
  BY <1>3 DEF v

(* Every size divides every larger one.                                    *)
LEMMA SizesDivide ==
    ASSUME NEW s \in Sizes, NEW l \in Sizes, s < l
    PROVE  /\ s \in Nat \ {0} /\ l \in Nat \ {0} /\ l % s = 0
           /\ \A b \in Nat : b % l = 0 => b % s = 0
<1>1. s \in Nat \ {0} /\ l \in Nat \ {0} /\ l % s = 0
  BY GridAssumption
<1> QED
  BY <1>1, MultipleOfMultiple

(* The span of a slice: on the grid, not empty, clipped by the document.   *)
LEMMA CutSpan ==
    ASSUME NEW s, IsCut(s)
    PROVE  /\ s.size \in Sizes /\ s.size \in Nat \ {0}
           /\ s.off \in Nat /\ s.off % s.size = 0 /\ s.doclen \in Nat
           /\ EndOf(s) \in Nat /\ s.off < EndOf(s)
           /\ EndOf(s) <= s.doclen /\ EndOf(s) <= s.off + s.size
           /\ EndOf(s) = s.off + s.size \/ EndOf(s) = s.doclen
           /\ Len(s.text) = EndOf(s) - s.off /\ Len(s.text) \in Nat
<1>1. /\ s.size \in Sizes /\ s.off \in Nat /\ s.off % s.size = 0
      /\ s.doclen \in Nat /\ s.off < s.doclen
      /\ EndOf(s) = ClippedEnd(s.off, s.size, s.doclen)
      /\ s.text \in Seq({s.text[k] : k \in DOMAIN s.text})
  BY DEF IsCut, OnGrid
<1>2. s.size \in Nat \ {0}
  BY <1>1, GridAssumption
<1>3. Len(s.text) \in Nat
  BY <1>1
<1> QED
  BY <1>1, <1>2, <1>3 DEF ClippedEnd, EndOf

(* The text of a slice is a sequence of code points.                       *)
LEMMA CutText ==
    ASSUME NEW s, IsCut(s)
    PROVE  s.text \in Seq({s.text[k] : k \in DOMAIN s.text})
BY DEF IsCut

(* Two slices of one text, where both show the same code points.           *)
Agree(s, t) ==
    /\ s.doclen = t.doclen
    /\ \A k \in (s.off + 1) .. EndOf(s) : t.off < k /\ k <= EndOf(t) =>
          s.text[k - s.off] = t.text[k - t.off]

Overlap(s, t) == s.off < EndOf(t) /\ t.off < EndOf(s)

(* Slices of different sizes that overlap are nested, the smaller in the   *)
(* larger, which the walk up the grid finds.                               *)
LEMMA OverlapNests ==
    ASSUME NEW p, NEW c, IsCut(p), IsCut(c), p.doc = c.doc, p.doclen = c.doclen,
           Overlap(p, c), c.size < p.size
    PROVE  PositionallyNests(p, c)
<1>1. /\ p.size % c.size = 0 /\ p.off % c.size = 0
      /\ c.size \in Nat \ {0} /\ p.size \in Nat \ {0}
  BY CutSpan, SizesDivide
<1>2. p.off <= c.off
  <2>1. c.off < p.off => c.off + c.size <= p.off
    BY <1>1, CutSpan, MultiplesApart
  <2> QED
    BY <1>1, <2>1, CutSpan DEF Overlap
<1>3. c.off + c.size <= p.off + p.size
  <2>1. (p.off + p.size) % c.size = 0 /\ c.off < p.off + p.size
    <3>1. PICK q \in Nat : p.off = q * c.size
      BY <1>1, CutSpan, MultipleHasQuotient
    <3>2. PICK r \in Nat : p.size = r * c.size
      BY <1>1, CutSpan, MultipleHasQuotient
    <3>3. p.off + p.size = (q + r) * c.size /\ q + r \in Nat
      BY <1>1, <3>1, <3>2
    <3>4. c.off < p.off + p.size
      BY CutSpan DEF Overlap
    <3> QED
      BY <1>1, <3>3, <3>4
  <2>2. p.off + p.size \in Nat /\ c.off \in Nat /\ c.off % c.size = 0
    BY CutSpan
  <2> QED
    BY <1>1, <2>1, <2>2, MultiplesApart
<1> QED
  BY <1>2, <1>3, CutSpan DEF PositionallyNests

(* Slices of one size that overlap start at one place.                     *)
LEMMA OverlapCoincides ==
    ASSUME NEW s, NEW t, IsCut(s), IsCut(t), Overlap(s, t), s.size = t.size
    PROVE  s.off = t.off
<1>1. s.off < t.off => s.off + s.size <= t.off
  BY CutSpan, MultiplesApart
<1>2. t.off < s.off => t.off + s.size <= s.off
  BY CutSpan, MultiplesApart
<1> QED
  BY <1>1, <1>2, CutSpan DEF Overlap

(* What encloses a slice starts where the walk looks for it.               *)
LEMMA NestedOnGrid ==
    ASSUME NEW p, NEW c, IsCut(p), IsCut(c), PositionallyNests(p, c)
    PROVE  p.off = ParentOffset(c.off, p.size)
<1>1. p.off <= c.off /\ c.off < p.off + p.size
  BY CutSpan DEF PositionallyNests
<1> QED
  BY <1>1, CutSpan, MultipleBelow

(* What a slice shows of a place inside its own is the text of that place. *)
LEMMA PlaceInText ==
    ASSUME NEW s, NEW l, IsCut(s), IsCut(l), s.off <= l.off, EndOf(l) <= EndOf(s),
           \A k \in (s.off + 1) .. EndOf(s) : l.off < k /\ k <= EndOf(l) =>
               s.text[k - s.off] = l.text[k - l.off]
    PROVE  SubSeq(s.text, (l.off - s.off) + 1, EndOf(l) - s.off) = l.text
<1> DEFINE o == l.off - s.off
           e == EndOf(l) - s.off
<1>1. /\ l.off \in Nat /\ s.off \in Nat /\ EndOf(l) \in Nat /\ EndOf(s) \in Nat /\ l.off < EndOf(l)
      /\ Len(l.text) = EndOf(l) - l.off /\ Len(s.text) = EndOf(s) - s.off
  BY CutSpan
<1>2. o \in Nat /\ e \in Nat /\ o <= e /\ e - o = Len(l.text) /\ e <= Len(s.text)
  BY <1>1
<1>3. l.text \in Seq({l.text[k] : k \in DOMAIN l.text}) /\ s.text \in Seq({s.text[k] : k \in DOMAIN s.text})
  BY CutText
<1>4. ASSUME NEW i \in 1 .. Len(l.text) PROVE s.text[o + i] = l.text[i]
  <2>1. i \in Nat /\ 1 <= i /\ i <= EndOf(l) - l.off
    BY <1>1
  <2>2. l.off + i \in (s.off + 1) .. EndOf(s) /\ l.off < l.off + i /\ l.off + i <= EndOf(l)
    BY <1>1, <2>1
  <2>3. s.text[(l.off + i) - s.off] = l.text[(l.off + i) - l.off]
    BY <2>2
  <2>4. (l.off + i) - s.off = o + i /\ (l.off + i) - l.off = i
    BY <1>1, <2>1
  <2> QED
    BY <2>3, <2>4
<1> HIDE DEF o, e
<1>5. SubSeq(s.text, o + 1, e) = l.text
  BY <1>2, <1>3, <1>4, SamePiece
<1> QED
  BY <1>5 DEF o, e

(* In one generation, nesting in place is enough: the larger slice lists   *)
(* the smaller one's marker.                                               *)
LEMMA NestedIsVouched ==
    ASSUME NEW p, NEW c, IsCut(p), IsCut(c), Agree(p, c), PositionallyNests(p, c)
    PROVE  Vouches(p, c)
<1> DEFINE o == c.off - p.off
           n == Len(p.text)
           e == EndOf(c) - p.off
<1>1. /\ o \in Nat /\ e \in Nat /\ n \in Nat /\ o < n /\ o < e /\ e <= n /\ e - o = Len(c.text)
      /\ c.size \in Nat \ {0} /\ c.size \in LevelsBelow(p.size) /\ Len(c.text) \in Nat
  <2>1. /\ p.off \in Nat /\ c.off \in Nat /\ p.off <= c.off /\ EndOf(c) \in Nat /\ EndOf(p) \in Nat
        /\ EndOf(c) <= EndOf(p) /\ c.off < EndOf(c)
        /\ Len(c.text) = EndOf(c) - c.off /\ Len(p.text) = EndOf(p) - p.off
    BY CutSpan DEF PositionallyNests
  <2>2. c.size \in Nat \ {0} /\ c.size \in LevelsBelow(p.size)
    BY CutSpan DEF PositionallyNests, LevelsBelow
  <2>3. o \in Nat /\ e \in Nat /\ n \in Nat /\ Len(c.text) \in Nat
    BY <2>1
  <2>4. o < n /\ o < e /\ e <= n /\ e - o = Len(c.text)
    BY <2>1
  <2> QED
    BY <2>2, <2>3, <2>4
<1>2. ClippedEnd(o, c.size, n) = e /\ ClippedEnd(0, p.size, n) = n
  <2>1. /\ p.off \in Nat /\ c.off \in Nat /\ p.off <= c.off /\ EndOf(c) \in Nat /\ EndOf(p) \in Nat
        /\ EndOf(c) <= EndOf(p) /\ p.doclen = c.doclen /\ p.size \in Nat /\ EndOf(p) <= p.doclen
        /\ EndOf(p) <= p.off + p.size /\ EndOf(c) <= c.off + c.size /\ p.doclen \in Nat
        /\ EndOf(c) = c.off + c.size \/ EndOf(c) = p.doclen
    BY CutSpan DEF PositionallyNests, Agree
  <2>2. n = EndOf(p) - p.off /\ c.size \in Nat
    BY CutSpan
  <2>3. o + c.size < n <=> c.off + c.size < EndOf(p)
    BY <2>1, <2>2
  <2>4. c.off + c.size < EndOf(p) => o + c.size = e
    BY <2>1, <2>2
  <2>5. ~ (c.off + c.size < EndOf(p)) => n = e
    BY <2>1, <2>2
  <2>6. ~ (0 + p.size < n)
    BY <2>1, <2>2
  <2> HIDE DEF o, n, e
  <2> QED
    BY <2>3, <2>4, <2>5, <2>6 DEF ClippedEnd
<1>3. o % c.size = 0
  <2>1. p.off % c.size = 0 /\ c.off % c.size = 0
    BY CutSpan, SizesDivide DEF PositionallyNests
  <2> QED
    BY <1>1, <2>1, CutSpan, DifferenceIsMultiple DEF PositionallyNests
<1>4. SubSeq(p.text, o + 1, e) = c.text
  BY PlaceInText DEF PositionallyNests, Agree
<1>5. Passage(p.text, o, c.size) = c.text
  BY <1>2, <1>4 DEF Passage
<1>6. p.desc = Descendants(p.text, 0, p.size)
  BY DEF IsCut
<1>7. o \in Offsets(0, ClippedEnd(0, p.size, n), c.size)
  <2> HIDE DEF o, e, n
  <2> QED
    BY <1>1, <1>2, <1>3 DEF Offsets
<1> HIDE DEF o, e
<1> QED
  BY <1>1, <1>5, <1>6, <1>7 DEF Vouches, Marker, Descendants

(* The text t occurs in the text u.                                        *)
Occurs(t, u) == \E k \in 0 .. (Len(u) - Len(t)) : SubSeq(u, k + 1, k + Len(t)) = t

(* A text occurs in itself.                                                *)
LEMMA OccursInItself ==
    ASSUME NEW S, NEW t \in Seq(S) PROVE Occurs(t, t)
<1>1. Len(t) \in Nat /\ \A i \in 1 .. Len(t) : t[0 + i] = t[i]
  OBVIOUS
<1>2. SubSeq(t, 0 + 1, 0 + Len(t)) = t
  BY <1>1, SamePiece
<1> QED
  BY <1>1, <1>2 DEF Occurs

(* Occurring is transitive: the inner place is moved by the outer one.     *)
LEMMA OccursTransitive ==
    ASSUME NEW S, NEW t \in Seq(S), NEW T, NEW u \in Seq(T), NEW R, NEW v \in Seq(R),
           Occurs(t, u), Occurs(u, v)
    PROVE  Occurs(t, v)
<1> DEFINE l == Len(t)
           m == Len(u)
           n == Len(v)
<1>1. l \in Nat /\ m \in Nat /\ n \in Nat
  OBVIOUS
<1>2. PICK j \in 0 .. (m - l) : SubSeq(u, j + 1, j + l) = t
  BY DEF Occurs
<1>3. PICK k \in 0 .. (n - m) : SubSeq(v, k + 1, k + m) = u
  BY DEF Occurs
<1>4. ASSUME NEW i \in 1 .. l PROVE v[(k + j) + i] = t[i]
  <2>1. j + i \in 1 .. m /\ k + (j + i) = (k + j) + i
    BY <1>1, <1>2, <1>3
  <2>2. t[i] = u[j + i]
    <3>1. j \in Nat /\ j + l \in Nat /\ j <= j + l /\ j + l <= Len(u) /\ i \in 1 .. ((j + l) - j)
      BY <1>1, <1>2
    <3> HIDE DEF l, m, n
    <3> QED
      BY <1>2, <3>1, PieceOf
  <2>3. u[j + i] = v[k + (j + i)]
    <3>1. k \in Nat /\ k + m \in Nat /\ k <= k + m /\ k + m <= Len(v) /\ j + i \in 1 .. ((k + m) - k)
      BY <1>1, <1>3, <2>1
    <3> HIDE DEF l, m, n
    <3> QED
      BY <1>3, <3>1, PieceOf
  <2> QED
    BY <2>1, <2>2, <2>3
<1>5. /\ k + j \in 0 .. (n - l) /\ k + j \in Nat /\ (k + j) + l \in Nat
      /\ k + j <= (k + j) + l /\ (k + j) + l <= n /\ ((k + j) + l) - (k + j) = l
  BY <1>1, <1>2, <1>3
<1>6. SubSeq(v, (k + j) + 1, (k + j) + l) = t
  BY <1>4, <1>5, SamePiece
<1> QED
  BY <1>5, <1>6 DEF Occurs

(* What a slice vouches for occurs in its text, in whichever place.        *)
LEMMA VouchedOccurs ==
    ASSUME NEW p, NEW c, IsCut(p), Vouches(p, c) PROVE Occurs(c.text, p.text)
<1> DEFINE n == Len(p.text)
<1>1. PICK z \in LevelsBelow(p.size) : \E o \in Offsets(0, ClippedEnd(0, p.size, n), z) :
         c.text = SubSeq(p.text, o + 1, ClippedEnd(o, z, n))
  BY DEF Vouches, Marker, IsCut, Descendants, Passage
<1>2. PICK o \in Offsets(0, ClippedEnd(0, p.size, n), z) :
         c.text = SubSeq(p.text, o + 1, ClippedEnd(o, z, n))
  BY <1>1
<1> DEFINE e == ClippedEnd(o, z, n)
<1>3. o \in Nat /\ e \in Nat /\ o <= e /\ e <= n /\ n \in Nat
  <2>1. z \in Nat \ {0} /\ n \in Nat /\ p.size \in Nat
    BY GridAssumption, CutSpan DEF LevelsBelow
  <2>2. o \in 0 .. (ClippedEnd(0, p.size, n) - 1)
    BY <1>2 DEF Offsets
  <2> HIDE DEF n
  <2>3. o \in Nat /\ o < n
    BY <2>1, <2>2 DEF ClippedEnd
  <2> QED
    BY <2>1, <2>3 DEF ClippedEnd
<1>4. p.text \in Seq({p.text[k] : k \in DOMAIN p.text})
  BY CutText
<1>5. Len(c.text) = e - o
  <2> HIDE DEF e
  <2>1. e <= Len(p.text)
    BY <1>3
  <2>2. c.text = SubSeq(p.text, o + 1, e)
    BY <1>2 DEF e
  <2> QED
    BY <1>3, <1>4, <2>1, <2>2, PieceOf
<1>6. o \in 0 .. (n - (e - o)) /\ o + (e - o) = e
  <2> HIDE DEF e, n
  <2> QED
    BY <1>3
<1> HIDE DEF e
<1>7. c.text = SubSeq(p.text, o + 1, e)
  BY <1>2 DEF e
<1> QED
  BY <1>5, <1>6, <1>7 DEF Occurs

-----------------------------------------------------------------------------
(* The hits build works on: slices with pairwise distinct refs.            *)
Retrieved(H) ==
    /\ \A h \in H : h # None /\ IsCut(h)
    /\ \A g, h \in H : Ref(g) = Ref(h) => g = h

(* Hits of one generation: no replace was in flight.                       *)
OneText(H) == \A g, h \in H : g.doc = h.doc => Agree(g, h)

(* Among slices there is one of the least size.                            *)
LEMMA SmallestSlice ==
    ASSUME NEW P, P # {}, \A p \in P : p.size \in Nat
    PROVE  \E p \in P : \A q \in P : p.size <= q.size
<1> DEFINE T == {p.size : p \in P}
<1>1. T \subseteq Nat /\ T # {}
  OBVIOUS
<1>2. \E x \in T : \A y \in T : x <= y
  <2> HIDE DEF T
  <2> QED
    BY <1>1, LeastNatural
<1> QED
  BY <1>2

(* The walk from c ends at the smallest vouching slice above it, or at the *)
(* top of the grid if there is none.                                       *)
LEMMA MinimalParentFound ==
    ASSUME NEW H, Retrieved(H), NEW c \in H
    PROVE  \/ /\ MinimalParent(H, c) = None
              /\ \A p \in GridParents(H, c) : ~ Vouches(p, c)
           \/ /\ MinimalParent(H, c) \in GridParents(H, c)
              /\ MinimalParent(H, c) \in H /\ MinimalParent(H, c) # None
              /\ Vouches(MinimalParent(H, c), c)
              /\ \A q \in GridParents(H, c) : Vouches(q, c) => MinimalParent(H, c).size <= q.size
<1> DEFINE P == {p \in GridParents(H, c) : Vouches(p, c)}
           m == CHOOSE p \in P : \A q \in P : p.size <= q.size
<1>1. P \subseteq H /\ \A p \in P : p.size \in Nat /\ p # None
  BY CutSpan DEF GridParents, Retrieved
<1>2. MinimalParent(H, c) = IF P = {} THEN None ELSE m
  BY DEF MinimalParent
<1>3. CASE P = {}
  BY <1>2, <1>3
<1>4. CASE P # {}
  <2>1. \E p \in P : \A q \in P : p.size <= q.size
    <3> HIDE DEF P
    <3> QED
      BY <1>1, <1>4, SmallestSlice
  <2>2. m \in P /\ \A q \in P : m.size <= q.size
    BY <2>1
  <2> QED
    BY <1>1, <1>2, <1>4, <2>2
<1> QED
  BY <1>3, <1>4

(* Whatever contains c is found on c's grid parents, and lists c.          *)
LEMMA ContainerOnGrid ==
    ASSUME NEW H, Retrieved(H), NEW c \in H, NEW p \in H, Contains(p, c)
    PROVE  p \in GridParents(H, c) /\ Vouches(p, c)
<1>1. IsCut(p) /\ IsCut(c) /\ PositionallyNests(p, c) /\ Vouches(p, c)
  BY DEF Retrieved, Contains
<1>2. p.off = ParentOffset(c.off, p.size)
  BY <1>1, NestedOnGrid
<1>3. p.size \in LevelsAbove(c.size) /\ p.doc = c.doc
  BY <1>1, CutSpan DEF PositionallyNests, LevelsAbove
<1> QED
  BY <1>1, <1>2, <1>3 DEF GridParents

(* A root is contained by no hit, whatever generations the hits are of.    *)
LEMMA RootsUncontained ==
    ASSUME NEW H, Retrieved(H), NEW h \in Roots(H), NEW p \in H
    PROVE  ~ Contains(p, h)
<1>1. h \in H /\ MinimalParent(H, h) = None
  BY DEF Roots
<1>2. \A q \in GridParents(H, h) : ~ Vouches(q, h)
  BY <1>1, MinimalParentFound
<1> QED
  BY <1>1, <1>2, ContainerOnGrid

-----------------------------------------------------------------------------
(* The forest of one generation.                                           *)
LEMMA OverlapContains ==
    ASSUME NEW H, Retrieved(H), OneText(H), NEW p \in H, NEW c \in H,
           p.doc = c.doc, Overlap(p, c), c.size < p.size
    PROVE  Contains(p, c)
<1>1. IsCut(p) /\ IsCut(c) /\ Agree(p, c)
  BY DEF Retrieved, OneText
<1>2. PositionallyNests(p, c)
  BY <1>1, OverlapNests DEF Agree
<1> QED
  BY <1>1, <1>2, NestedIsVouched DEF Contains

(* Overlapping hits are one hit, or one contains the other.                *)
LEMMA Laminar ==
    ASSUME NEW H, Retrieved(H), OneText(H), NEW g \in H, NEW h \in H,
           g.doc = h.doc, Overlap(g, h)
    PROVE  \/ g = h
           \/ g.size < h.size /\ Contains(h, g)
           \/ h.size < g.size /\ Contains(g, h)
<1>1. IsCut(g) /\ IsCut(h) /\ g.size \in Nat /\ h.size \in Nat
  BY CutSpan DEF Retrieved
<1>2. CASE g.size = h.size
  <2>1. g.off = h.off
    BY <1>1, <1>2, OverlapCoincides
  <2> QED
    BY <1>2, <2>1 DEF Retrieved, Ref
<1>3. CASE g.size < h.size
  <2>1. Overlap(h, g)
    BY DEF Overlap
  <2> QED
    BY <1>3, <2>1, OverlapContains
<1>4. CASE h.size < g.size
  BY <1>4, OverlapContains
<1> QED
  BY <1>1, <1>2, <1>3, <1>4

(* Containment is overlap, in one document, of a smaller by a larger       *)
(* slice.                                                                  *)
LEMMA ContainsOverlaps ==
    ASSUME NEW p, NEW c, IsCut(p), IsCut(c), Contains(p, c)
    PROVE  /\ Overlap(p, c) /\ p.doc = c.doc /\ c.size < p.size
           /\ p.off <= c.off /\ EndOf(c) <= EndOf(p)
BY CutSpan DEF Contains, PositionallyNests, Overlap

(* In one text containment is transitive.                                  *)
LEMMA ContainsTransitive ==
    ASSUME NEW H, Retrieved(H), OneText(H), NEW p \in H, NEW q \in H, NEW c \in H,
           Contains(p, q), Contains(q, c)
    PROVE  Contains(p, c)
<1>1. IsCut(p) /\ IsCut(q) /\ IsCut(c)
  BY DEF Retrieved
<1>2. /\ p.doc = q.doc /\ q.size < p.size /\ p.off <= q.off /\ EndOf(q) <= EndOf(p)
      /\ q.doc = c.doc /\ c.size < q.size /\ q.off <= c.off /\ EndOf(c) <= EndOf(q)
  BY <1>1, ContainsOverlaps
<1>3. /\ p.off \in Nat /\ q.off \in Nat /\ c.off \in Nat
      /\ EndOf(p) \in Nat /\ EndOf(q) \in Nat /\ EndOf(c) \in Nat /\ c.off < EndOf(c)
      /\ p.size \in Nat /\ q.size \in Nat /\ c.size \in Nat
  BY <1>1, CutSpan
<1>4. p.doc = c.doc /\ Overlap(p, c) /\ c.size < p.size
  BY <1>2, <1>3 DEF Overlap
<1> QED
  BY <1>4, OverlapContains

(* What contains one hit is a chain.                                       *)
LEMMA ContainersNest ==
    ASSUME NEW H, Retrieved(H), OneText(H), NEW p \in H, NEW q \in H, NEW c \in H,
           Contains(p, c), Contains(q, c)
    PROVE  \/ p = q
           \/ p.size < q.size /\ Contains(q, p)
           \/ q.size < p.size /\ Contains(p, q)
<1>1. IsCut(p) /\ IsCut(q) /\ IsCut(c)
  BY DEF Retrieved
<1>2. p.doc = q.doc /\ Overlap(p, q)
  BY <1>1, CutSpan DEF Contains, PositionallyNests, Overlap
<1> QED
  BY <1>2, Laminar

(* The slices met on the walk are those that contain.                      *)
LEMMA GridParentsContain ==
    ASSUME NEW H, Retrieved(H), OneText(H), NEW c \in H
    PROVE  GridParents(H, c) = {p \in H : Contains(p, c)}
<1>1. ASSUME NEW p \in GridParents(H, c) PROVE p \in H /\ Contains(p, c)
  <2>1. /\ p \in H /\ p.doc = c.doc /\ c.size < p.size /\ p.off = ParentOffset(c.off, p.size)
        /\ IsCut(p) /\ IsCut(c) /\ p.doclen = c.doclen
    BY DEF GridParents, LevelsAbove, Retrieved, OneText, Agree
  <2>2. p.off <= c.off /\ c.off < p.off + p.size
    BY <2>1, CutSpan, ParentOffsetIsMultiple
  <2>3. Overlap(p, c)
    BY <2>1, <2>2, CutSpan DEF Overlap
  <2> QED
    BY <2>1, <2>3, OverlapContains
<1> QED
  BY <1>1, ContainerOnGrid DEF GridParents

(* A hit has a minimal parent exactly if some hit contains it; everything  *)
(* else that contains it contains its minimal parent too.                  *)
LEMMA MinimalParentNests ==
    ASSUME NEW H, Retrieved(H), OneText(H), NEW c \in H
    PROVE  \/ /\ MinimalParent(H, c) = None
              /\ \A p \in H : ~ Contains(p, c)
           \/ /\ MinimalParent(H, c) \in H /\ MinimalParent(H, c) # None
              /\ Contains(MinimalParent(H, c), c)
              /\ \A p \in H : Contains(p, c) =>
                    p = MinimalParent(H, c) \/ Contains(p, MinimalParent(H, c))
<1> DEFINE m == MinimalParent(H, c)
<1>1. GridParents(H, c) = {p \in H : Contains(p, c)}
  BY GridParentsContain
<1>2. \A p \in H : Contains(p, c) => Vouches(p, c)
  BY DEF Contains
<1>3. CASE m = None
  BY <1>1, <1>2, <1>3, MinimalParentFound
<1>4. CASE m # None
  <2>1. m \in H /\ Contains(m, c) /\ \A q \in H : Contains(q, c) => m.size <= q.size
    BY <1>1, <1>2, <1>4, MinimalParentFound
  <2>2. ASSUME NEW p \in H, Contains(p, c) PROVE p = m \/ Contains(p, m)
    <3>1. p = m \/ p.size < m.size \/ Contains(p, m)
      BY <2>1, <2>2, ContainersNest
    <3>2. m.size <= p.size /\ m.size \in Nat /\ p.size \in Nat
      BY <2>1, <2>2, CutSpan DEF Retrieved
    <3> HIDE DEF m
    <3> QED
      BY <3>1, <3>2
  <2> QED
    BY <1>4, <2>1, <2>2
<1> QED
  BY <1>3, <1>4

(* The leaves are the hits that contain no other.                          *)
LEMMA LeavesFound ==
    ASSUME NEW H, Retrieved(H), OneText(H)
    PROVE  Leaves(H) = {h \in H : \A c \in H : ~ Contains(h, c)}
<1>1. ASSUME NEW h \in H, NEW c \in H, MinimalParent(H, c) = h PROVE Contains(h, c)
  BY <1>1, MinimalParentNests DEF Retrieved
<1>2. ASSUME NEW h \in H, NEW d \in H, Contains(h, d)
      PROVE  \E c \in H : MinimalParent(H, c) = h
  <2> DEFINE T == {h.size - c.size : c \in {e \in H : Contains(h, e)}}
  <2>1. ASSUME NEW e \in H, Contains(h, e) PROVE h.size - e.size \in Nat
    <3>1. h.size \in Nat /\ e.size \in Nat /\ e.size < h.size
      BY <2>1, CutSpan, ContainsOverlaps DEF Retrieved
    <3> QED
      BY <3>1
  <2>2. T \subseteq Nat /\ T # {}
    BY <1>2, <2>1
  <2>3. \E x \in T : \A y \in T : x <= y
    <3> HIDE DEF T
    <3> QED
      BY <2>2, LeastNatural
  <2>4. PICK c \in H : Contains(h, c) /\ \A e \in H : Contains(h, e) => h.size - c.size <= h.size - e.size
    BY <2>3
  <2> DEFINE m == MinimalParent(H, c)
  <2>5. m \in H /\ Contains(m, c) /\ (h = m \/ Contains(h, m))
    BY <2>4, MinimalParentNests
  <2>6. ~ Contains(h, m)
    <3>1. h.size \in Nat /\ c.size \in Nat /\ m.size \in Nat /\ c.size < m.size
      BY <2>5, CutSpan, ContainsOverlaps DEF Retrieved
    <3>2. Contains(h, m) => h.size - c.size <= h.size - m.size
      BY <2>4, <2>5
    <3> HIDE DEF m
    <3> QED
      BY <3>1, <3>2
  <2> QED
    BY <2>5, <2>6
<1> QED
  BY <1>1, <1>2 DEF Leaves

(* The grid is finite, so no size is largest for nothing.                  *)
LEMMA SizesBounded == \E M \in Nat : \A z \in Sizes : z <= M
<1>1. PICK seq \in Seq(Sizes) : \A z \in Sizes : \E n \in 1 .. Len(seq) : seq[n] = z
  BY GridAssumption DEF IsFiniteSet
<1> DEFINE N == Len(seq)
<1>2. N \in Nat
  OBVIOUS
<1>3. \A n \in 1 .. N : seq[n] \in Nat
  <2>1. \A n \in 1 .. N : seq[n] \in Sizes
    OBVIOUS
  <2> QED
    BY <2>1, GridAssumption
<1> HIDE DEF N
<1> DEFINE G == {n \in 0 .. N : \E M \in Nat : \A k \in 1 .. n : seq[k] <= M}
<1>4. 0 \in G
  BY <1>2
<1>5. ASSUME NEW n \in 1 .. N, n - 1 \in G PROVE n \in G
  <2>1. PICK M \in Nat : \A k \in 1 .. (n - 1) : seq[k] <= M
    BY <1>5
  <2>2. seq[n] \in Nat /\ n \in 0 .. N
    BY <1>2, <1>3
  <2>3. PICK L \in Nat : M <= L /\ seq[n] <= L
    <3>1. CASE M <= seq[n]
      BY <2>2, <3>1
    <3>2. CASE seq[n] <= M
      BY <3>2
    <3> QED
      BY <2>2, <3>1, <3>2
  <2>4. ASSUME NEW k \in 1 .. n PROVE seq[k] <= L
    <3>1. CASE k = n
      BY <2>3, <3>1
    <3>2. CASE k # n
      <4>1. k \in 1 .. (n - 1) /\ k \in 1 .. N
        BY <1>2, <3>2
      <4> QED
        BY <1>3, <2>1, <2>3, <4>1
    <3> QED
      BY <3>1, <3>2
  <2> QED
    BY <2>2, <2>4
<1>6. N \in G
  <2>1. 0 .. N \subseteq G
    <3> HIDE DEF G
    <3> QED
      BY <1>2, <1>4, <1>5, SetInduction
  <2>2. N \in 0 .. N
    BY <1>2
  <2> HIDE DEF G
  <2> QED
    BY <2>1, <2>2
<1>7. PICK M \in Nat : \A k \in 1 .. N : seq[k] <= M
  BY <1>6
<1>8. \A z \in Sizes : \E n \in 1 .. N : seq[n] = z
  BY <1>1 DEF N
<1> QED
  BY <1>7, <1>8

(* The chain of minimal parents above a hit is everything that contains    *)
(* it: the recursion has that one solution, because a second one would     *)
(* differ at a largest hit, whose minimal parent is larger.                *)
LEMMA AncestorsFound ==
    ASSUME NEW H, Retrieved(H), OneText(H), NEW h \in H
    PROVE  RetrievedAncestors(H, h) = {p \in H : Contains(p, h)}
<1> DEFINE Body(f) == [c \in H |-> LET p == MinimalParent(H, c)
                                   IN  IF p = None THEN {} ELSE {p} \cup f[p]]
           F == [c \in H |-> {p \in H : Contains(p, c)}]
<1>1. F = Body(F)
  <2> SUFFICES ASSUME NEW c \in H PROVE F[c] = Body(F)[c]
    OBVIOUS
  <2> DEFINE m == MinimalParent(H, c)
  <2>1. CASE m = None
    BY <2>1, MinimalParentNests DEF Retrieved
  <2>2. CASE m # None
    <3>1. /\ m \in H /\ Contains(m, c)
          /\ \A p \in H : Contains(p, c) => p = m \/ Contains(p, m)
      BY <2>2, MinimalParentNests
    <3>2. \A p \in H : Contains(p, m) => Contains(p, c)
      BY <3>1, ContainsTransitive
    <3>3. Body(F)[c] = {m} \cup {p \in H : Contains(p, m)}
      BY <2>2, <3>1
    <3> HIDE DEF m
    <3> QED
      BY <3>1, <3>2, <3>3
  <2> QED
    BY <2>1, <2>2
<1>2. ASSUME NEW f, f = Body(f) PROVE f = F
  <2> SUFFICES ASSUME NEW d \in H, f[d] # F[d] PROVE FALSE
    BY <1>2
  <2>1. PICK M \in Nat : \A z \in Sizes : z <= M
    BY SizesBounded
  <2> DEFINE D == {c \in H : f[c] # F[c]}
             T == {M - c.size : c \in D}
  <2>2. \A c \in H : c.size \in Nat /\ c.size <= M
    BY <2>1, CutSpan DEF Retrieved
  <2>3. T \subseteq Nat /\ T # {}
    <3>1. \A c \in D : M - c.size \in Nat
      BY <2>2
    <3>2. d \in D
      OBVIOUS
    <3> HIDE DEF D
    <3> QED
      BY <3>1, <3>2
  <2>4. \E x \in T : \A y \in T : x <= y
    <3> HIDE DEF T
    <3> QED
      BY <2>3, LeastNatural
  <2>5. PICK c \in D : \A e \in D : M - c.size <= M - e.size
    BY <2>4
  <2> DEFINE m == MinimalParent(H, c)
  <2>6. c \in H /\ f[c] # F[c] /\ f[c] = Body(f)[c] /\ F[c] = Body(F)[c]
    BY <1>1, <1>2
  <2>7. m # None
    BY <2>6
  <2>8. m \in H /\ Contains(m, c)
    BY <2>6, <2>7, MinimalParentNests
  <2>9. f[c] = {m} \cup f[m] /\ F[c] = {m} \cup F[m]
    BY <2>6, <2>7
  <2>10. f[m] # F[m]
    <3> HIDE DEF F, m
    <3> QED
      BY <2>6, <2>9
  <2>11. m \in D
    BY <2>8, <2>10
  <2>12. M - c.size <= M - m.size
    BY <2>5, <2>11
  <2>13. c.size < m.size /\ c.size \in Nat /\ m.size \in Nat
    BY <2>2, <2>6, <2>8, ContainsOverlaps DEF Retrieved
  <2> HIDE DEF m
  <2> QED
    BY <2>12, <2>13
<1> DEFINE S == CHOOSE f : f = Body(f)
<1>3. S = Body(S)
  BY <1>1
<1>4. S = F
  BY <1>2, <1>3
<1>5. RetrievedAncestors(H, h) = S[h]
  BY DEF RetrievedAncestors
<1> QED
  BY <1>4, <1>5

-----------------------------------------------------------------------------
(* What the slicer cuts.                                                   *)

(* A sequence is one over its own members.                                 *)
LEMMA SequenceOfItsMembers ==
    ASSUME NEW S, NEW t \in Seq(S)
    PROVE  t \in Seq({t[k] : k \in DOMAIN t})
<1>1. Len(t) \in Nat /\ DOMAIN t = 1 .. Len(t) /\ t = [k \in 1 .. Len(t) |-> t[k]]
  OBVIOUS
<1> DEFINE U == {t[k] : k \in DOMAIN t}
           n == Len(t)
<1>2. \A k \in 1 .. n : t[k] \in U
  BY <1>1
<1>3. t = [k \in 1 .. n |-> t[k]] /\ n \in Nat
  BY <1>1
<1> HIDE DEF U, n
<1>4. [k \in 1 .. n |-> t[k]] \in Seq(U)
  BY <1>2, <1>3, IsASeq
<1> QED
  BY <1>3, <1>4 DEF U

(* The passage cut at o: its end and its length.                           *)
LEMMA PassageIs ==
    ASSUME NEW S, NEW T \in Seq(S), NEW o \in Nat, o < Len(T), NEW z \in Nat \ {0},
           NEW e, e = ClippedEnd(o, z, Len(T))
    PROVE  /\ e \in Nat /\ o < e /\ e <= Len(T) /\ e <= o + z /\ (e = o + z \/ e = Len(T))
           /\ Passage(T, o, z) \in Seq(S) /\ Len(Passage(T, o, z)) = e - o
<1>1. Len(T) \in Nat
  OBVIOUS
<1>2. e \in Nat /\ o < e /\ e <= Len(T) /\ e <= o + z /\ (e = o + z \/ e = Len(T))
  BY <1>1 DEF ClippedEnd
<1>3. Passage(T, o, z) = SubSeq(T, o + 1, e)
  BY DEF Passage
<1>4. SubSeq(T, o + 1, e) \in Seq(S) /\ Len(SubSeq(T, o + 1, e)) = e - o
  BY <1>2, PieceOf
<1> QED
  BY <1>2, <1>3, <1>4

(* And its code points.                                                    *)
LEMMA PassageShows ==
    ASSUME NEW S, NEW T \in Seq(S), NEW o \in Nat, o < Len(T), NEW z \in Nat \ {0},
           NEW i \in 1 .. Len(Passage(T, o, z))
    PROVE  Passage(T, o, z)[i] = T[o + i]
<1> DEFINE e == ClippedEnd(o, z, Len(T))
<1>1. /\ e \in Nat /\ o < e /\ e <= Len(T) /\ Len(Passage(T, o, z)) = e - o
  BY PassageIs
<1>2. Passage(T, o, z) = SubSeq(T, o + 1, e)
  BY DEF Passage
<1> HIDE DEF e
<1>3. \A k \in 1 .. (e - o) : SubSeq(T, o + 1, e)[k] = T[o + k]
  BY <1>1, PieceOf
<1> QED
  BY <1>1, <1>2, <1>3

(* A passage of a slice's text, at its place in the document.              *)
LEMMA PassageMoved ==
    ASSUME NEW S, NEW T \in Seq(S), NEW z \in Sizes, NEW o \in Nat, o < Len(T),
           NEW y \in Sizes, y < z,
           NEW w \in Nat, w < Len(Passage(T, o, z)), w % y = 0
    PROVE  Passage(T, o + w, y) = Passage(Passage(T, o, z), w, y)
<1> DEFINE N == Len(T)
           P == Passage(T, o, z)
           M == Len(P)
           e == ClippedEnd(o, z, N)
           f == ClippedEnd(o + w, y, N)
           g == ClippedEnd(w, y, M)
           Q == Passage(P, w, y)
<1>1. y \in Nat \ {0} /\ z \in Nat \ {0} /\ z % y = 0 /\ N \in Nat
  BY SizesDivide
<1>2. /\ e \in Nat /\ o < e /\ e <= N /\ e <= o + z /\ (e = o + z \/ e = N)
      /\ P \in Seq(S) /\ M = e - o /\ \A i \in 1 .. M : P[i] = T[o + i]
  <2>1. /\ e \in Nat /\ o < e /\ e <= N /\ e <= o + z /\ (e = o + z \/ e = N)
        /\ P \in Seq(S) /\ M = e - o
    BY <1>1, PassageIs
  <2>2. ASSUME NEW i \in 1 .. Len(P) PROVE P[i] = T[o + i]
    BY <1>1, PassageShows
  <2> HIDE DEF P, e
  <2> QED
    BY <2>1, <2>2
<1>3. /\ g \in Nat /\ w < g /\ g <= M /\ Q \in Seq(S) /\ Len(Q) = g - w
      /\ \A i \in 1 .. (g - w) : Q[i] = P[w + i]
  <2> HIDE DEF P
  <2>1. w < Len(P) /\ P \in Seq(S)
    BY <1>2 DEF P
  <2>2. g \in Nat /\ w < g /\ g <= M /\ Q \in Seq(S) /\ Len(Q) = g - w
    BY <1>1, <2>1, PassageIs
  <2>3. ASSUME NEW i \in 1 .. Len(Q) PROVE Q[i] = P[w + i]
    <3>1. w \in Nat /\ y \in Nat \ {0} /\ w < Len(P) /\ P \in Seq(S) /\ i \in 1 .. Len(Passage(P, w, y))
      BY <1>1, <2>1
    <3>2. Passage(P, w, y)[i] = P[w + i]
      BY ONLY <3>1, PassageShows
    <3> QED
      BY <3>2
  <2> HIDE DEF Q, g, M
  <2> QED
    BY <2>2, <2>3
<1>4. f = o + g
  <2>1. w + y < M => g = w + y /\ f = o + w + y
    BY <1>1, <1>2 DEF ClippedEnd
  <2>2. ~ (w + y < M) => g = M /\ M = e - o
    BY <1>1, <1>2 DEF ClippedEnd
  <2>3. ASSUME ~ (w + y < M) PROVE f = e
    <3>1. CASE e = N
      BY <1>1, <1>2, <2>3, <3>1 DEF ClippedEnd
    <3>2. CASE e = o + z /\ e < N
      <4>1. w + y <= z
        <5>1. w < z
          BY <1>1, <1>2, <3>2
        <5> QED
          BY <1>1, <5>1, MultiplesApart
      <4>2. w + y = z
        BY <1>1, <1>2, <2>3, <3>2, <4>1
      <4> QED
        BY <1>1, <3>2, <4>2 DEF ClippedEnd
    <3> QED
      BY <1>1, <1>2, <3>1, <3>2
  <2> HIDE DEF e, f, g, M, N, P
  <2> QED
    BY <1>1, <1>2, <2>1, <2>2, <2>3
<1>5. \A i \in 1 .. Len(Q) : T[(o + w) + i] = Q[i]
  <2> SUFFICES ASSUME NEW i \in 1 .. Len(Q) PROVE T[(o + w) + i] = Q[i]
    OBVIOUS
  <2>1. i \in 1 .. (g - w) /\ w + i \in 1 .. M /\ o + (w + i) = (o + w) + i
    <3> HIDE DEF Q, g, M
    <3> QED
      BY <1>1, <1>2, <1>3
  <2> HIDE DEF Q, g, M, P
  <2> QED
    BY <1>2, <1>3, <2>1
<1>6. Passage(T, o + w, y) = SubSeq(T, (o + w) + 1, f)
  BY DEF Passage
<1>7. o + w \in Nat /\ f \in Nat /\ o + w <= f /\ f <= N /\ f - (o + w) = Len(Q) /\ Q \in Seq(S)
  <2> HIDE DEF e, f, g, M, N, P, Q
  <2> QED
    BY <1>1, <1>2, <1>3, <1>4
<1>8. SubSeq(T, (o + w) + 1, f) = Q
  <2> HIDE DEF f, Q
  <2> QED
    BY <1>5, <1>7, SamePiece
<1> QED
  BY <1>6, <1>8

(* What a slice lists as its descendants is what slicing its text lists.   *)
LEMMA DescendantsMoved ==
    ASSUME NEW S, NEW T \in Seq(S), NEW z \in Sizes, NEW o \in Nat, o < Len(T)
    PROVE  Descendants(T, o, z) = Descendants(Passage(T, o, z), 0, z)
<1> DEFINE N == Len(T)
           P == Passage(T, o, z)
           e == ClippedEnd(o, z, N)
           M == Len(P)
<1>1. z \in Nat \ {0} /\ e \in Nat /\ o < e /\ e <= o + z /\ M = e - o
  <2>1. z \in Nat \ {0}
    BY GridAssumption
  <2> QED
    BY <2>1, PassageIs
<1>2. ClippedEnd(0, z, M) = M
  <2> HIDE DEF M, e
  <2> QED
    BY <1>1 DEF ClippedEnd
<1>3. ASSUME NEW y \in LevelsBelow(z)
      PROVE  {Passage(T, x, y) : x \in Offsets(o, e, y)} = {Passage(P, w, y) : w \in Offsets(0, M, y)}
  <2>1. y \in Sizes /\ y < z /\ y \in Nat \ {0}
    BY GridAssumption DEF LevelsBelow
  <2>2. ASSUME NEW w \in Offsets(0, M, y)
        PROVE  o + w \in Offsets(o, e, y) /\ Passage(T, o + w, y) = Passage(P, w, y)
    <3>1. w \in Nat /\ w < M /\ w % y = 0 /\ o + w \in o .. (e - 1) /\ (o + w) - o = w
      <4> HIDE DEF M, e
      <4> QED
        BY <1>1 DEF Offsets
    <3> QED
      BY <2>1, <3>1, PassageMoved DEF Offsets
  <2>3. ASSUME NEW x \in Offsets(o, e, y)
        PROVE  x - o \in Offsets(0, M, y) /\ x = o + (x - o)
    <3> HIDE DEF M, e
    <3> QED
      BY <1>1 DEF Offsets
  <2> HIDE DEF M, e, P
  <2> QED
    BY <2>2, <2>3
<1> HIDE DEF M, P, e
<1>4. Descendants(T, o, z) = UNION {{Passage(T, x, y) : x \in Offsets(o, e, y)} : y \in LevelsBelow(z)}
  BY DEF Descendants, e
<1>5. Descendants(P, 0, z) = UNION {{Passage(P, w, y) : w \in Offsets(0, M, y)} : y \in LevelsBelow(z)}
  BY <1>2 DEF Descendants, M
<1>6. Descendants(T, o, z) = Descendants(P, 0, z)
  <2> DEFINE A(y) == {Passage(T, x, y) : x \in Offsets(o, e, y)}
             B(y) == {Passage(P, w, y) : w \in Offsets(0, M, y)}
  <2>1. \A y \in LevelsBelow(z) : A(y) = B(y)
    BY <1>3
  <2>2. /\ Descendants(T, o, z) = UNION {A(y) : y \in LevelsBelow(z)}
        /\ Descendants(P, 0, z) = UNION {B(y) : y \in LevelsBelow(z)}
    BY <1>4, <1>5
  <2> HIDE DEF A, B
  <2>3. {A(y) : y \in LevelsBelow(z)} = {B(y) : y \in LevelsBelow(z)}
    BY <2>1
  <2> QED
    BY <2>2, <2>3
<1> QED
  BY <1>6 DEF P

(* A slice of the text T is cut as IsCut has it, ends where it is clipped  *)
(* and shows the code points of its place.                                 *)
LEMMA SliceIsCut ==
    ASSUME NEW S, NEW T \in Seq(S), NEW doc, NEW z \in Sizes, NEW o \in Offsets(0, Len(T), z),
           NEW s, s = SliceAt(doc, T, o, z)
    PROVE  /\ IsCut(s) /\ s.doc = doc /\ s.size = z /\ s.off = o /\ s.doclen = Len(T)
           /\ EndOf(s) = ClippedEnd(o, z, Len(T)) /\ s.text = Passage(T, o, z)
           /\ s.desc = Descendants(T, o, z)
           /\ \A k \in (o + 1) .. EndOf(s) : s.text[k - o] = T[k]
<1> DEFINE e == ClippedEnd(o, z, Len(T))
           P == Passage(T, o, z)
<1>1. z \in Nat \ {0} /\ o \in Nat /\ o < Len(T) /\ o % z = 0 /\ Len(T) \in Nat
  <2>1. z \in Nat \ {0} /\ Len(T) \in Nat
    BY GridAssumption
  <2> QED
    BY <2>1 DEF Offsets
<1>2. /\ s.doc = doc /\ s.size = z /\ s.off = o /\ s.doclen = Len(T) /\ s.text = P
      /\ s.desc = Descendants(T, o, z)
  BY DEF SliceAt
<1>3. e \in Nat /\ o < e /\ P \in Seq(S) /\ Len(P) = e - o /\ \A i \in 1 .. (e - o) : P[i] = T[o + i]
  <2>1. e \in Nat /\ o < e /\ P \in Seq(S) /\ Len(P) = e - o
    BY <1>1, PassageIs
  <2>2. ASSUME NEW i \in 1 .. Len(P) PROVE P[i] = T[o + i]
    BY <1>1, PassageShows
  <2> HIDE DEF P, e
  <2> QED
    BY <2>1, <2>2
<1>4. EndOf(s) = e
  <2> HIDE DEF e, P
  <2> QED
    BY <1>1, <1>2, <1>3 DEF EndOf
<1>5. s.text \in Seq({s.text[k] : k \in DOMAIN s.text})
  <2> HIDE DEF P
  <2> QED
    BY <1>2, <1>3, SequenceOfItsMembers
<1>6. s.desc = Descendants(s.text, 0, s.size)
  BY <1>1, <1>2, DescendantsMoved
<1>7. \A k \in (o + 1) .. e : P[k - o] = T[k]
  <2> SUFFICES ASSUME NEW k \in (o + 1) .. e PROVE P[k - o] = T[k]
    OBVIOUS
  <2>1. k - o \in 1 .. (e - o) /\ o + (k - o) = k
    <3> HIDE DEF e
    <3> QED
      BY <1>1, <1>3
  <2> HIDE DEF e, P
  <2> QED
    BY <1>3, <2>1
<1>8. IsCut(s)
  BY <1>1, <1>2, <1>4, <1>5, <1>6 DEF IsCut, OnGrid
<1> QED
  BY <1>2, <1>4, <1>7, <1>8

-----------------------------------------------------------------------------
(* What a trace says of the shape of a forest of one generation.           *)

(* No positional parent is passed over: there is nothing to report.        *)
LEMMA NothingPassed ==
    ASSUME NEW H, Retrieved(H), OneText(H)
    PROVE  Anomalies(H) = {}
<1>1. ASSUME NEW c \in H PROVE Passed(H, c) = {}
  <2>1. \A p \in GridParents(H, c) : Vouches(p, c)
    BY GridParentsContain DEF Contains
  <2> QED
    BY <2>1 DEF Passed
<1>2. \A c \in H : {[parent |-> Ref(p), child |-> Ref(c)] : p \in Passed(H, c)} = {}
  BY <1>1
<1> QED
  BY <1>2 DEF Anomalies

(* The edges of the closure are the pairs of hits of which one contains    *)
(* the other.                                                              *)
LEMMA ClosureIsNesting ==
    ASSUME NEW H, Retrieved(H), OneText(H)
    PROVE  Edges(H, TRUE) =
               {[parent |-> Ref(e[1]), child |-> Ref(e[2])] :
                   e \in {f \in H \X H : Contains(f[1], f[2])}}
<1> DEFINE R == {[parent |-> Ref(e[1]), child |-> Ref(e[2])] :
                    e \in {f \in H \X H : Contains(f[1], f[2])}}
           B(c) == {[parent |-> Ref(p), child |-> Ref(c)] : p \in RetrievedAncestors(H, c)}
<1>1. Edges(H, TRUE) = UNION {B(c) : c \in H}
  BY DEF Edges
<1>2. ASSUME NEW c \in H, NEW x \in B(c) PROVE x \in R
  <2>1. PICK p \in RetrievedAncestors(H, c) : x = [parent |-> Ref(p), child |-> Ref(c)]
    OBVIOUS
  <2>2. p \in H /\ Contains(p, c)
    BY AncestorsFound
  <2> DEFINE e == <<p, c>>
  <2>3. e \in {f \in H \X H : Contains(f[1], f[2])} /\ x = [parent |-> Ref(e[1]), child |-> Ref(e[2])]
    BY <2>1, <2>2
  <2> HIDE DEF e
  <2> QED
    BY <2>3
<1>3. ASSUME NEW x \in R PROVE \E c \in H : x \in B(c)
  <2>1. PICK e \in H \X H : Contains(e[1], e[2]) /\ x = [parent |-> Ref(e[1]), child |-> Ref(e[2])]
    OBVIOUS
  <2>2. e[1] \in H /\ e[2] \in H /\ e[1] \in RetrievedAncestors(H, e[2])
    BY <2>1, AncestorsFound
  <2> QED
    BY <2>1, <2>2
<1> HIDE DEF B, R
<1>4. UNION {B(c) : c \in H} = R
  BY <1>2, <1>3
<1> QED
  BY <1>1, <1>4 DEF R

(* Without the closure, each child still names only what contains it.      *)
LEMMA MinimalEdgesInClosure ==
    ASSUME NEW H, Retrieved(H), OneText(H)
    PROVE  Edges(H, FALSE) \subseteq Edges(H, TRUE)
<1> DEFINE A(c) == {[parent |-> Ref(p), child |-> Ref(c)] : p \in {MinimalParent(H, c)} \ {None}}
           B(c) == {[parent |-> Ref(p), child |-> Ref(c)] : p \in RetrievedAncestors(H, c)}
<1>1. Edges(H, TRUE) = UNION {B(c) : c \in H} /\ Edges(H, FALSE) = UNION {A(c) : c \in H}
  BY DEF Edges
<1>2. ASSUME NEW c \in H PROVE A(c) \subseteq B(c)
  <2>1. {MinimalParent(H, c)} \ {None} \subseteq RetrievedAncestors(H, c)
    BY MinimalParentNests, AncestorsFound
  <2> QED
    BY <2>1
<1> HIDE DEF A, B
<1> QED
  BY <1>1, <1>2

(* The hits that take part in nesting.                                     *)
LEMMA ParticipantsFound ==
    ASSUME NEW H, Retrieved(H), OneText(H)
    PROVE  Participating(H) = {h \in H : \E g \in H : Contains(g, h) \/ Contains(h, g)}
<1>1. ASSUME NEW h \in H PROVE h \notin Roots(H) <=> \E g \in H : Contains(g, h)
  BY MinimalParentNests DEF Roots
<1>2. ASSUME NEW h \in H PROVE h \notin Leaves(H) <=> \E g \in H : Contains(h, g)
  BY LeavesFound
<1> QED
  BY <1>1, <1>2 DEF Participating

(* Some hit has a longest chain of parents, and that length is reported.   *)
LEMMA DepthReached ==
    ASSUME NEW H, IsFiniteSet(H), Retrieved(H), OneText(H), H # {}
    PROVE  /\ \E h \in H : MaxDepth(H) = 1 + Cardinality(RetrievedAncestors(H, h))
           /\ \A h \in H : 1 + Cardinality(RetrievedAncestors(H, h)) <= MaxDepth(H)
           /\ MaxDepth(H) \in Nat
<1> DEFINE d(h) == 1 + Cardinality(RetrievedAncestors(H, h))
           N == Cardinality(H)
<1>1. N \in Nat
  BY FS_CardinalityType
<1>2. ASSUME NEW h \in H PROVE d(h) \in 1 .. N
  <2> DEFINE A == RetrievedAncestors(H, h)
  <2>1. A \subseteq H /\ h \notin A
    <3>1. ~ Contains(h, h)
      BY CutSpan DEF Contains, PositionallyNests, Retrieved
    <3> QED
      BY <3>1, AncestorsFound
  <2>2. IsFiniteSet(A) /\ Cardinality(A) \in Nat
    BY <2>1, FS_Subset, FS_CardinalityType
  <2>3. Cardinality(A \cup {h}) = Cardinality(A) + 1
    <3> HIDE DEF A
    <3> QED
      BY <2>1, <2>2, FS_AddElement
  <2>4. Cardinality(A \cup {h}) <= N
    <3>1. A \cup {h} \in SUBSET H
      BY <2>1
    <3> HIDE DEF A
    <3> QED
      BY <3>1, FS_Subset
  <2> HIDE DEF A, N
  <2>5. Cardinality(A) + 1 \in 1 .. N
    BY <1>1, <2>2, <2>3, <2>4
  <2>6. 1 + Cardinality(A) = Cardinality(A) + 1
    BY <2>2
  <2> QED
    BY <2>5, <2>6 DEF A
<1> HIDE DEF d, N
<1> DEFINE T == {N - d(h) : h \in H}
<1>3. T \subseteq Nat /\ T # {}
  BY <1>1, <1>2
<1>4. \E x \in T : \A y \in T : x <= y
  <2> HIDE DEF T
  <2> QED
    BY <1>3, LeastNatural
<1>5. PICK t \in H : \A h \in H : N - d(t) <= N - d(h)
  BY <1>4
<1>6. \A h \in H : d(h) <= d(t)
  BY <1>1, <1>2, <1>5
<1>7. d(t) \in 1 .. N
  BY <1>2
<1> DEFINE P(n) == (\E h \in H : n = d(h)) /\ \A h \in H : d(h) <= n
           n0 == CHOOSE n \in 1 .. N : P(n)
<1>8. n0 \in 1 .. N /\ P(n0)
  <2>1. \E n \in 1 .. N : P(n)
    BY <1>6, <1>7
  <2> HIDE DEF P
  <2> QED
    BY <2>1
<1>9. MaxDepth(H) = n0
  BY DEF MaxDepth, d, N
<1> QED
  BY <1>1, <1>8, <1>9 DEF d

(* A set of hits any two of which nest.                                    *)
Chain(C) == \A g, h \in C : g = h \/ Contains(g, h) \/ Contains(h, g)

(* The reported depth is the length of a chain of nested hits, and no      *)
(* chain is longer.                                                        *)
LEMMA DepthIsLongestChain ==
    ASSUME NEW H, IsFiniteSet(H), Retrieved(H), OneText(H)
    PROVE  /\ \E C \in SUBSET H : Chain(C) /\ Cardinality(C) = MaxDepth(H)
           /\ \A C \in SUBSET H : Chain(C) => Cardinality(C) <= MaxDepth(H)
<1>1. CASE H = {}
  <2>1. MaxDepth(H) = 0 /\ Cardinality({}) = 0
    BY <1>1, FS_EmptySet DEF MaxDepth
  <2>2. Chain({}) /\ {} \in SUBSET H
    BY DEF Chain
  <2> QED
    BY <1>1, <2>1, <2>2
<1>2. CASE H # {}
  <2>1. ASSUME NEW h \in H
        PROVE  /\ {h} \cup RetrievedAncestors(H, h) \in SUBSET H
               /\ Chain({h} \cup RetrievedAncestors(H, h))
               /\ Cardinality({h} \cup RetrievedAncestors(H, h)) = 1 + Cardinality(RetrievedAncestors(H, h))
    <3> DEFINE A == RetrievedAncestors(H, h)
    <3>1. A = {p \in H : Contains(p, h)} /\ h \notin A
      <4>1. ~ Contains(h, h)
        BY CutSpan DEF Contains, PositionallyNests, Retrieved
      <4> QED
        BY <4>1, AncestorsFound
    <3>2. IsFiniteSet(A) /\ Cardinality(A) \in Nat
      BY <3>1, FS_Subset, FS_CardinalityType
    <3> HIDE DEF A
    <3>3. Cardinality({h} \cup A) = 1 + Cardinality(A)
      <4>1. Cardinality(A \cup {h}) = Cardinality(A) + 1
        BY <3>1, <3>2, FS_AddElement
      <4>2. A \cup {h} = {h} \cup A
        OBVIOUS
      <4>3. Cardinality({h} \cup A) = Cardinality(A) + 1
        BY <4>1, <4>2, Zenon
      <4> QED
        BY <3>2, <4>3
    <3>4. Chain({h} \cup A)
      BY <3>1, ContainersNest DEF Chain
    <3> QED
      BY <3>1, <3>3, <3>4 DEF A
  <2>2. \E C \in SUBSET H : Chain(C) /\ Cardinality(C) = MaxDepth(H)
    BY <1>2, <2>1, DepthReached
  <2>3. ASSUME NEW C \in SUBSET H, Chain(C) PROVE Cardinality(C) <= MaxDepth(H)
    <3>1. CASE C = {}
      BY <1>2, <3>1, FS_EmptySet, DepthReached
    <3>2. CASE C # {}
      <4>1. PICK h \in C : \A q \in C : h.size <= q.size
        <5>1. \A q \in C : q.size \in Nat
          BY CutSpan DEF Retrieved
        <5> QED
          BY <3>2, <5>1, SmallestSlice
      <4> DEFINE A == RetrievedAncestors(H, h)
      <4>2. C \subseteq {h} \cup A
        <5> SUFFICES ASSUME NEW g \in C, g # h PROVE g \in A
          OBVIOUS
        <5>1. ~ Contains(h, g)
          <6>1. h.size \in Nat /\ g.size \in Nat /\ h.size <= g.size
            BY <4>1, CutSpan DEF Retrieved
          <6> QED
            BY <6>1 DEF Contains, PositionallyNests
        <5>2. Contains(g, h)
          BY <2>3, <5>1 DEF Chain
        <5> QED
          BY <5>2, AncestorsFound
      <4>3. Cardinality(C) <= Cardinality({h} \cup A)
        <5>1. IsFiniteSet({h} \cup A)
          BY <2>1, FS_Subset
        <5> HIDE DEF A
        <5> QED
          BY <4>2, <5>1, FS_Subset
      <4>4. Cardinality({h} \cup A) = 1 + Cardinality(A) /\ 1 + Cardinality(A) <= MaxDepth(H)
        BY <1>2, <2>1, DepthReached
      <4>5. Cardinality(C) \in Nat /\ Cardinality({h} \cup A) \in Nat /\ MaxDepth(H) \in Nat
        <5>1. IsFiniteSet({h} \cup A) /\ IsFiniteSet(C)
          BY <2>1, FS_Subset
        <5>2. MaxDepth(H) \in Nat
          BY <1>2, DepthReached
        <5> HIDE DEF A
        <5>3. Cardinality(C) \in Nat
          BY <5>1, FS_CardinalityType
        <5>4. Cardinality({h} \cup A) \in Nat
          BY <5>1, FS_CardinalityType
        <5> QED
          BY <5>2, <5>3, <5>4
      <4> HIDE DEF A
      <4> QED
        BY <4>3, <4>4, <4>5
    <3> QED
      BY <3>1, <3>2
  <2> QED
    BY <2>2, <2>3
<1> QED
  BY <1>1, <1>2
=============================================================================
