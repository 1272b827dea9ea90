--------------------------- MODULE MCForestProofs ---------------------------
(***************************************************************************)
(* What the runs of MCForest check of small documents, for every grid,     *)
(* every token counter, every choice of texts and any number of hits.      *)
(***************************************************************************)
EXTENDS MCForest, ForestProofs, TLAPS

(* What a search has returned so far: slices of one query's generations,   *)
(* no two in one place.                                                    *)
HitsInv ==
    /\ stored \in Generations
    /\ hits \subseteq View
    /\ IsFiniteSet(hits)
    /\ \A g, h \in hits : Ref(g) = Ref(h) => g = h

(* Hits are slices of the stored texts, no two with one ref.               *)
THEOREM HitsStored == Spec => []HitsInv
<1>1. Init => HitsInv
  BY FS_EmptySet DEF Init, HitsInv
<1>2. HitsInv /\ [Next]_vars => HitsInv'
  <2>1. ASSUME HitsInv, Next PROVE HitsInv'
    <3>1. PICK s \in View : Return(s)
      BY <2>1 DEF Next
    <3>2. stored' = stored /\ View' = View /\ hits' = hits \cup {s} /\ \A h \in hits : Ref(h) # Ref(s)
      BY <3>1 DEF Return, View
    <3>3. IsFiniteSet(hits')
      BY <2>1, <3>2, FS_AddElement DEF HitsInv
    <3>4. \A g, h \in hits' : Ref(g) = Ref(h) => g = h
      BY <2>1, <3>2 DEF HitsInv
    <3> QED
      BY <2>1, <3>2, <3>3, <3>4 DEF HitsInv
  <2>2. ASSUME HitsInv, UNCHANGED vars PROVE HitsInv'
    BY <2>2 DEF HitsInv, vars, View
  <2> QED
    BY <2>1, <2>2
<1> QED
  BY <1>1, <1>2, PTL DEF Spec

-----------------------------------------------------------------------------
(* A slice of the view is cut from one of the stored texts.                *)
LEMMA ViewIsCut ==
    ASSUME NEW S, NEW t \in Seq(S), NEW s \in MultiView(1, t)
    PROVE  \E z \in Sizes : \E o \in Offsets(0, Len(t), z) : s = SliceAt(1, t, o, z)
<1> DEFINE A(z) == {SliceAt(1, t, o, z) : o \in Offsets(0, Len(t), z)}
<1>1. MultiView(1, t) = UNION {A(z) : z \in Sizes}
  BY DEF MultiView
<1>2. PICK z \in Sizes : s \in A(z)
  <2> HIDE DEF A
  <2> QED
    BY <1>1
<1> QED
  BY <1>2

(* And every such slice is in the view.                                    *)
LEMMA ViewHasAll ==
    ASSUME NEW t, NEW z \in Sizes, NEW o \in Offsets(0, Len(t), z)
    PROVE  SliceAt(1, t, o, z) \in MultiView(1, t)
<1> DEFINE A(y) == {SliceAt(1, t, x, y) : x \in Offsets(0, Len(t), y)}
<1>1. MultiView(1, t) = UNION {A(y) : y \in Sizes}
  BY DEF MultiView
<1>2. SliceAt(1, t, o, z) \in A(z)
  OBVIOUS
<1> HIDE DEF A
<1> QED
  BY <1>1, <1>2

(* The hits are what build works on.                                       *)
LEMMA HitsRetrieved == HitsInv => Retrieved(hits)
<1> SUFFICES ASSUME HitsInv PROVE Retrieved(hits)
  OBVIOUS
<1>1. ASSUME NEW h \in hits PROVE h # None /\ IsCut(h)
  <2>1. PICK t \in stored : h \in MultiView(1, t)
    BY DEF HitsInv, View
  <2>2. t \in Seq({a, b}) /\ h # None
    BY <2>1, GenerationsAssumption DEF HitsInv
  <2>3. PICK z \in Sizes : \E o \in Offsets(0, Len(t), z) : h = SliceAt(1, t, o, z)
    BY <2>1, <2>2, ViewIsCut
  <2> QED
    BY <2>2, <2>3, SliceIsCut
<1> QED
  BY <1>1 DEF Retrieved, HitsInv

(* Where one generation is stored, its text is the only one.               *)
LEMMA OnlyText ==
    ASSUME HitsInv, OneGeneration
    PROVE  stored = {Text} /\ Text \in Seq({a, b}) /\ View = MultiView(1, Text)
<1>1. IsFiniteSet(stored) /\ Cardinality(stored) = 1
  BY GenerationsAssumption DEF HitsInv, OneGeneration
<1>2. PICK t : stored = {t}
  BY <1>1, FS_Singleton
<1>3. Text = t
  BY <1>2 DEF Text
<1>4. t \in Seq({a, b})
  BY <1>2, GenerationsAssumption DEF HitsInv
<1> QED
  BY <1>2, <1>3, <1>4 DEF View

(* Slices of one text show the same code points where they overlap.        *)
LEMMA SlicesAgree ==
    ASSUME NEW S, NEW t \in Seq(S), NEW g \in MultiView(1, t), NEW h \in MultiView(1, t)
    PROVE  Agree(g, h)
<1>1. PICK z \in Sizes : \E o \in Offsets(0, Len(t), z) : g = SliceAt(1, t, o, z)
  BY ViewIsCut
<1>2. PICK y \in Sizes : \E o \in Offsets(0, Len(t), y) : h = SliceAt(1, t, o, y)
  BY ViewIsCut
<1>3. /\ g.doclen = Len(t) /\ IsCut(g)
      /\ \A k \in (g.off + 1) .. EndOf(g) : g.text[k - g.off] = t[k]
  BY <1>1, SliceIsCut
<1>4. /\ h.doclen = Len(t) /\ IsCut(h)
      /\ \A k \in (h.off + 1) .. EndOf(h) : h.text[k - h.off] = t[k]
  BY <1>2, SliceIsCut
<1>5. ASSUME NEW k \in (g.off + 1) .. EndOf(g), h.off < k, k <= EndOf(h)
      PROVE  k \in (h.off + 1) .. EndOf(h)
  <2>1. h.off \in Nat /\ EndOf(h) \in Nat /\ g.off \in Nat /\ EndOf(g) \in Nat
    BY <1>3, <1>4, CutSpan
  <2> QED
    BY <1>5, <2>1
<1> QED
  BY <1>3, <1>4, <1>5 DEF Agree

(* The hits of one generation agree.                                       *)
LEMMA HitsOfOneText == HitsInv /\ OneGeneration => OneText(hits)
<1> SUFFICES ASSUME HitsInv, OneGeneration PROVE OneText(hits)
  OBVIOUS
<1>1. Text \in Seq({a, b}) /\ hits \subseteq MultiView(1, Text)
  BY OnlyText DEF HitsInv
<1> QED
  BY <1>1, SlicesAgree DEF OneText

-----------------------------------------------------------------------------
(* A slice that lists a hit's marker shows its text, one that does not     *)
(* show it does not vouch.                                                 *)
LEMMA VouchedIsShown ==
    ASSUME NEW p, NEW c, IsCut(p), Vouches(p, c) PROVE Shows(p, c)
BY VouchedOccurs DEF Occurs, Shows

(* No stale slice becomes a parent, every one that was met is reported, and *)
(* none hides a container: in every state, whatever generations there are. *)
THEOREM StaleParentsTold == Spec => []StaleParentsAreTold
<1>1. ASSUME HitsInv, NEW h \in hits, NEW parent, parent = MinimalParent(hits, h)
      PROVE  /\ parent # None => Shows(parent, h)
             /\ parent = None => \A p \in hits : ~ Contains(p, h)
             /\ \A p \in hits :
                   PositionallyNests(p, h) /\ ~ Shows(p, h) /\ (parent = None \/ p.size < parent.size)
                       => [parent |-> Ref(p), child |-> Ref(h)] \in Anomalies(hits)
  <2>1. Retrieved(hits) /\ \A p \in hits : IsCut(p)
    BY <1>1, HitsRetrieved DEF Retrieved
  <2>2. \/ parent = None /\ \A p \in GridParents(hits, h) : ~ Vouches(p, h)
        \/ /\ parent \in hits /\ parent # None /\ Vouches(parent, h)
           /\ \A q \in GridParents(hits, h) : Vouches(q, h) => parent.size <= q.size
    BY <1>1, <2>1, MinimalParentFound
  <2>3. parent # None => Shows(parent, h)
    BY <2>1, <2>2, VouchedIsShown
  <2>4. parent = None => \A p \in hits : ~ Contains(p, h)
    BY <1>1, <2>1, RootsUncontained DEF Roots
  <2>5. ASSUME NEW p \in hits, PositionallyNests(p, h), ~ Shows(p, h), parent = None \/ p.size < parent.size
        PROVE  [parent |-> Ref(p), child |-> Ref(h)] \in Anomalies(hits)
    <3>1. ~ Vouches(p, h)
      BY <2>1, <2>5, VouchedIsShown
    <3>2. p \in GridParents(hits, h)
      <4>1. p.off = ParentOffset(h.off, p.size)
        BY <2>1, <2>5, NestedOnGrid
      <4>2. p.size \in LevelsAbove(h.size) /\ p.doc = h.doc
        BY <2>1, <2>5, CutSpan DEF PositionallyNests, LevelsAbove
      <4> QED
        BY <4>1, <4>2 DEF GridParents
    <3>3. ASSUME NEW q \in GridParents(hits, h), Vouches(q, h) PROVE p.size < q.size
      <4>1. parent # None /\ parent \in hits /\ parent.size <= q.size /\ p.size < parent.size
        BY <2>2, <2>5, <3>3
      <4>2. q \in hits
        BY DEF GridParents
      <4>3. p.size \in Nat /\ q.size \in Nat /\ parent.size \in Nat
        BY <2>1, <4>1, <4>2, CutSpan
      <4> QED
        BY <4>1, <4>3
    <3>4. p \in Passed(hits, h)
      BY <3>1, <3>2, <3>3 DEF Passed
    <3> QED
      BY <3>4 DEF Anomalies
  <2> QED
    BY <2>3, <2>4, <2>5
<1>2. HitsInv => StaleParentsAreTold
  BY <1>1 DEF StaleParentsAreTold
<1> QED
  BY <1>2, HitsStored, PTL

(* The linear walk finds the whole nesting of the hits of one generation   *)
(* and reports its density.                                                *)
THEOREM WalkFindsNesting == Spec => []NestingIsFound
<1>1. ASSUME HitsInv, OneGeneration PROVE NestingIsFound
  <2>1. Retrieved(hits) /\ OneText(hits) /\ IsFiniteSet(hits)
    BY <1>1, HitsRetrieved, HitsOfOneText DEF HitsInv
  <2>2. /\ Anomalies(hits) = {}
        /\ Leaves(hits) = {h \in hits : \A c \in hits : ~ Contains(h, c)}
    BY <2>1, NothingPassed, LeavesFound
  <2>3. /\ Edges(hits, TRUE) =
              {[parent |-> Ref(e[1]), child |-> Ref(e[2])] :
                  e \in {f \in hits \X hits : Contains(f[1], f[2])}}
        /\ Edges(hits, FALSE) \subseteq Edges(hits, TRUE)
    BY <2>1, ClosureIsNesting, MinimalEdgesInClosure
  <2>4. Participating(hits) = {h \in hits : \E g \in hits : Contains(g, h) \/ Contains(h, g)}
    BY <2>1, ParticipantsFound
  <2> DEFINE nests == {C \in SUBSET hits : \A g, h \in C : g = h \/ Contains(g, h) \/ Contains(h, g)}
  <2>5. (\E C \in nests : Cardinality(C) = MaxDepth(hits)) /\ \A C \in nests : Cardinality(C) <= MaxDepth(hits)
    BY <2>1, DepthIsLongestChain DEF Chain
  <2> QED
    BY <2>2, <2>3, <2>4, <2>5 DEF NestingIsFound
<1>2. HitsInv => NestingIsFound
  BY <1>1 DEF NestingIsFound
<1> QED
  BY <1>2, HitsStored, PTL

(* At every size of the grid the slices tile the document.                 *)
THEOREM SlicesTile == Spec => []TilesAtEverySize
<1>1. ASSUME HitsInv, Fresh, NEW z \in Sizes, NEW i \in 1 .. Len(Text),
             NEW holders, holders = {s \in View : s.size = z /\ s.off < i /\ i <= EndOf(s)}
      PROVE  Cardinality(holders) = 1 /\ \A s \in holders : s.text[i - s.off] = Text[i]
  <2> DEFINE o == ParentOffset(i - 1, z)
             x == SliceAt(1, Text, o, z)
  <2>1. View = MultiView(1, Text) /\ Text \in Seq({a, b}) /\ Len(Text) \in Nat
    BY <1>1, OnlyText DEF Fresh
  <2>2. z \in Nat \ {0} /\ i \in Nat /\ i - 1 \in Nat /\ i <= Len(Text)
    BY <2>1, GridAssumption
  <2>3. o \in Nat /\ o <= i - 1 /\ i - 1 < o + z /\ o % z = 0
    BY <2>2, ParentOffsetIsMultiple
  <2> HIDE DEF o
  <2>4. o \in Offsets(0, Len(Text), z)
    BY <2>1, <2>2, <2>3 DEF Offsets
  <2>5. /\ x \in View /\ x.size = z /\ x.off = o /\ EndOf(x) = ClippedEnd(o, z, Len(Text))
    BY <2>1, <2>4, ViewHasAll, SliceIsCut
  <2>6. x \in holders
    <3>1. x.off < i /\ i <= EndOf(x)
      BY <2>1, <2>2, <2>3, <2>5 DEF ClippedEnd
    <3> QED
      BY <1>1, <2>5, <3>1
  <2> HIDE DEF x
  <2>7. ASSUME NEW s \in holders PROVE s = x /\ s.text[i - s.off] = Text[i]
    <3>1. s \in MultiView(1, Text) /\ s.size = z /\ s.off < i /\ i <= EndOf(s)
      BY <1>1, <2>1
    <3>2. PICK y \in Sizes : \E w \in Offsets(0, Len(Text), y) : s = SliceAt(1, Text, w, y)
      BY <2>1, <3>1, ViewIsCut
    <3>3. PICK w \in Offsets(0, Len(Text), y) : s = SliceAt(1, Text, w, y)
      BY <3>2
    <3>4. /\ IsCut(s) /\ s.size = y /\ s.off = w
          /\ \A k \in (w + 1) .. EndOf(s) : s.text[k - w] = Text[k]
      BY <2>1, <3>3, SliceIsCut
    <3>5. /\ w \in Nat /\ w % z = 0 /\ EndOf(s) <= w + z /\ EndOf(s) \in Nat
      BY <3>1, <3>4, CutSpan
    <3>6. w = o
      BY <2>2, <3>1, <3>4, <3>5, MultipleBelow DEF o
    <3>7. i \in (w + 1) .. EndOf(s)
      BY <2>2, <3>1, <3>4, <3>5
    <3> QED
      BY <3>1, <3>3, <3>4, <3>6, <3>7 DEF x
  <2>8. holders = {x}
    BY <2>6, <2>7
  <2> QED
    BY <2>7, <2>8, FS_Singleton
<1>2. HitsInv => TilesAtEverySize
  BY <1>1 DEF TilesAtEverySize
<1> QED
  BY <1>2, HitsStored, PTL

(* The markers a slice lists are those of the slices nested in it.         *)
THEOREM DescendantsNest == Spec => []DescendantsAreTheNested
<1>1. ASSUME HitsInv, Fresh, NEW p \in View
      PROVE  p.desc = {Marker(c) : c \in {d \in View : PositionallyNests(p, d)}}
  <2>1. View = MultiView(1, Text) /\ Text \in Seq({a, b}) /\ Len(Text) \in Nat
    BY <1>1, OnlyText DEF Fresh
  <2>2. PICK z \in Sizes : \E o \in Offsets(0, Len(Text), z) : p = SliceAt(1, Text, o, z)
    BY <2>1, ViewIsCut
  <2>3. PICK o \in Offsets(0, Len(Text), z) : p = SliceAt(1, Text, o, z)
    BY <2>2
  <2> DEFINE e == ClippedEnd(o, z, Len(Text))
             D(y) == {Passage(Text, x, y) : x \in Offsets(o, e, y)}
             R == {Marker(c) : c \in {d \in View : PositionallyNests(p, d)}}
  <2>4. /\ IsCut(p) /\ p.doc = 1 /\ p.size = z /\ p.off = o /\ p.doclen = Len(Text)
        /\ EndOf(p) = e /\ p.desc = Descendants(Text, o, z)
    BY <2>1, <2>3, SliceIsCut
  <2>5. /\ z \in Nat \ {0} /\ o \in Nat /\ o % z = 0 /\ e \in Nat /\ o < e /\ e <= Len(Text)
    BY <2>4, CutSpan
  <2>6. p.desc = UNION {D(y) : y \in LevelsBelow(z)}
    BY <2>4 DEF Descendants
  <2>7. ASSUME NEW y \in LevelsBelow(z), NEW m \in D(y) PROVE m \in R
    <3>1. PICK x \in Offsets(o, e, y) : m = Passage(Text, x, y)
      OBVIOUS
    <3>2. y \in Sizes /\ y < z /\ y \in Nat \ {0} /\ o % y = 0
      BY <2>5, SizesDivide DEF LevelsBelow
    <3> HIDE DEF e
    <3>3. x \in Nat /\ o <= x /\ x < e /\ (x - o) % y = 0
      BY <2>5 DEF Offsets
    <3>4. x % y = 0
      <4>1. x - o \in Nat
        BY <2>5, <3>3
      <4>2. x = o + (x - o)
        BY <2>5, <3>3
      <4>3. (o + (x - o)) % y = 0
        <5> DEFINE w == x - o
        <5>1. w \in Nat /\ w % y = 0
          BY <3>3, <4>1
        <5> HIDE DEF w
        <5>2. (o + w) % y = 0
          <6>1. CASE o <= w
            BY <2>5, <3>2, <5>1, <6>1, DifferenceIsMultiple
          <6>2. CASE w <= o
            <7>1. (w + o) % y = 0
              BY <2>5, <3>2, <5>1, <6>2, DifferenceIsMultiple
            <7>2. w + o = o + w
              BY <2>5, <5>1
            <7> QED
              BY <7>1, <7>2, Zenon
          <6> QED
            BY <2>5, <5>1, <6>1, <6>2
        <5> QED
          BY <5>2 DEF w
      <4> QED
        BY <4>2, <4>3
    <3>5. x \in Offsets(0, Len(Text), y)
      BY <2>1, <2>5, <3>2, <3>3, <3>4 DEF Offsets
    <3> DEFINE d == SliceAt(1, Text, x, y)
    <3>6. /\ IsCut(d) /\ d.doc = 1 /\ d.size = y /\ d.off = x /\ d.doclen = Len(Text)
          /\ d.text = Passage(Text, x, y) /\ d \in View
      BY <2>1, <3>2, <3>5, SliceIsCut, ViewHasAll
    <3> HIDE DEF d
    <3>7. Overlap(p, d)
      BY <2>4, <2>5, <3>3, <3>6, CutSpan DEF Overlap
    <3>8. PositionallyNests(p, d)
      BY <2>4, <3>2, <3>6, <3>7, OverlapNests
    <3> QED
      BY <3>1, <3>6, <3>8 DEF Marker
  <2>8. ASSUME NEW m \in R PROVE \E y \in LevelsBelow(z) : m \in D(y)
    <3>1. PICK d \in View : PositionallyNests(p, d) /\ m = Marker(d)
      OBVIOUS
    <3>2. PICK y \in Sizes : \E x \in Offsets(0, Len(Text), y) : d = SliceAt(1, Text, x, y)
      BY <2>1, ViewIsCut
    <3>3. PICK x \in Offsets(0, Len(Text), y) : d = SliceAt(1, Text, x, y)
      BY <3>2
    <3>4. IsCut(d) /\ d.size = y /\ d.off = x /\ d.text = Passage(Text, x, y)
      BY <2>1, <3>3, SliceIsCut
    <3>5. y < z /\ o <= x /\ EndOf(d) <= e /\ x < EndOf(d) /\ EndOf(d) \in Nat /\ x \in Nat /\ x % y = 0
      BY <2>4, <3>1, <3>4, CutSpan DEF PositionallyNests
    <3>6. y \in LevelsBelow(z) /\ o % y = 0 /\ y \in Nat \ {0}
      BY <2>5, <3>5, SizesDivide DEF LevelsBelow
    <3>7. (x - o) % y = 0
      BY <2>5, <3>5, <3>6, DifferenceIsMultiple
    <3>8. x \in Offsets(o, e, y)
      <4> HIDE DEF e
      <4> QED
        BY <2>5, <3>5, <3>6, <3>7 DEF Offsets
    <3> QED
      BY <3>1, <3>4, <3>6, <3>8 DEF Marker
  <2> HIDE DEF D, R
  <2>9. p.desc = R
    BY <2>6, <2>7, <2>8
  <2> QED
    BY <2>9 DEF R
<1>2. HitsInv => DescendantsAreTheNested
  BY <1>1 DEF DescendantsAreTheNested
<1> QED
  BY <1>2, HitsStored, PTL
-----------------------------------------------------------------------------
(* Names, whatever characters they are made of.                            *)

(* What one character becomes.                                             *)
Token(x) == IF x \in {Sep, Esc} THEN <<Esc, x>> ELSE <<x>>

(* A name escaped character by character.                                  *)
LEMMA EscapeIs ==
    ASSUME NEW A, Esc \in A, NEW d \in Seq(A)
    PROVE  \E f : Strings(f, [i \in 1 .. Len(d) |-> Token(d[i])], Len(d), A) /\ Escape(d) = f[Len(d)]
<1> DEFINE q == [i \in 1 .. Len(d) |-> Token(d[i])]
<1>1. Len(d) \in Nat /\ DOMAIN d = 1 .. Len(d)
  OBVIOUS
<1>2. ASSUME NEW i \in 1 .. Len(d) PROVE Token(d[i]) \in Seq(A)
  <2>1. d[i] \in A
    OBVIOUS
  <2> QED
    BY <2>1 DEF Token
<1>3. q \in [1 .. Len(d) -> Seq(A)]
  BY <1>2
<1>4. Escape(d) = Lists!FlattenSeq(q)
  BY <1>1, Zenon DEF Escape, Token
<1>5. Len(q) = Len(d)
  BY <1>1, <1>3
<1> HIDE DEF q
<1>6. CASE Len(d) = 0
  <2>1. PICK f : Strings(f, q, Len(d), A)
    BY <1>1, <1>3, StringExists
  <2>2. Lists!FlattenSeq(q) = q /\ q = << >>
    BY <1>3, <1>5, <1>6 DEF Lists!FlattenSeq
  <2> QED
    BY <1>4, <1>6, <2>1, <2>2 DEF Strings, q
<1>7. CASE Len(d) # 0
  <2>1. Lists!FlattenSeq(q) = Strung(q, Len(d))[Len(d)]
    BY <1>5, <1>7 DEF Lists!FlattenSeq, Strung
  <2>2. Len(d) \in Nat \ {0}
    BY <1>1, <1>7
  <2>3. \E f : Strings(f, q, Len(d), A) /\ Strung(q, Len(d))[Len(d)] = f[Len(d)]
    BY <1>3, <2>2, StrungIs
  <2> QED
    BY <1>4, <2>1, <2>3 DEF q
<1> QED
  BY <1>6, <1>7

(* What a list followed by another holds.                                  *)
Joins(u, s, t) ==
    /\ Len(s) \in Nat /\ Len(t) \in Nat /\ Len(u) = Len(s) + Len(t)
    /\ \A k \in 1 .. Len(s) : u[k] = s[k]
    /\ \A k \in 1 .. Len(t) : u[Len(s) + k] = t[k]

(* A list followed by another is such a list.                              *)
LEMMA JoinIs ==
    ASSUME NEW A, NEW s \in Seq(A), NEW t \in Seq(A)
    PROVE  s \o t \in Seq(A) /\ Joins(s \o t, s, t)
<1>0. PICK u : u = s \o t
  OBVIOUS
<1>1. PICK n \in Nat, m \in Nat : n = Len(s) /\ m = Len(t)
  OBVIOUS
<1>2. /\ u \in Seq(A) /\ Len(u) = n + m
      /\ \A k \in 1 .. (n + m) : u[k] = IF k <= n THEN s[k] ELSE t[k - n]
  BY <1>0, <1>1, ConcatProperties
<1>3. ASSUME NEW k \in 1 .. m PROVE u[n + k] = t[k]
  <2>1. n + k \in 1 .. (n + m) /\ ~ (n + k <= n) /\ (n + k) - n = k
    OBVIOUS
  <2> QED
    BY <1>2, <2>1
<1>4. \A k \in 1 .. n : k \in 1 .. (n + m) /\ k <= n
  OBVIOUS
<1> QED
  BY <1>0, <1>1, <1>2, <1>3, <1>4 DEF Joins

(* Each list stays where it was strung as others follow.                   *)
LEMMA StringsGrow ==
    ASSUME NEW n \in Nat, NEW A, NEW q, NEW f, Strings(f, q, n, A), \A j \in 1 .. n : q[j] \in Seq(A),
           NEW i \in 0 .. n
    PROVE  /\ Len(f[i]) \in Nat /\ Len(f[i]) <= Len(f[n]) /\ f[n] \in Seq(A)
           /\ \A k \in 1 .. Len(f[i]) : f[n][k] = f[i][k]
<1> DEFINE Kept(m) == Len(f[i]) <= Len(f[m]) /\ \A k \in 1 .. Len(f[i]) : f[m][k] = f[i][k]
           G == {m \in 0 .. n : i <= m => Kept(m)}
<1>1. \A m \in 0 .. n : f[m] \in Seq(A) /\ Len(f[m]) \in Nat
  BY DEF Strings
<1>2. 0 \in G
  BY <1>1
<1>3. ASSUME NEW m \in 1 .. n, m - 1 \in G PROVE m \in G
  <2>1. CASE i = m
    BY <1>1, <2>1
  <2>2. CASE i < m
    <3>1. f[m] = f[m - 1] \o q[m] /\ f[m - 1] \in Seq(A) /\ q[m] \in Seq(A)
      <4>1. m - 1 \in 0 .. n
        OBVIOUS
      <4> QED
        BY <1>1, <4>1 DEF Strings
    <3>2. Kept(m - 1)
      BY <1>3, <2>2
    <3>7. Len(f[i]) \in Nat /\ Len(f[m]) \in Nat /\ Len(f[m - 1]) \in Nat
      <4>1. m \in 0 .. n /\ m - 1 \in 0 .. n /\ i \in 0 .. n
        OBVIOUS
      <4> QED
        BY <1>1, <4>1
    <3>3. PICK x, y, z : x = Len(f[i]) /\ y = Len(f[m - 1]) /\ z = Len(f[m]) /\ x \in Nat /\ y \in Nat /\ z \in Nat
      BY <3>7
    <3>4. y <= z /\ \A k \in 1 .. y : f[m][k] = f[m - 1][k]
      <4>1. PICK u, v, w : u = f[m - 1] /\ v = q[m] /\ w = f[m]
        OBVIOUS
      <4>2. Joins(w, u, v)
        BY <3>1, <4>1, JoinIs
      <4>3. Len(u) = y /\ Len(w) = z
        BY <3>3, <4>1
      <4>4. y <= z
        BY <3>3, <4>2, <4>3 DEF Joins
      <4>5. \A k \in 1 .. y : w[k] = u[k]
        BY <4>2, <4>3 DEF Joins
      <4> QED
        BY <4>1, <4>4, <4>5
    <3>6. x <= y /\ \A k \in 1 .. x : f[m - 1][k] = f[i][k]
      <4>1. Len(f[i]) <= Len(f[m - 1]) /\ \A k \in 1 .. Len(f[i]) : f[m - 1][k] = f[i][k]
        BY <3>2
      <4>2. PICK g, h : g = f[m - 1] /\ h = f[i]
        OBVIOUS
      <4> QED
        BY <3>3, <4>1, <4>2
    <3>5. Kept(m)
      <4>1. x <= z /\ \A k \in 1 .. x : k \in 1 .. y
        BY <3>3, <3>4, <3>6
      <4>2. \A k \in 1 .. x : f[m][k] = f[i][k]
        BY <3>4, <3>6, <4>1
      <4> QED
        BY <3>3, <4>1, <4>2
    <3> QED
      BY <3>5
  <2>3. CASE m < i
    BY <2>3
  <2> QED
    BY <2>1, <2>2, <2>3
<1>4. 0 .. n \subseteq G
  <2> HIDE DEF G
  <2> QED
    BY <1>2, <1>3, SetInduction
<1>5. Kept(n)
  BY <1>4
<1> QED
  BY <1>1, <1>5

(* What an escaped name holds of a character, after the ones before it.    *)
Escapes(E, c, x, next) ==
    IF x \in {Sep, Esc} THEN next = c + 2 /\ E[c + 1] = Esc /\ E[c + 2] = x
    ELSE next = c + 1 /\ E[c + 1] = x

(* Where each character of a name ends in the escaped one.                 *)
Ends(p, d) ==
    /\ p \in [0 .. Len(d) -> Nat] /\ p[0] = 0 /\ p[Len(d)] = Len(Escape(d))
    /\ \A i \in 1 .. Len(d) : p[i] <= Len(Escape(d)) /\ Escapes(Escape(d), p[i - 1], d[i], p[i])

(* An escaped name is its characters' tokens, one after another.           *)
LEMMA EscapeEnds ==
    ASSUME NEW A, Esc \in A, NEW d \in Seq(A)
    PROVE  Escape(d) \in Seq(A) /\ \E p : Ends(p, d)
<1>1. PICK n \in Nat : n = Len(d)
  OBVIOUS
<1>2. PICK q : q = [i \in 1 .. n |-> Token(d[i])]
  OBVIOUS
<1>3. PICK f : Strings(f, q, n, A) /\ Escape(d) = f[n]
  BY <1>1, <1>2, EscapeIs
<1>4. ASSUME NEW i \in 1 .. n
      PROVE  q[i] \in Seq(A) /\ q[i] = Token(d[i]) /\ d[i] \in A
  <2>1. d[i] \in A
    BY <1>1
  <2> QED
    BY <1>2, <2>1 DEF Token
<1>5. \A i \in 0 .. n : /\ Len(f[i]) \in Nat /\ Len(f[i]) <= Len(f[n]) /\ f[n] \in Seq(A)
                        /\ \A k \in 1 .. Len(f[i]) : f[n][k] = f[i][k]
  BY <1>3, <1>4, StringsGrow
<1>6. PICK p : p = [i \in 0 .. n |-> Len(f[i])]
  OBVIOUS
<1>7. p \in [0 .. n -> Nat] /\ p[0] = 0 /\ p[n] = Len(Escape(d))
  <2>1. f[0] = << >>
    BY <1>3 DEF Strings
  <2> QED
    BY <1>3, <1>5, <1>6, <2>1
<1>8. ASSUME NEW i \in 1 .. n PROVE p[i] <= Len(Escape(d)) /\ Escapes(Escape(d), p[i - 1], d[i], p[i])
  <2>0. i - 1 \in 0 .. n /\ i \in 0 .. n
    BY <1>1
  <2>1. f[i] = f[i - 1] \o q[i] /\ f[i - 1] \in Seq(A)
    BY <1>3, <2>0 DEF Strings
  <2>2. PICK c \in Nat : c = Len(f[i - 1]) /\ c = p[i - 1]
    BY <1>5, <1>6, <2>0
  <2>7. PICK u, v, w : u = f[i - 1] /\ v = q[i] /\ w = f[i]
    OBVIOUS
  <2>8. Len(w) = c + Len(v) /\ \A k \in 1 .. Len(v) : w[c + k] = v[k]
    <3>1. Joins(w, u, v)
      BY <1>4, <2>1, <2>7, JoinIs
    <3>2. Len(u) = c
      BY <2>2, <2>7
    <3> QED
      BY <3>1, <3>2 DEF Joins
  <2>3. p[i] = Len(f[i]) /\ p[i] \in Nat /\ p[i] <= Len(Escape(d))
    BY <1>3, <1>5, <1>6
  <2>4. \A k \in 1 .. p[i] : Escape(d)[k] = f[i][k]
    BY <1>3, <1>5, <2>3
  <2>5. CASE d[i] \in {Sep, Esc}
    <3>1. q[i] = <<Esc, d[i]>>
      BY <1>4, <2>5 DEF Token
    <3>2. Len(f[i]) = c + 2 /\ f[i][c + 1] = Esc /\ f[i][c + 2] = d[i]
      <4>1. Len(v) = 2 /\ v[1] = Esc /\ v[2] = d[i]
        BY <2>7, <3>1
      <4>2. 1 \in 1 .. Len(v) /\ 2 \in 1 .. Len(v)
        BY <4>1
      <4> QED
        BY <2>7, <2>8, <4>1, <4>2
    <3>3. Escape(d)[c + 1] = Esc /\ Escape(d)[c + 2] = d[i]
      <4>1. c + 1 \in 1 .. p[i] /\ c + 2 \in 1 .. p[i]
        <5>1. PICK z \in Nat : z = p[i] /\ z = c + 2
          BY <2>3, <3>2
        <5>2. c + 1 \in 1 .. z /\ c + 2 \in 1 .. z
          BY <5>1
        <5> QED
          BY <5>1, <5>2
      <4> QED
        BY <2>4, <3>2, <4>1
    <3> QED
      BY <2>2, <2>3, <2>5, <3>2, <3>3 DEF Escapes
  <2>6. CASE d[i] \notin {Sep, Esc}
    <3>1. q[i] = <<d[i]>>
      BY <1>4, <2>6 DEF Token
    <3>2. Len(f[i]) = c + 1 /\ f[i][c + 1] = d[i]
      <4>1. Len(v) = 1 /\ v[1] = d[i]
        BY <2>7, <3>1
      <4>2. 1 \in 1 .. Len(v)
        BY <4>1
      <4> QED
        BY <2>7, <2>8, <4>1, <4>2
    <3>3. Escape(d)[c + 1] = d[i]
      <4>1. c + 1 \in 1 .. p[i]
        BY <2>2, <2>3, <3>2
      <4> QED
        BY <2>4, <3>2, <4>1
    <3> QED
      BY <2>2, <2>3, <2>6, <3>2, <3>3 DEF Escapes
  <2> QED
    BY <2>5, <2>6
<1>9. Escape(d) \in Seq(A)
  BY <1>3, <1>5
<1>10. Ends(p, d)
  BY <1>1, <1>7, <1>8 DEF Ends
<1> QED
  BY <1>9, <1>10

(* A name that begins with an escaped one and goes on with a separator.    *)
Heads(W, d) ==
    /\ \A k \in 1 .. Len(Escape(d)) : W[k] = Escape(d)[k]
    /\ W[Len(Escape(d)) + 1] = Sep

(* Reading both from the left, one is never ahead of the other.            *)
LEMMA HeadsAgree ==
    ASSUME NEW A, Esc \in A, NEW d \in Seq(A), NEW e \in Seq(A), NEW W, Heads(W, d), Heads(W, e)
    PROVE  Len(d) <= Len(e) /\ \A i \in 1 .. Len(d) : d[i] = e[i]
<1>1. PICK n \in Nat, m \in Nat : n = Len(d) /\ m = Len(e)
  OBVIOUS
<1>2. PICK p : Ends(p, d)
  BY EscapeEnds
<1>3. PICK r : Ends(r, e)
  BY EscapeEnds
<1>4. PICK x \in Nat, y \in Nat : x = Len(Escape(d)) /\ y = Len(Escape(e))
  <2>1. Escape(d) \in Seq(A) /\ Escape(e) \in Seq(A)
    BY EscapeEnds
  <2> QED
    BY <2>1
<1> DEFINE G == {i \in 0 .. n : i <= m /\ p[i] = r[i] /\ \A j \in 1 .. i : d[j] = e[j]}
<1>5. 0 \in G
  BY <1>1, <1>2, <1>3 DEF Ends
<1>6. ASSUME NEW i \in 1 .. n, i - 1 \in G PROVE i \in G
  <2>1. PICK c \in Nat : c = p[i - 1] /\ c = r[i - 1]
    BY <1>1, <1>2, <1>6 DEF Ends
  <2>2. p[i] \in Nat /\ p[i] <= x /\ Escapes(Escape(d), c, d[i], p[i])
    <3>1. i \in 0 .. Len(d) /\ i \in 1 .. Len(d)
      BY <1>1
    <3> QED
      BY <1>2, <1>4, <2>1, <3>1 DEF Ends
  <2>3. Escapes(W, c, d[i], p[i])
    <3>1. \A k \in 1 .. x : W[k] = Escape(d)[k]
      BY <1>4 DEF Heads
    <3>2. CASE d[i] \in {Sep, Esc}
      <4>1. p[i] = c + 2 /\ Escape(d)[c + 1] = Esc /\ Escape(d)[c + 2] = d[i]
        BY <2>2, <3>2 DEF Escapes
      <4> QED
        BY <2>2, <3>1, <3>2, <4>1 DEF Escapes
    <3>3. CASE d[i] \notin {Sep, Esc}
      <4>1. p[i] = c + 1 /\ Escape(d)[c + 1] = d[i]
        BY <2>2, <3>3 DEF Escapes
      <4> QED
        BY <2>2, <3>1, <3>3, <4>1 DEF Escapes
    <3> QED
      BY <3>2, <3>3
  <2>4. Sep # Esc
    BY DEF Sep, Esc
  <2>5. W[c + 1] # Sep
    BY <2>3, <2>4 DEF Escapes
  <2>6. i <= m
    <3>1. ASSUME i - 1 = m PROVE FALSE
      <4>1. c = y
        BY <1>1, <1>3, <1>4, <2>1, <3>1 DEF Ends
      <4> QED
        BY <1>4, <2>5, <4>1 DEF Heads
    <3> QED
      BY <1>6, <3>1
  <2>7. r[i] \in Nat /\ r[i] <= y /\ Escapes(Escape(e), c, e[i], r[i])
    BY <1>1, <1>3, <1>4, <2>1, <2>6 DEF Ends
  <2>8. Escapes(W, c, e[i], r[i])
    <3>1. \A k \in 1 .. y : W[k] = Escape(e)[k]
      BY <1>4 DEF Heads
    <3>2. CASE e[i] \in {Sep, Esc}
      <4>1. r[i] = c + 2 /\ Escape(e)[c + 1] = Esc /\ Escape(e)[c + 2] = e[i]
        BY <2>7, <3>2 DEF Escapes
      <4> QED
        BY <2>7, <3>1, <3>2, <4>1 DEF Escapes
    <3>3. CASE e[i] \notin {Sep, Esc}
      <4>1. r[i] = c + 1 /\ Escape(e)[c + 1] = e[i]
        BY <2>7, <3>3 DEF Escapes
      <4> QED
        BY <2>7, <3>1, <3>3, <4>1 DEF Escapes
    <3> QED
      BY <3>2, <3>3
  <2>9. d[i] = e[i] /\ p[i] = r[i]
    BY <2>3, <2>4, <2>8 DEF Escapes
  <2>10. \A j \in 1 .. i : j \in 1 .. (i - 1) \/ j = i
    OBVIOUS
  <2> QED
    BY <1>6, <2>6, <2>9, <2>10
<1>7. 0 .. n \subseteq G
  <2> HIDE DEF G
  <2> QED
    BY <1>5, <1>6, SetInduction
<1>8. n \in G
  BY <1>7
<1> QED
  BY <1>1, <1>8

(* So a name begins with one escaped name at most.                         *)
LEMMA OneHead ==
    ASSUME NEW A, Esc \in A, NEW d \in Seq(A), NEW e \in Seq(A), NEW W, Heads(W, d), Heads(W, e)
    PROVE  d = e
<1>1. Len(d) <= Len(e) /\ \A i \in 1 .. Len(d) : d[i] = e[i]
  BY HeadsAgree
<1>2. Len(e) <= Len(d)
  BY HeadsAgree
<1>3. Len(d) \in Nat /\ Len(e) \in Nat
  OBVIOUS
<1> QED
  BY <1>1, <1>2, <1>3, SeqEqual

(* A list that is E, a separator and x.                                    *)
Splits(W, E, x) ==
    /\ \A k \in 1 .. Len(E) : W[k] = E[k]
    /\ W[Len(E) + 1] = Sep
    /\ Len(W) = Len(E) + 1 + Len(x)
    /\ \A k \in 1 .. Len(x) : W[Len(E) + 1 + k] = x[k]

(* Two fields with a separator between them.                               *)
LEMMA FieldsSplit ==
    ASSUME NEW A, Sep \in A, NEW E \in Seq(A), NEW x \in Seq(A)
    PROVE  (E \o <<Sep>>) \o x \in Seq(A) /\ Splits((E \o <<Sep>>) \o x, E, x)
<1>2. PICK S, V, W : S = <<Sep>> /\ V = E \o S /\ W = V \o x
  OBVIOUS
<1>3. S \in Seq(A) /\ Len(S) = 1 /\ S[1] = Sep
  BY <1>2
<1>4. PICK n \in Nat, m \in Nat : n = Len(E) /\ m = Len(x)
  OBVIOUS
<1>5. /\ V \in Seq(A) /\ Len(V) = n + 1 /\ (\A k \in 1 .. n : V[k] = E[k])
      /\ \A k \in 1 .. 1 : V[n + k] = S[k]
  <2>1. V \in Seq(A) /\ Joins(V, E, S)
    BY <1>2, <1>3, JoinIs
  <2> QED
    BY <1>3, <1>4, <2>1 DEF Joins
<1>7. /\ W \in Seq(A) /\ Len(W) = n + 1 + m /\ (\A k \in 1 .. (n + 1) : W[k] = V[k])
      /\ \A k \in 1 .. m : W[n + 1 + k] = x[k]
  <2>1. V \in Seq(A) /\ W = V \o x
    BY <1>2, <1>5
  <2>2. W \in Seq(A) /\ Joins(W, V, x)
    BY <2>1, JoinIs
  <2>3. Len(V) = n + 1 /\ Len(x) = m
    BY <1>4, <1>5
  <2> QED
    BY <2>2, <2>3 DEF Joins
<1>8. (\A k \in 1 .. n : W[k] = E[k]) /\ W[n + 1] = Sep
  <2>1. 1 \in 1 .. 1 /\ n + 1 \in 1 .. (n + 1) /\ \A k \in 1 .. n : k \in 1 .. (n + 1)
    OBVIOUS
  <2> QED
    BY <1>3, <1>5, <1>7, <2>1
<1>9. W = (E \o <<Sep>>) \o x
  BY <1>2, Zenon
<1> QED
  BY <1>4, <1>7, <1>8, <1>9 DEF Splits

(* A field without separators ends at the first one.                       *)
LEMMA PlainFieldsPart ==
    ASSUME NEW A, NEW n \in Seq(A \ {Sep}), NEW m \in Seq(A \ {Sep}),
           NEW x \in Seq(A), NEW y \in Seq(A), NEW W, Splits(W, n, x), Splits(W, m, y)
    PROVE  n = m /\ x = y
<1>1. /\ Len(n) \in Nat /\ \A k \in 1 .. Len(n) : n[k] # Sep
      /\ Len(m) \in Nat /\ \A k \in 1 .. Len(m) : m[k] # Sep
  OBVIOUS
<1>2. Len(n) = Len(m)
  <2>1. ASSUME Len(n) < Len(m) PROVE FALSE
    <3>0. Len(n) + 1 \in 1 .. Len(m)
      BY <1>1, <2>1
    <3>1. W[Len(n) + 1] = m[Len(n) + 1] /\ m[Len(n) + 1] # Sep
      BY <3>0, <1>1, <2>1 DEF Splits
    <3> QED
      BY <3>1 DEF Splits
  <2>2. ASSUME Len(m) < Len(n) PROVE FALSE
    <3>0. Len(m) + 1 \in 1 .. Len(n)
      BY <1>1, <2>2
    <3>1. W[Len(m) + 1] = n[Len(m) + 1] /\ n[Len(m) + 1] # Sep
      BY <3>0, <1>1, <2>2 DEF Splits
    <3> QED
      BY <3>1 DEF Splits
  <2> QED
    BY <1>1, <2>1, <2>2
<1>3. \A k \in 1 .. Len(n) : n[k] = m[k]
  BY <1>2 DEF Splits
<1>4. Len(x) \in Nat /\ Len(y) \in Nat /\ Len(x) = Len(y)
  <2>1. Len(x) \in Nat /\ Len(y) \in Nat
    OBVIOUS
  <2> QED
    BY <1>1, <1>2, <2>1 DEF Splits
<1>5. \A k \in 1 .. Len(x) : x[k] = y[k]
  BY <1>2, <1>4 DEF Splits
<1>6. n = m
  <2>1. n \in Seq(A) /\ m \in Seq(A)
    OBVIOUS
  <2> QED
    BY <1>2, <1>3, <2>1, SeqEqual
<1> QED
  BY <1>4, <1>5, <1>6, SeqEqual

(* The rest of a name follows the separator after its head.                *)
Follows(W, d, x) ==
    /\ Heads(W, d)
    /\ Len(W) = Len(Escape(d)) + 1 + Len(x)
    /\ \A k \in 1 .. Len(x) : W[Len(Escape(d)) + 1 + k] = x[k]

(* What is put after a separator after an escaped name is the rest.        *)
LEMMA Rests ==
    ASSUME NEW A, Esc \in A, Sep \in A, NEW d \in Seq(A), NEW x \in Seq(A)
    PROVE  /\ (Escape(d) \o <<Sep>>) \o x \in Seq(A)
           /\ Follows((Escape(d) \o <<Sep>>) \o x, d, x)
<1>1. PICK E \in Seq(A) : E = Escape(d)
  BY EscapeEnds
<1>2. (E \o <<Sep>>) \o x \in Seq(A) /\ Splits((E \o <<Sep>>) \o x, E, x)
  BY FieldsSplit
<1>3. PICK W : W = (E \o <<Sep>>) \o x
  OBVIOUS
<1>4. W \in Seq(A) /\ Splits(W, E, x)
  BY <1>2, <1>3
<1>5. W = (Escape(d) \o <<Sep>>) \o x
  BY <1>1, <1>3
<1>6. Follows(W, d, x)
  BY <1>1, <1>4 DEF Splits, Heads, Follows
<1> QED
  BY <1>4, <1>5, <1>6

(* Equal names have equal heads and equal rests.                           *)
LEMMA NamesPart ==
    ASSUME NEW A, Esc \in A, NEW d \in Seq(A), NEW e \in Seq(A),
           NEW x \in Seq(A), NEW y \in Seq(A), NEW W, Follows(W, d, x), Follows(W, e, y)
    PROVE  d = e /\ x = y
<1>1. PICK n, m : n = Len(Escape(d)) /\ m = Len(Escape(e))
  OBVIOUS
<1>2. /\ Heads(W, d) /\ Len(W) = n + 1 + Len(x)
      /\ \A k \in 1 .. Len(x) : W[n + 1 + k] = x[k]
  BY <1>1 DEF Follows
<1>3. /\ Heads(W, e) /\ Len(W) = m + 1 + Len(y)
      /\ \A k \in 1 .. Len(y) : W[m + 1 + k] = y[k]
  BY <1>1 DEF Follows
<1>4. d = e
  BY <1>2, <1>3, OneHead
<1>5. n = m /\ n \in Nat
  <2>1. Escape(d) \in Seq(A)
    BY EscapeEnds
  <2> QED
    BY <1>1, <1>4, <2>1
<1>6. Len(x) \in Nat /\ Len(y) \in Nat
  OBVIOUS
<1>7. Len(x) = Len(y)
  BY <1>2, <1>3, <1>5, <1>6
<1>8. \A k \in 1 .. Len(x) : x[k] = y[k]
  BY <1>2, <1>3, <1>5, <1>7
<1> QED
  BY <1>4, <1>7, <1>8, SeqEqual

(* The name of a slice is its document's, escaped, and the numbers.        *)
LEMMA SliceNameFollows ==
    ASSUME NEW A, Esc \in A, Sep \in A, NEW d \in Seq(A), NEW x \in Seq(A), NEW y \in Seq(A)
    PROVE  /\ SliceName(d, x, y) \in Seq(A)
           /\ \E r \in Seq(A) : Follows(SliceName(d, x, y), d, r) /\ Splits(r, x, y)
<1>1. PICK S : S = <<Sep>>
  OBVIOUS
<1>2. S \in Seq(A)
  BY <1>1
<1>3. \A s, t \in Seq(A) : s \o t \in Seq(A)
  BY ConcatProperties
<1>4. PICK E \in Seq(A) : E = Escape(d)
  BY EscapeEnds
<1>5. PICK V, X : V = E \o S /\ X = x \o S
  OBVIOUS
<1>6. V \in Seq(A) /\ X \in Seq(A)
  BY <1>2, <1>3, <1>5
<1>7. PICK r \in Seq(A) : r = X \o y
  BY <1>3, <1>6
<1>8. (V \o x) \o S = V \o X
  <2>1. (V \o x) \o S = V \o (x \o S)
    BY <1>2, <1>6
  <2> QED
    BY <1>5, <2>1, Zenon
<1>9. (V \o X) \o y = V \o r
  <2>1. (V \o X) \o y = V \o (X \o y)
    BY <1>6
  <2> QED
    BY <1>7, <2>1, Zenon
<1>10. SliceName(d, x, y) = ((V \o x) \o S) \o y
  BY <1>1, <1>4, <1>5, Zenon DEF SliceName
<1>11. SliceName(d, x, y) = (Escape(d) \o <<Sep>>) \o r
  BY <1>1, <1>4, <1>5, <1>8, <1>9, <1>10, Zenon
<1>12. /\ (Escape(d) \o <<Sep>>) \o r \in Seq(A)
       /\ Follows((Escape(d) \o <<Sep>>) \o r, d, r)
  BY Rests
<1>13. Splits(r, x, y)
  <2>1. Splits((x \o <<Sep>>) \o y, x, y)
    BY FieldsSplit
  <2> QED
    BY <1>1, <1>5, <1>7, <2>1
<1>14. SliceName(d, x, y) \in Seq(A) /\ Follows(SliceName(d, x, y), d, r)
  BY <1>11, <1>12, Zenon
<1> QED
  BY <1>13, <1>14

(* A name tells every field it is made of, with or without a corpus in     *)
(* front, whatever characters the ids hold, of whatever length: so two     *)
(* slices never share a point id (ids.py slice_name).                      *)
THEOREM NamesTellFields ==
    ASSUME NEW A, Esc \in A, Sep \in A, NEW d \in Seq(A), NEW e \in Seq(A),
           NEW n \in Seq(A \ {Sep}), NEW m \in Seq(A \ {Sep}),
           NEW i \in Seq(A \ {Sep}), NEW j \in Seq(A \ {Sep})
    PROVE  /\ SliceName(d, n, i) = SliceName(e, m, j) => d = e /\ n = m /\ i = j
           /\ \A x, y \in Seq(A) :
                 CorpusSliceName(x, d, n, i) = CorpusSliceName(y, e, m, j)
                     => x = y /\ d = e /\ n = m /\ i = j
<1>0. n \in Seq(A) /\ m \in Seq(A) /\ i \in Seq(A) /\ j \in Seq(A)
  OBVIOUS
<1>1. PICK u \in Seq(A), v \in Seq(A) : u = SliceName(d, n, i) /\ v = SliceName(e, m, j)
  <2>1. SliceName(d, n, i) \in Seq(A) /\ SliceName(e, m, j) \in Seq(A)
    BY <1>0, SliceNameFollows
  <2> QED
    BY <2>1
<1>2. PICK r \in Seq(A) : Follows(u, d, r) /\ Splits(r, n, i)
  <2>1. \E r \in Seq(A) : Follows(SliceName(d, n, i), d, r) /\ Splits(r, n, i)
    BY <1>0, SliceNameFollows
  <2> QED
    BY <1>1, <2>1
<1>3. PICK s \in Seq(A) : Follows(v, e, s) /\ Splits(s, m, j)
  <2>1. \E s \in Seq(A) : Follows(SliceName(e, m, j), e, s) /\ Splits(s, m, j)
    BY <1>0, SliceNameFollows
  <2> QED
    BY <1>1, <2>1
<1>4. ASSUME u = v PROVE d = e /\ n = m /\ i = j
  <2>1. Follows(u, e, s)
    BY <1>3, <1>4
  <2>2. d = e /\ r = s
    BY <1>2, <2>1, NamesPart
  <2>3. Splits(r, m, j)
    BY <1>3, <2>2
  <2>4. n = m /\ i = j
    BY <1>0, <1>2, <2>3, PlainFieldsPart
  <2> QED
    BY <2>2, <2>4
<1>5. ASSUME NEW x \in Seq(A), NEW y \in Seq(A),
             CorpusSliceName(x, d, n, i) = CorpusSliceName(y, e, m, j)
      PROVE  x = y /\ d = e /\ n = m /\ i = j
  <2>1. PICK W : W = CorpusSliceName(x, d, n, i)
    OBVIOUS
  <2>2. W = (Escape(x) \o <<Sep>>) \o u /\ W = (Escape(y) \o <<Sep>>) \o v
    BY <1>1, <1>5, <2>1, Zenon DEF CorpusSliceName
  <2>3. Follows(W, x, u)
    <3>1. Follows((Escape(x) \o <<Sep>>) \o u, x, u)
      BY Rests
    <3> QED
      BY <2>2, <3>1
  <2>4. Follows(W, y, v)
    <3>1. Follows((Escape(y) \o <<Sep>>) \o v, y, v)
      BY Rests
    <3> QED
      BY <2>2, <3>1
  <2>5. x = y /\ u = v
    BY <2>3, <2>4, NamesPart
  <2> QED
    BY <1>4, <2>5
<1> QED
  BY <1>1, <1>4, <1>5

(* No two slices of the instance share a name, whatever fields differ.     *)
THEOREM NamesNeverCollide == Spec => []NamesAreInjective
<1>1. HitsInv => NamesAreInjective
  <2>1. SUFFICES ASSUME HitsInv, Fresh, NEW n \in Numerals, NEW i \in Numerals,
                        NEW m \in Numerals, NEW j \in Numerals, NEW e \in Ids
        PROVE  /\ SliceName(e, m, j) = SliceName(Text, n, i) => e = Text /\ m = n /\ j = i
               /\ \A c, corpus \in Ids :
                     CorpusSliceName(c, e, m, j) = CorpusSliceName(corpus, Text, n, i)
                         => c = corpus /\ e = Text /\ m = n /\ j = i
    BY DEF NamesAreInjective
  <2>2. PICK A : A = {Sep, Esc, "0", "1"}
    OBVIOUS
  <2>3. Esc \in A /\ Sep \in A
    BY <2>2
  <2>4. \A k \in Numerals : k \in Seq(A \ {Sep})
    <3>1. "0" \in A \ {Sep} /\ "1" \in A \ {Sep}
      BY <2>2 DEF Sep
    <3>2. <<"0">> \in Seq(A \ {Sep}) /\ <<"1">> \in Seq(A \ {Sep}) /\ <<"1", "0">> \in Seq(A \ {Sep})
      BY <3>1
    <3> QED
      BY <3>2 DEF Numerals
  <2>5. \A x \in Ids : x \in Seq(A)
    <3>1. ASSUME NEW k \in 0 .. 2, NEW x \in [1 .. k -> {Sep, Esc, "1"}] PROVE x \in Seq(A)
      <4>1. x \in [1 .. k -> A]
        BY <2>2
      <4> QED
        BY <4>1
    <3> QED
      BY <3>1 DEF Ids
  <2>6. Text \in Seq(A)
    <3>1. Text \in Seq({a, b})
      BY <2>1, OnlyText DEF Fresh
    <3>2. Len(Text) \in Nat /\ Text \in [1 .. Len(Text) -> {a, b}]
      BY <3>1
    <3>3. Text \in [1 .. Len(Text) -> A]
      BY <2>2, <3>2 DEF a, b
    <3> QED
      BY <3>2, <3>3
  <2>7. /\ SliceName(e, m, j) = SliceName(Text, n, i) => e = Text /\ m = n /\ j = i
        /\ \A c, corpus \in Seq(A) :
              CorpusSliceName(c, e, m, j) = CorpusSliceName(corpus, Text, n, i)
                  => c = corpus /\ e = Text /\ m = n /\ j = i
    BY <2>3, <2>4, <2>5, <2>6, NamesTellFields
  <2> QED
    BY <2>5, <2>7
<1> QED
  BY <1>1, HitsStored, PTL
=============================================================================
