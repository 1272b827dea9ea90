--------------------------- MODULE SelectionProofs ---------------------------
(***************************************************************************)
(* Theorems about the selection strategy, for every grid, every set of     *)
(* requests and every token counter: what its working set keeps, and what  *)
(* packing and trading preserve.  Every option of the request is honored,  *)
(* no packed passage is lost or shown twice, evidence and trace keep up    *)
(* with the trades, and the loop ends for the reason it reports.           *)
(***************************************************************************)
EXTENDS Finalize, ForestProofs, FiniteSetTheorems

(* What the running loop has still to visit, phase by phase.               *)
PhaseInv ==
    /\ phase = "dedup" => packed = {} /\ agenda = {}
    /\ phase = "pack" => /\ req.budget # None
                         /\ \A c \in agenda : c \notin packed /\ cls[c].alive
    /\ phase = "between" => req.budget # None
    /\ phase = "round" => req.budget # None /\ agenda \subseteq packed

(* The inductive invariant behind type correctness and the ledger.         *)
IInv == TypeOK /\ PhaseInv /\ Ledger

-----------------------------------------------------------------------------
(* The hits of a request are numbered 1 .. Len(req.hits).                  *)
LEMMA HitsAreNumbered ==
    ASSUME IsRequest(req)
    PROVE  /\ Len(req.hits) \in Nat
           /\ DOMAIN req.hits = Ids
           /\ \A i \in Ids : req.hits[i] \in Hits /\ IsSlice(req.hits[i])
BY DEF IsRequest, Ids, Hits

(* A slice costs a natural number of tokens.                               *)
LEMMA CostIsNat ==
    ASSUME IsRequest(req), NEW s \in Hits \cup req.source
    PROVE  Cost(s) \in Nat
<1>1. IsSlice(s)
  BY HitsAreNumbered DEF Hits, IsRequest
<1> QED
  BY <1>1 DEF IsSlice, IsRequest, Cost

(* The class of a leaf is well typed.                                      *)
LEMMA NewClassType ==
    ASSUME IsRequest(req), NEW i \in Ids
    PROVE  NewClass(i) \in Class /\ NewClass(i).alive = TRUE /\ NewClass(i).top = req.hits[i]
<1> DEFINE evidence == {j \in Ids : req.hits[j] \in
                          {req.hits[i]} \cup RetrievedAncestors(Hits, req.hits[i])}
<1>1. evidence \subseteq Ids /\ i \in evidence /\ Ids \subseteq Nat
  BY DEF Ids
<1>2. Min(evidence) \in Ids
  <2> HIDE DEF evidence
  <2>1. evidence \subseteq Nat /\ evidence # {}
    BY <1>1
  <2>2. Min(evidence) \in evidence
    BY <2>1, MinIsLeast
  <2> QED
    BY <1>1, <2>2
<1>3. req.hits[i] \in Hits
  BY HitsAreNumbered
<1>4. NewClass(i) = [top |-> req.hits[i], rank |-> Min(evidence), evidence |-> evidence,
         alive |-> TRUE, levels |-> 0, replaced |-> {}, saturated |-> FALSE,
         skip |-> {}, parked |-> None]
  BY DEF NewClass, EffectiveRank
<1> HIDE DEF evidence
<1> QED
  BY <1>1, <1>2, <1>3, <1>4 DEF Class

(* The next target size is a size of the grid, if there is one.            *)
LEMMA TargetIsSize ==
    ASSUME NEW c
    PROVE  NextTargetSize(c) \in Sizes \cup {None}
<1> DEFINE open == {z \in LevelsAbove(cls[c].top.size) \ cls[c].skip :
                      Allowed(z) /\ ~ Degenerate(cls[c].top, z)}
<1>1. open \subseteq Sizes /\ open \subseteq Nat
  BY GridAssumption DEF LevelsAbove
<1>2. open # {} => Min(open) \in Sizes
  <2> HIDE DEF open
  <2> QED
    BY <1>1, MinIsLeast
<1>3. NextTargetSize(c) = None \/ (open # {} /\ NextTargetSize(c) = Min(open))
  BY DEF NextTargetSize
<1> QED
  BY <1>2, <1>3

(* A class is only ever offered a slice of the request.                    *)
LEMMA OfferIsSlice ==
    ASSUME NEW c, NEW p \in Offers(c)
    PROVE  p \in Hits \cup req.source
<1>1. PICK ref : p = Resolve(ref) /\ p # None
  BY DEF Offers, Parent
<1> QED
  BY <1>1 DEF Resolve

-----------------------------------------------------------------------------
(* Sums over classes.                                                      *)
LEMMA CostInType ==
    ASSUME TypeOK, NEW S, S \subseteq DOMAIN cls
    PROVE  /\ Len(req.hits) \in Nat /\ Ids = 1 .. Len(req.hits)
           /\ CostIn(S) \in [1 .. Len(req.hits) -> Int]
<1>1. Len(req.hits) \in Nat /\ Ids = 1 .. Len(req.hits)
  BY HitsAreNumbered DEF TypeOK, Ids
<1>2. \A i \in S : Cost(cls[i].top) \in Nat
  BY CostIsNat DEF TypeOK, Class
<1> QED
  BY <1>1, <1>2 DEF CostIn

(* The top of a class is a slice of the request, with a cost.              *)
LEMMA TopCost ==
    ASSUME TypeOK, NEW i \in DOMAIN cls
    PROVE  cls[i] \in Class /\ cls[i].top \in Hits \cup req.source /\ Cost(cls[i].top) \in Nat
<1>1. cls[i] \in Class /\ cls[i].top \in Hits \cup req.source
  BY DEF TypeOK, Class
<1> QED
  BY <1>1, CostIsNat DEF TypeOK

(* What a set of classes costs is a number.                                *)
LEMMA SpentIsInt ==
    ASSUME TypeOK, NEW S, S \subseteq DOMAIN cls
    PROVE  Spent(S) \in Int
BY CostInType, SumToInt DEF Spent

(* The delta of a trade is a number.                                       *)
LEMMA DeltaIsInt ==
    ASSUME TypeOK, NEW c \in DOMAIN cls, NEW p \in Hits \cup req.source
    PROVE  Delta(c, p) \in Int
<1>1. Spent(Subsumed(c, p)) \in Int
  <2>1. Subsumed(c, p) \subseteq DOMAIN cls
    BY DEF TypeOK, Subsumed, Live
  <2> QED
    BY <2>1, SpentIsInt
<1>2. Cost(p) \in Nat /\ Cost(cls[c].top) \in Nat
  BY CostIsNat DEF TypeOK, Class
<1> QED
  BY <1>1, <1>2 DEF Delta

(* Spending nothing on nobody.                                             *)
LEMMA NothingSpent ==
    ASSUME TypeOK PROVE Spent({}) = 0
<1>1. \A i \in 1 .. Len(req.hits) : CostIn({})[i] = 0
  BY CostInType DEF CostIn
<1> QED
  BY <1>1, CostInType, SumOfZeros DEF Spent

(* A step that leaves the live tops alone leaves what they cost alone.     *)
LEMMA SpentUnchanged ==
    ASSUME req' = req, Live' = Live, \A i \in Live : cls'[i].top = cls[i].top
    PROVE  Spent(Live)' = Spent(Live)
<1>1. CostIn(Live)' = CostIn(Live)
  BY DEF CostIn, Ids, Cost
<1> QED
  BY <1>1 DEF Spent

(* Packing c adds its cost.                                                *)
LEMMA SpentByPacking ==
    ASSUME TypeOK, NEW c \in DOMAIN cls, c \notin Live,
           req' = req, cls' = cls, Live' = Live \cup {c}
    PROVE  Spent(Live)' = Spent(Live) + Cost(cls[c].top)
<1> DEFINE n == Len(req.hits)
           x == Cost(cls[c].top)
<1>1. n \in Nat /\ Ids = 1 .. n /\ DOMAIN cls \subseteq 1 .. n /\ Live \subseteq DOMAIN cls
  BY CostInType DEF TypeOK, Live
<1>2. x \in Int
  BY TopCost
<1>3. CostIn(Live) \in [1 .. n -> Int] /\ CostIn(Live \cup {c}) \in [1 .. n -> Int]
  <2>1. Live \cup {c} \subseteq DOMAIN cls
    BY <1>1
  <2> QED
    BY <1>1, <2>1, CostInType
<1>4. CostIn(Live)' = CostIn(Live \cup {c})
  BY DEF CostIn, Ids, Cost
<1> DEFINE u == CostIn(Live)
           w == CostIn(Live \cup {c})
<1>5. w[c] = u[c] + x
  <2>1. u[c] = 0 /\ w[c] = x
    BY <1>1 DEF CostIn
  <2> QED
    BY <1>2, <2>1
<1>6. \A i \in 1 .. n : i # c => w[i] = u[i]
  BY <1>1 DEF CostIn
<1>7. SumTo(w, n) = SumTo(u, n) + x
  <2>1. n \in Nat /\ c \in 1 .. n
    BY <1>1
  <2>2. u \in [1 .. n -> Int] /\ w \in [1 .. n -> Int]
    BY <1>3
  <2> HIDE DEF n, x, u, w
  <2> QED
    BY <1>2, <1>5, <1>6, <2>1, <2>2, SumPlusOne
<1> QED
  BY <1>4, <1>7 DEF Spent

(* The classes after c traded up to p.                                     *)
Traded(c, p) ==
    [d \in DOMAIN cls |->
        IF d = c THEN Grown(c, p)
        ELSE IF d \in Subsumed(c, p) THEN [cls[d] EXCEPT !.alive = FALSE]
        ELSE cls[d]]

(* A class that trades up stays well typed and alive, and sits on p.       *)
LEMMA GrownType ==
    ASSUME TypeOK, NEW c \in DOMAIN cls, NEW p \in Hits \cup req.source
    PROVE  /\ Grown(c, p) \in Class
           /\ Grown(c, p).top = p
           /\ Grown(c, p).alive = cls[c].alive
<1> DEFINE gone == {c} \cup Subsumed(c, p)
           Refs == {Ref(s) : s \in Hits \cup req.source}
<1>1. gone \subseteq DOMAIN cls
  BY DEF Subsumed, Live, TypeOK
<1>2. \A o \in gone : cls[o] \in Class
  BY <1>1, TopCost
<1>3. EvidenceFor(Ref(p)) \subseteq Ids
  BY DEF EvidenceFor
<1>4. MergedEvidence(c, p) \subseteq Ids
  <2>1. \A o \in gone : cls[o].evidence \subseteq Ids
    BY <1>2 DEF Class
  <2>2. MergedEvidence(c, p) = EvidenceFor(Ref(p)) \cup UNION {cls[o].evidence : o \in gone}
    BY DEF MergedEvidence
  <2> SUFFICES ASSUME NEW j \in MergedEvidence(c, p), j \notin EvidenceFor(Ref(p))
               PROVE  j \in Ids
    BY <1>3
  <2>3. j \in UNION {cls[o].evidence : o \in gone}
    BY <2>2, Zenon
  <2>4. PICK e \in {cls[o].evidence : o \in gone} : j \in e
    BY <2>3, Zenon
  <2> QED
    BY <2>1, <2>4
<1>5. MergedRank(c, p) \in Ids
  <2> DEFINE ranks == {cls[o].rank : o \in gone} \cup EvidenceFor(Ref(p))
  <2>1. ranks \subseteq Ids /\ cls[c].rank \in ranks
    BY <1>2, <1>3 DEF Class
  <2>2. Ids \subseteq Nat
    BY DEF Ids
  <2>3. MergedRank(c, p) = Min(ranks)
    BY DEF MergedRank
  <2> HIDE DEF ranks
  <2> QED
    BY <2>1, <2>2, <2>3, MinIsLeast
<1>6. {Ref(cls[o].top) : o \in gone} \subseteq Refs
  BY <1>2 DEF Class
<1>7. UNION {cls[o].replaced : o \in gone} \subseteq Refs
  BY <1>2 DEF Class
<1>8. cls[c] \in Class
  BY TopCost
<1> DEFINE replaced == cls[c].replaced \cup {Ref(cls[o].top) : o \in gone}
                                       \cup UNION {cls[o].replaced : o \in gone}
<1>9. replaced \subseteq Refs
  BY <1>6, <1>7, <1>8 DEF Class
<1>10. Grown(c, p) =
         [cls[c] EXCEPT !.top = p, !.levels = @ + 1, !.parked = None,
                        !.evidence = MergedEvidence(c, p),
                        !.rank = MergedRank(c, p),
                        !.replaced = replaced]
  BY DEF Grown
<1>11. Grown(c, p) =
         [top |-> p, rank |-> MergedRank(c, p), evidence |-> MergedEvidence(c, p),
          alive |-> cls[c].alive, levels |-> cls[c].levels + 1, replaced |-> replaced,
          saturated |-> cls[c].saturated, skip |-> cls[c].skip, parked |-> None]
  <2> HIDE DEF replaced
  <2> QED
    BY <1>8, <1>10 DEF Class
<1>12. /\ cls[c].alive \in BOOLEAN /\ cls[c].levels \in Nat
       /\ cls[c].saturated \in BOOLEAN /\ cls[c].skip \subseteq Sizes
  BY <1>8 DEF Class
<1> HIDE DEF replaced
<1> QED
  BY <1>4, <1>5, <1>9, <1>11, <1>12 DEF Class

(* A trade changes what the live tops cost by delta: the parent's cost is  *)
(* added, those of the top and of every absorbed class are taken off.      *)
LEMMA SpentByTrading ==
    ASSUME TypeOK, NEW c \in Live, NEW p \in Hits \cup req.source,
           req' = req, packed' = packed, cls' = Traded(c, p)
    PROVE  Spent(Live)' = Spent(Live) + Delta(c, p)
<1> DEFINE n == Len(req.hits)
           gone == Subsumed(c, p)
           x == Cost(p) - Cost(cls[c].top)
           u == CostIn(Live)
           h == CostIn(gone)
           f == [i \in 1 .. n |-> IF i \in Live \ gone
                                  THEN IF i = c THEN Cost(p) ELSE Cost(cls[i].top) ELSE 0]
           w == [i \in 1 .. n |-> f[i] + h[i]]
<1>1. /\ n \in Nat /\ Ids = 1 .. n /\ DOMAIN cls \subseteq 1 .. n
      /\ Live \subseteq DOMAIN cls /\ gone \subseteq Live \ {c}
  BY CostInType DEF TypeOK, Live, Subsumed
<1>2. Cost(p) \in Nat /\ \A i \in DOMAIN cls : Cost(cls[i].top) \in Nat
  BY TopCost, CostIsNat DEF TypeOK
<1>3. u \in [1 .. n -> Int] /\ h \in [1 .. n -> Int]
  BY <1>1, CostInType
<1>4. f \in [1 .. n -> Int]
  BY <1>1, <1>2
<1>5. w \in [1 .. n -> Int]
  BY <1>3, <1>4
<1>6. CostIn(Live)' = f
  <2>1. Live' = Live \ gone
    <3>1. cls'[c].alive = cls[c].alive
      BY <1>1, GrownType DEF Traded
    <3>2. \A i \in gone : cls'[i].alive = FALSE
      BY <1>1, TopCost DEF Traded, Class
    <3>3. \A i \in DOMAIN cls : i # c /\ i \notin gone => cls'[i].alive = cls[i].alive
      BY DEF Traded
    <3>4. packed \subseteq DOMAIN cls
      BY DEF TypeOK
    <3> HIDE DEF gone
    <3> QED
      BY <1>1, <3>1, <3>2, <3>3, <3>4 DEF Live
  <2>2. \A i \in Live \ gone : cls'[i].top = IF i = c THEN p ELSE cls[i].top
    BY <1>1, GrownType DEF Traded
  <2>3. CostIn(Live)' = [i \in Ids |-> IF i \in Live' THEN Cost(cls'[i].top) ELSE 0]
    BY DEF CostIn, Ids, Cost
  <2> QED
    BY <1>1, <2>1, <2>2, <2>3
<1>7. w[c] = u[c] + x
  <2>1. f[c] = Cost(p) /\ h[c] = 0 /\ u[c] = Cost(cls[c].top)
    BY <1>1 DEF CostIn
  <2>2. w[c] = f[c] + h[c]
    BY <1>1
  <2> HIDE DEF f, h, u, w
  <2> QED
    BY <1>1, <1>2, <2>1, <2>2
<1>8. ASSUME NEW i \in 1 .. n, i # c PROVE w[i] = u[i]
  <2>1. CASE i \in gone
    <3>1. f[i] = 0 /\ h[i] = Cost(cls[i].top) /\ u[i] = Cost(cls[i].top)
      BY <1>1, <1>8, <2>1 DEF CostIn
    <3> QED
      BY <1>1, <1>2, <2>1, <3>1
  <2>2. CASE i \notin gone
    <3>1. f[i] = u[i] /\ h[i] = 0
      BY <1>1, <1>8, <2>2 DEF CostIn
    <3>2. f[i] \in Int
      BY <1>4
    <3> HIDE DEF f, h, u
    <3> QED
      BY <3>1, <3>2
  <2> QED
    BY <2>1, <2>2
<1>9. SumTo(w, n) = SumTo(u, n) + x
  <2>1. c \in 1 .. n /\ n \in Nat /\ x \in Int
    BY <1>1, <1>2
  <2>2. \A i \in 1 .. n : i # c => w[i] = u[i]
    BY <1>8
  <2>3. u \in [1 .. n -> Int]
    BY <1>3
  <2> HIDE DEF n, x, u, w
  <2> QED
    BY <1>5, <1>7, <2>1, <2>2, <2>3, SumPlusOne
<1>10. SumTo(w, n) = SumTo(f, n) + SumTo(h, n)
  <2>1. \A i \in 1 .. n : w[i] = f[i] + h[i]
    OBVIOUS
  <2> HIDE DEF n, f, h, w
  <2> QED
    BY <1>1, <1>3, <1>4, <1>5, <2>1, SumAdds
<1>11. SumTo(u, n) \in Int /\ SumTo(f, n) \in Int /\ SumTo(h, n) \in Int
  <2> HIDE DEF n, u, f, h
  <2> QED
    BY <1>1, <1>3, <1>4, SumToInt
<1>12. /\ Spent(Live) = SumTo(u, n) /\ Spent(gone) = SumTo(h, n)
       /\ Spent(Live)' = SumTo(f, n)
  BY <1>6 DEF Spent
<1>13. Delta(c, p) = x - SumTo(h, n)
  BY <1>12 DEF Delta
<1>14. x \in Int
  BY <1>1, <1>2
<1> HIDE DEF n, u, f, h, w, x
<1> QED
  BY <1>9, <1>10, <1>11, <1>12, <1>13, <1>14

-----------------------------------------------------------------------------
(* The inductive invariant.                                                *)
LEMMA InitIInv == Init => IInv
<1> SUFFICES ASSUME Init PROVE IInv
  OBVIOUS
<1>1. DOMAIN cls = {}
  BY DEF Init
<1>2. TypeOK
  <2>1. cls \in [DOMAIN cls -> Class]
    BY DEF Init
  <2> QED
    BY <1>1, <2>1, RequestsAssumption DEF Init, TypeOK
<1>3. PhaseInv /\ Ledger
  BY DEF Init, PhaseInv, Ledger
<1> QED
  BY <1>2, <1>3 DEF IInv

(* The leaf classes are well typed and alive.                              *)
LEMMA ClassesType ==
    ASSUME IsRequest(req)
    PROVE  /\ DOMAIN Classes \subseteq Ids
           /\ Classes \in [DOMAIN Classes -> Class]
           /\ \A c \in DOMAIN Classes : Classes[c].alive
BY NewClassType DEF Classes

(* What the class type says depends on the request alone.                  *)
LEMMA ClassUnchanged ==
    ASSUME req' = req PROVE Class' = Class /\ Ids' = Ids
BY DEF Class, Ids, Hits

(* Dedup without a budget keeps the invariant.                             *)
LEMMA DedupOnlyStep == IInv /\ DedupOnly => IInv'
<1> SUFFICES ASSUME IInv, DedupOnly PROVE IInv'
  OBVIOUS
<1>1. TypeOK'
  <2>1. Class' = Class /\ Ids' = Ids /\ cls' = Classes /\ req' = req
    BY ClassUnchanged DEF DedupOnly
  <2>2. DOMAIN cls' \subseteq Ids' /\ cls' \in [DOMAIN cls' -> Class']
    BY <2>1, ClassesType DEF IInv, TypeOK
  <2> QED
    BY <2>1, <2>2 DEF IInv, TypeOK, PhaseInv, DedupOnly
<1>2. PhaseInv' /\ Ledger'
  BY DEF DedupOnly, PhaseInv, Ledger
<1> QED
  BY <1>1, <1>2 DEF IInv

(* Dedup keeps it: nothing is spent yet.                                   *)
LEMMA DedupStep == IInv /\ Dedup => IInv'
<1> SUFFICES ASSUME IInv, Dedup PROVE IInv'
  OBVIOUS
<1>1. req.budget \in Nat
  BY DEF IInv, TypeOK, IsRequest, Dedup
<1>2. TypeOK'
  <2>1. Class' = Class /\ Ids' = Ids /\ cls' = Classes /\ req' = req
    BY ClassUnchanged DEF Dedup
  <2>2. DOMAIN cls' \subseteq Ids' /\ cls' \in [DOMAIN cls' -> Class']
    BY <2>1, ClassesType DEF IInv, TypeOK
  <2>3. packed' = {} /\ agenda' \subseteq DOMAIN cls'
    BY <2>1 DEF IInv, PhaseInv, Dedup
  <2> QED
    BY <1>1, <2>1, <2>2, <2>3 DEF IInv, TypeOK, Dedup
<1>3. PhaseInv'
  BY ClassesType DEF IInv, TypeOK, PhaseInv, Dedup
<1>4. Ledger'
  <2>1. Live' = {}
    BY DEF IInv, PhaseInv, Dedup, Live
  <2>2. Spent({})' = 0
    <3>1. CostIn({})' \in [1 .. Len(req.hits) -> Int] /\ Len(req.hits) \in Nat
      BY HitsAreNumbered DEF IInv, TypeOK, Dedup, CostIn, Ids
    <3>2. \A i \in 1 .. Len(req.hits) : CostIn({})'[i] = 0
      BY DEF Dedup, CostIn, Ids
    <3> QED
      BY <3>1, <3>2, SumOfZeros DEF Spent, Dedup
  <2> QED
    BY <1>1, <2>1, <2>2 DEF Dedup, Ledger, Spent, CostIn
<1> QED
  BY <1>2, <1>3, <1>4 DEF IInv

(* Packing keeps it: what the leaf costs leaves the budget.                *)
LEMMA PackStep == ASSUME IInv, NEW c \in agenda, Pack(c) PROVE IInv'
<1>1. c \in DOMAIN cls /\ c \notin packed /\ cls[c].alive /\ req.budget # None
  BY DEF IInv, TypeOK, PhaseInv, Pack
<1>2. Cost(cls[c].top) \in Nat
  BY <1>1, TopCost DEF IInv
<1>3. TypeOK'
  BY <1>1, <1>2 DEF IInv, TypeOK, Pack, Class, Ids, Hits
<1>4. PhaseInv'
  BY <1>1 DEF IInv, TypeOK, PhaseInv, Pack
<1>5. Ledger'
  <2>1. Live' = Live \cup {c} /\ c \notin Live
    BY <1>1 DEF Live, Pack
  <2>2. Spent(Live)' = Spent(Live) + Cost(cls[c].top)
    BY <1>1, <2>1, SpentByPacking DEF IInv, Pack
  <2>3. left' = left - Cost(cls[c].top)
    BY DEF Pack
  <2>4. left + Spent(Live) = req.budget
    BY <1>1 DEF IInv, Ledger, Pack
  <2>5. left \in Nat /\ Spent(Live) \in Int
    BY SpentIsInt DEF IInv, TypeOK, Live
  <2>6. left' + Spent(Live)' = req.budget
    BY <1>2, <2>2, <2>3, <2>4, <2>5
  <2> QED
    BY <2>6 DEF Ledger, Pack
<1> QED
  BY <1>3, <1>4, <1>5 DEF IInv

(* A step that moves no budget and no live top keeps the ledger.           *)
LEMMA LedgerKept ==
    ASSUME Ledger, req' = req, Live' = Live, left' = left, phase # "dedup",
           \A i \in Live : cls'[i].top = cls[i].top
    PROVE  Ledger'
BY SpentUnchanged DEF Ledger

(* Dropping an unaffordable leaf keeps it: the leaf was never paid for.    *)
LEMMA SkipStep == ASSUME IInv, NEW c \in agenda, SkipUnaffordable(c) PROVE IInv'
<1>1. c \in DOMAIN cls /\ c \notin packed /\ req.budget # None
  BY DEF IInv, TypeOK, PhaseInv, SkipUnaffordable
<1>2. DOMAIN cls' = DOMAIN cls /\ \A d \in DOMAIN cls : d # c => cls'[d] = cls[d]
  BY DEF SkipUnaffordable
<1>3. TypeOK'
  <2>1. \A d \in DOMAIN cls : cls'[d] \in Class
    BY <1>1, TopCost DEF IInv, SkipUnaffordable, Class
  <2>2. Class' = Class /\ Ids' = Ids
    BY ClassUnchanged DEF SkipUnaffordable
  <2>3. cls' \in [DOMAIN cls' -> Class']
    BY <1>2, <2>1, <2>2 DEF SkipUnaffordable
  <2> QED
    BY <1>2, <2>2, <2>3 DEF IInv, TypeOK, SkipUnaffordable
<1>4. PhaseInv'
  BY <1>2 DEF IInv, TypeOK, PhaseInv, SkipUnaffordable
<1>5. Ledger'
  <2>1. Live' = Live /\ \A i \in Live : cls'[i].top = cls[i].top
    BY <1>1, <1>2 DEF IInv, TypeOK, Live, SkipUnaffordable
  <2> QED
    BY <2>1, LedgerKept DEF IInv, SkipUnaffordable
<1> QED
  BY <1>3, <1>4, <1>5 DEF IInv

(* The steps that only move the loops on.                                  *)
LEMMA LoopStep ==
    ASSUME IInv, EndPack \/ BeginRound \/ EndRound \/ UNCHANGED vars \/ \E c \in agenda : PassOver(c)
    PROVE  IInv'
<1> DEFINE Kept == req' = req /\ cls' = cls /\ packed' = packed /\ left' = left
<1>1. Kept /\ (phase' = phase \/ phase # "dedup")
  BY DEF EndPack, BeginRound, EndRound, PassOver, vars
<1>2. TypeOK'
  <2>1. Class' = Class /\ Ids' = Ids
    BY <1>1, ClassUnchanged
  <2>2. agenda' \subseteq DOMAIN cls
    BY DEF IInv, TypeOK, Live, EndPack, BeginRound, EndRound, PassOver, vars
  <2>3. phase' \in {"dedup", "pack", "between", "round", "done"}
    BY DEF IInv, TypeOK, EndPack, BeginRound, EndRound, PassOver, vars
  <2>4. round' \in Nat
    BY DEF IInv, TypeOK, EndPack, BeginRound, EndRound, PassOver, vars
  <2>5. progressed' = progressed \/ progressed' = FALSE
    BY Zenon DEF EndPack, BeginRound, EndRound, PassOver, vars
  <2>6. exhausted' = exhausted
    BY Zenon DEF EndPack, BeginRound, EndRound, PassOver, vars
  <2>7. progressed' \in BOOLEAN /\ exhausted' \in BOOLEAN
    BY <2>5, <2>6 DEF IInv, TypeOK
  <2> QED
    BY <1>1, <2>1, <2>2, <2>3, <2>4, <2>7 DEF IInv, TypeOK
<1>3. PhaseInv'
  BY DEF IInv, PhaseInv, Live, EndPack, BeginRound, EndRound, PassOver, vars
<1>4. Ledger'
  <2>1. Live' = Live /\ \A i \in Live : cls'[i].top = cls[i].top
    BY <1>1 DEF Live
  <2>2. CASE phase # "dedup"
    BY <1>1, <2>1, <2>2, LedgerKept DEF IInv
  <2>3. CASE phase = "dedup"
    BY <1>1, <2>3 DEF Ledger, EndPack, BeginRound, EndRound, PassOver, vars
  <2> QED
    BY <2>2, <2>3
<1> QED
  BY <1>2, <1>3, <1>4 DEF IInv

(* What a visit leaves alone.                                              *)
LEMMA VisitKeeps ==
    ASSUME IInv, NEW c \in agenda, Visit(c)
    PROVE  /\ c \in DOMAIN cls /\ c \in Live /\ cls[c] \in Class /\ req.budget # None
           /\ phase = "round" /\ phase' = "round" /\ req' = req /\ packed' = packed
           /\ agenda' = agenda \ {c} /\ round' = round /\ progressed' = TRUE
           /\ Class' = Class /\ Ids' = Ids
<1>1. c \in DOMAIN cls /\ c \in packed
  BY DEF IInv, TypeOK, PhaseInv, Visit
<1>2. cls[c] \in Class
  BY <1>1, TopCost DEF IInv
<1>3. Class' = Class /\ Ids' = Ids
  BY ClassUnchanged DEF Visit
<1> QED
  BY <1>1, <1>2, <1>3 DEF IInv, PhaseInv, Visit, Live

(* A visit that trades nothing: it marks class c and leaves the budget.    *)
LEMMA MarkStep ==
    ASSUME IInv, NEW c \in agenda, Visit(c), left' = left, exhausted' \in BOOLEAN,
           DOMAIN cls' = DOMAIN cls, cls' \in [DOMAIN cls -> Class],
           \A d \in DOMAIN cls : cls'[d].top = cls[d].top /\ cls'[d].alive = cls[d].alive
    PROVE  IInv'
<1>1. TypeOK'
  BY VisitKeeps DEF IInv, TypeOK
<1>2. PhaseInv'
  BY VisitKeeps DEF IInv, PhaseInv
<1>3. Ledger'
  <2>1. Live' = Live /\ \A i \in Live : cls'[i].top = cls[i].top
    BY VisitKeeps DEF IInv, TypeOK, Live
  <2> QED
    BY <2>1, VisitKeeps, LedgerKept DEF IInv
<1> QED
  BY <1>1, <1>2, <1>3 DEF IInv

(* Saturating a class keeps it.                                            *)
LEMMA SaturateStep == ASSUME IInv, NEW c \in agenda, Saturate(c) PROVE IInv'
<1>1. Visit(c) /\ left' = left /\ exhausted' \in BOOLEAN
  BY DEF Saturate, IInv, TypeOK
<1>2. cls' = [cls EXCEPT ![c] = [cls[c] EXCEPT !.saturated = TRUE, !.parked = None]]
  BY DEF Saturate
<1>3. /\ [cls[c] EXCEPT !.saturated = TRUE, !.parked = None] \in Class
      /\ [cls[c] EXCEPT !.saturated = TRUE, !.parked = None].top = cls[c].top
      /\ [cls[c] EXCEPT !.saturated = TRUE, !.parked = None].alive = cls[c].alive
  BY <1>1, VisitKeeps DEF Class
<1> QED
  BY <1>1, <1>2, <1>3, MarkStep DEF IInv, TypeOK

(* A level that cannot be used, for want of the parent or of its voucher.  *)
LEMMA SkipLevelStep ==
    ASSUME IInv, NEW c \in agenda, FetchMiss(c) \/ StaleParent(c)
    PROVE  IInv'
<1>1. Visit(c) /\ left' = left /\ exhausted' \in BOOLEAN
  BY DEF FetchMiss, StaleParent, IInv, TypeOK
<1>2. PICK size \in {NextTargetSize(c)} \ {None} :
         cls' = [cls EXCEPT ![c].skip = @ \cup {size}, ![c].parked = None]
  BY DEF FetchMiss, StaleParent
<1>3. size \in Sizes
  BY TargetIsSize
<1> DEFINE d == [cls[c] EXCEPT !.skip = @ \cup {size}, !.parked = None]
<1>4. cls' = [cls EXCEPT ![c] = d]
  BY <1>2
<1>5. d \in Class /\ d.top = cls[c].top /\ d.alive = cls[c].alive
  BY <1>1, <1>3, VisitKeeps DEF Class
<1> HIDE DEF d
<1> QED
  BY <1>1, <1>4, <1>5, MarkStep DEF IInv, TypeOK

(* Parking a class keeps it.                                               *)
LEMMA OverBudgetStep == ASSUME IInv, NEW c \in agenda, OverBudget(c) PROVE IInv'
<1>1. Visit(c) /\ left' = left /\ exhausted' \in BOOLEAN
  BY DEF OverBudget
<1> DEFINE d == [cls[c] EXCEPT !.parked = left]
<1>2. cls' = [cls EXCEPT ![c] = d]
  BY DEF OverBudget
<1>3. d \in Class /\ d.top = cls[c].top /\ d.alive = cls[c].alive
  BY <1>1, VisitKeeps DEF Class, IInv, TypeOK
<1> HIDE DEF d
<1> QED
  BY <1>1, <1>2, <1>3, MarkStep DEF IInv, TypeOK

(* A trade keeps it: the delta is what the live tops cost more.            *)
LEMMA TradeUpStep == ASSUME IInv, NEW c \in agenda, TradeUp(c) PROVE IInv'
<1>1. Visit(c) /\ exhausted' = exhausted
  BY DEF TradeUp
<1>2. PICK p \in Offers(c) :
         /\ Delta(c, p) <= left
         /\ left' = left - Delta(c, p)
         /\ cls' = Traded(c, p)
  BY DEF TradeUp, Traded
<1>3. p \in Hits \cup req.source
  BY OfferIsSlice
<1>4. Delta(c, p) \in Int
  BY <1>1, <1>3, VisitKeeps, DeltaIsInt DEF IInv
<1>5. left' \in Nat
  BY <1>2, <1>4 DEF IInv, TypeOK
<1>6. DOMAIN cls' = DOMAIN cls /\ cls' \in [DOMAIN cls -> Class]
  <2>1. Grown(c, p) \in Class
    BY <1>1, <1>3, VisitKeeps, GrownType DEF IInv
  <2>2. \A d \in DOMAIN cls : [cls[d] EXCEPT !.alive = FALSE] \in Class
    BY TopCost DEF IInv, Class
  <2> QED
    BY <1>2, <2>1, <2>2 DEF Traded, IInv, TypeOK
<1>7. TypeOK'
  BY <1>1, <1>5, <1>6, VisitKeeps DEF IInv, TypeOK
<1>8. PhaseInv'
  BY <1>1, VisitKeeps DEF IInv, PhaseInv
<1>9. Ledger'
  <2>1. Spent(Live)' = Spent(Live) + Delta(c, p)
    BY <1>1, <1>2, <1>3, VisitKeeps, SpentByTrading DEF IInv
  <2>2. left + Spent(Live) = req.budget
    BY <1>1, VisitKeeps DEF IInv, Ledger
  <2>3. left \in Nat /\ Spent(Live) \in Int
    BY SpentIsInt DEF IInv, TypeOK, Live
  <2>4. left' + Spent(Live)' = req.budget
    BY <1>2, <1>4, <2>1, <2>2, <2>3
  <2> QED
    BY <1>1, <2>4, VisitKeeps DEF Ledger
<1> QED
  BY <1>7, <1>8, <1>9 DEF IInv

(* Every step keeps the invariant.                                         *)
LEMMA NextIInv == IInv /\ [Next]_vars => IInv'
<1> SUFFICES ASSUME IInv, [Next]_vars PROVE IInv'
  OBVIOUS
<1>1. CASE DedupOnly
  BY <1>1, DedupOnlyStep
<1>2. CASE Dedup
  BY <1>2, DedupStep
<1>3. CASE EndPack \/ BeginRound \/ EndRound \/ UNCHANGED vars
  BY <1>3, LoopStep
<1>4. ASSUME NEW c \in agenda, Step(c) PROVE IInv'
  <2>1. CASE Pack(c)
    BY <2>1, PackStep
  <2>2. CASE SkipUnaffordable(c)
    BY <2>2, SkipStep
  <2>3. CASE PassOver(c)
    BY <2>3, LoopStep
  <2>4. CASE Saturate(c)
    BY <2>4, SaturateStep
  <2>5. CASE FetchMiss(c) \/ StaleParent(c)
    BY <2>5, SkipLevelStep
  <2>6. CASE OverBudget(c)
    BY <2>6, OverBudgetStep
  <2>7. CASE TradeUp(c)
    BY <2>7, TradeUpStep
  <2> QED
    BY <1>4, <2>1, <2>2, <2>3, <2>4, <2>5, <2>6, <2>7 DEF Step
<1> QED
  BY <1>1, <1>2, <1>3, <1>4 DEF Next

(* The invariant holds of every reachable state.                           *)
THEOREM Invariance == Spec => []IInv
<1> QED
  BY InitIInv, NextIInv, PTL DEF Spec

(* Every variable keeps its type; in particular budget_left never goes     *)
(* below zero, whatever the order of packs, parks and trades.              *)
THEOREM TypeCorrect == Spec => []TypeOK
<1>1. IInv => TypeOK
  BY DEF IInv
<1> QED
  BY <1>1, Invariance, PTL

(* The remaining budget and the cost of the live tops always make up the   *)
(* budget of the request: no trade forgets or double-counts what it        *)
(* replaces, and tokens_used never exceeds the budget.                     *)
THEOREM LedgerHolds == Spec => []Ledger
<1>1. IInv => Ledger
  BY DEF IInv
<1> QED
  BY <1>1, Invariance, PTL

-----------------------------------------------------------------------------
(* The slices a request holds.                                             *)
LEMMA SlicesOfRequest ==
    ASSUME IsRequest(req)
    PROVE  /\ Retrieved(Hits)
           /\ \A s \in Hits \cup req.source : s # None /\ IsCut(s)
<1>1. \A s \in Hits \cup req.source : IsSlice(s)
  BY HitsAreNumbered DEF Hits, IsRequest
<1>2. \A g, h \in Hits : Ref(g) = Ref(h) => g = h
  BY HitsAreNumbered DEF Hits, IsRequest
<1> QED
  BY <1>1, <1>2 DEF Retrieved, IsSlice

(* A ref resolves to a slice of the request with that ref, or to none.     *)
LEMMA ResolvesToRef ==
    ASSUME IsRequest(req), NEW ref, Resolve(ref) # None
    PROVE  /\ Resolve(ref) \in Hits \cup req.source
           /\ Ref(Resolve(ref)) = ref
           /\ req.expansion = "retrieved_only" => Resolve(ref) \in Hits
<1> DEFINE R == {h \in Hits : Ref(h) = ref}
           F == {s \in req.source : Ref(s) = ref}
<1>1. CASE R # {}
  <2>1. Resolve(ref) \in R
    BY <1>1 DEF Resolve
  <2> QED
    BY <2>1
<1>2. CASE R = {}
  <2>1. req.expansion # "retrieved_only" /\ F # {} /\ Resolve(ref) = CHOOSE s \in F : TRUE
    BY <1>2 DEF Resolve
  <2>2. Resolve(ref) \in F
    BY <2>1
  <2> QED
    BY <2>1, <2>2
<1> QED
  BY <1>1, <1>2

(* A retrieved ref resolves to the retrieved slice, never to a prefetched  *)
(* one.                                                                    *)
LEMMA HitsResolve ==
    ASSUME IsRequest(req), NEW h \in Hits
    PROVE  Resolve(Ref(h)) = h
<1>1. {g \in Hits : Ref(g) = Ref(h)} = {h}
  BY SlicesOfRequest DEF Retrieved
<1> QED
  BY <1>1 DEF Resolve

-----------------------------------------------------------------------------
(* The classes stand for leaves; a class that traded up sits on a slice    *)
(* its own ref resolves to, within what the options allow; and no two live *)
(* classes sit on one slice.                                               *)
SitsWell(c) ==
    /\ req.hits[c] \in Leaves(Hits)
    /\ Resolve(Ref(cls[c].top)) = cls[c].top
    /\ req.expansion = "retrieved_only" => cls[c].top \in Hits
    /\ cls[c].levels = 0 => cls[c].top = req.hits[c]
    /\ cls[c].levels > 0 => /\ req.expansion # "off" /\ phase # "pack"
                            /\ req.maxSize # None => cls[c].top.size <= req.maxSize

TopsInv ==
    /\ phase \in {"between", "round"} => req.expansion # "off"
    /\ phase = "dedup" => DOMAIN cls = {}
    /\ \A c \in DOMAIN cls : SitsWell(c)
    /\ \A c, d \in Live : Ref(cls[c].top) = Ref(cls[d].top) => c = d

(* What a visit may be offered.                                            *)
LEMMA OfferFacts ==
    ASSUME IInv, NEW c \in DOMAIN cls, NEW p \in Offers(c)
    PROVE  /\ p \in Hits \cup req.source /\ p # None /\ IsCut(p)
           /\ Resolve(Ref(p)) = p
           /\ p.size \in LevelsAbove(cls[c].top.size) \ cls[c].skip
           /\ Allowed(p.size) /\ ~ Degenerate(cls[c].top, p.size)
           /\ p.doc = cls[c].top.doc
           /\ p.off = ParentOffset(cls[c].top.off, p.size)
           /\ Vouches(p, cls[c].top)
           /\ req.expansion = "retrieved_only" => p \in Hits
<1>1. PICK size : /\ size = NextTargetSize(c) /\ size # None
                  /\ p = Resolve(ParentRef(cls[c].top, size)) /\ p # None /\ Vouches(p, cls[c].top)
  BY DEF Offers, Parent
<1>2. IsRequest(req)
  BY DEF IInv, TypeOK
<1>3. /\ p \in Hits \cup req.source /\ IsCut(p)
      /\ Ref(p) = ParentRef(cls[c].top, size)
      /\ req.expansion = "retrieved_only" => p \in Hits
  BY <1>1, <1>2, ResolvesToRef, SlicesOfRequest
<1>4. p.size = size /\ p.doc = cls[c].top.doc /\ p.off = ParentOffset(cls[c].top.off, size)
  BY <1>3 DEF Ref, ParentRef
<1> DEFINE open == {z \in LevelsAbove(cls[c].top.size) \ cls[c].skip :
                      Allowed(z) /\ ~ Degenerate(cls[c].top, z)}
<1>5. size \in open
  <2>1. open \subseteq Nat
    BY GridAssumption DEF LevelsAbove
  <2>2. open # {} /\ size = Min(open)
    BY <1>1 DEF NextTargetSize
  <2> HIDE DEF open
  <2> QED
    BY <2>1, <2>2, MinIsLeast
<1> QED
  BY <1>1, <1>3, <1>4, <1>5

(* What a trade does.                                                      *)
Trading(c, p) ==
    /\ p \in Offers(c) /\ c \in Live
    /\ req' = req /\ packed' = packed /\ phase = "round" /\ phase' = "round"
    /\ cls' = Traded(c, p)
    /\ trades' = Append(trades, [from |-> Ref(cls[c].top), to |-> Ref(p),
                            absorbed |-> {Ref(cls[o].top) : o \in Subsumed(c, p)}])

(* The action TradeUp trades its class for a slice it was offered.         *)
LEMMA TradeUpTrades ==
    ASSUME IInv, NEW c \in agenda, TradeUp(c)
    PROVE  \E p \in Offers(c) : Trading(c, p)
<1>1. Visit(c)
  BY DEF TradeUp
<1>2. c \in Live /\ phase = "round" /\ phase' = "round" /\ req' = req /\ packed' = packed
  BY <1>1, VisitKeeps
<1> QED
  BY <1>2 DEF TradeUp, Trading, Traded

(* What a trade changes, and what it leaves alone, class by class.         *)
LEMMA TradingFacts ==
    ASSUME IInv, NEW c, NEW p, Trading(c, p)
    PROVE  /\ c \in DOMAIN cls /\ DOMAIN cls' = DOMAIN cls /\ Subsumed(c, p) \subseteq Live \ {c}
           /\ Live \subseteq DOMAIN cls /\ Live \subseteq packed
           /\ cls'[c] = Grown(c, p) /\ cls'[c].top = p /\ cls'[c].levels = cls[c].levels + 1
           /\ cls'[c].evidence = MergedEvidence(c, p) /\ cls'[c].rank = MergedRank(c, p)
           /\ cls'[c].replaced = cls[c].replaced
                 \cup {Ref(cls[o].top) : o \in {c} \cup Subsumed(c, p)}
                 \cup UNION {cls[o].replaced : o \in {c} \cup Subsumed(c, p)}
           /\ \A d \in DOMAIN cls \ {c} :
                 /\ cls'[d].top = cls[d].top /\ cls'[d].levels = cls[d].levels
                 /\ cls'[d].evidence = cls[d].evidence /\ cls'[d].rank = cls[d].rank
                 /\ cls'[d].replaced = cls[d].replaced
           /\ Live' = Live \ Subsumed(c, p) /\ c \in Live'
           /\ Hits' = Hits /\ Ids' = Ids
<1>1. /\ c \in Live /\ c \in DOMAIN cls /\ Live \subseteq DOMAIN cls /\ Live \subseteq packed
      /\ Subsumed(c, p) \subseteq Live \ {c} /\ p \in Hits \cup req.source
  BY OfferFacts DEF Trading, IInv, TypeOK, Live, Subsumed
<1>2. cls[c] \in Class /\ \A d \in DOMAIN cls : cls[d] \in Class
  BY <1>1, TopCost DEF IInv
<1>3. cls' = Traded(c, p) /\ DOMAIN cls' = DOMAIN cls /\ cls'[c] = Grown(c, p)
  BY <1>1 DEF Trading, Traded
<1>4. /\ Grown(c, p).top = p /\ Grown(c, p).alive = cls[c].alive /\ Grown(c, p).levels = cls[c].levels + 1
      /\ Grown(c, p).evidence = MergedEvidence(c, p) /\ Grown(c, p).rank = MergedRank(c, p)
      /\ Grown(c, p).replaced = cls[c].replaced
            \cup {Ref(cls[o].top) : o \in {c} \cup Subsumed(c, p)}
            \cup UNION {cls[o].replaced : o \in {c} \cup Subsumed(c, p)}
  BY <1>2 DEF Grown, Class
<1>5. ASSUME NEW d \in DOMAIN cls \ {c}
      PROVE  /\ cls'[d].top = cls[d].top /\ cls'[d].levels = cls[d].levels
             /\ cls'[d].evidence = cls[d].evidence /\ cls'[d].rank = cls[d].rank
             /\ cls'[d].replaced = cls[d].replaced
             /\ cls'[d].alive = IF d \in Subsumed(c, p) THEN FALSE ELSE cls[d].alive
  <2>1. cls'[d] = IF d \in Subsumed(c, p) THEN [cls[d] EXCEPT !.alive = FALSE] ELSE cls[d]
    BY <1>3 DEF Traded
  <2> QED
    BY <1>2, <2>1 DEF Class
<1>6. Live' = Live \ Subsumed(c, p) /\ c \in Live'
  <2>1. packed' = packed /\ packed \subseteq DOMAIN cls /\ cls[c].alive
    BY <1>1 DEF Trading, IInv, TypeOK, Live
  <2>2. cls'[c].alive
    BY <1>3, <1>4, <2>1
  <2>3. ASSUME NEW d \in packed, d # c
        PROVE  cls'[d].alive <=> cls[d].alive /\ d \notin Subsumed(c, p)
    <3>1. d \in DOMAIN cls \ {c}
      BY <2>1, <2>3
    <3>2. cls'[d].alive = IF d \in Subsumed(c, p) THEN FALSE ELSE cls[d].alive
      BY <1>5, <3>1
    <3> QED
      BY <3>2, Zenon
  <2>4. Live' = {d \in packed : cls'[d].alive} /\ Live = {d \in packed : cls[d].alive}
    BY <2>1 DEF Live
  <2>5. c \in packed /\ c \notin Subsumed(c, p)
    BY <1>1
  <2> QED
    BY <2>1, <2>2, <2>3, <2>4, <2>5
<1>7. Hits' = Hits /\ Ids' = Ids
  BY DEF Trading, Hits, Ids
<1> QED
  BY <1>1, <1>3, <1>4, <1>5, <1>6, <1>7

(* A step that neither deduplicates, packs nor trades leaves the tops and  *)
(* what the classes carry alone.                                           *)
Quiet ==
    /\ req' = req /\ packed' = packed /\ trades' = trades
    /\ DOMAIN cls' = DOMAIN cls /\ Live' = Live
    /\ \A c \in DOMAIN cls :
          /\ cls'[c].top = cls[c].top /\ cls'[c].levels = cls[c].levels
          /\ cls'[c].evidence = cls[c].evidence /\ cls'[c].rank = cls[c].rank
          /\ cls'[c].replaced = cls[c].replaced
    /\ phase' \in {"between", "round"} => phase \in {"between", "round"} \/ req.expansion # "off"
    /\ phase' = "pack" <=> phase = "pack" /\ phase' = phase
    /\ phase' = "dedup" <=> phase = "dedup"

(* Opening, passing over and closing a loop leaves the selection alone.    *)
LEMMA LoopsAreQuiet ==
    ASSUME IInv, \/ EndPack \/ BeginRound \/ EndRound \/ UNCHANGED vars
                 \/ \E c \in agenda : PassOver(c)
    PROVE  Quiet
<1>1. req' = req /\ packed' = packed /\ trades' = trades /\ cls' = cls
  BY DEF EndPack, BeginRound, EndRound, PassOver, vars
<1>2. Live' = Live
  BY <1>1 DEF Live
<1>3. /\ phase' \in {"between", "round"} => phase \in {"between", "round"} \/ req.expansion # "off"
      /\ phase' = "pack" <=> phase = "pack" /\ phase' = phase
      /\ phase' = "dedup" <=> phase = "dedup"
  BY DEF EndPack, BeginRound, EndRound, PassOver, vars
<1> QED
  BY <1>1, <1>2, <1>3 DEF Quiet

(* A step that only marks class c: alive, saturated, skip or parked.       *)
LEMMA MarksAreQuiet ==
    ASSUME IInv, NEW c \in DOMAIN cls, NEW d, cls' = [cls EXCEPT ![c] = d],
           d.top = cls[c].top, d.levels = cls[c].levels, d.evidence = cls[c].evidence,
           d.rank = cls[c].rank, d.replaced = cls[c].replaced,
           c \in packed => d.alive = cls[c].alive,
           req' = req, packed' = packed, trades' = trades, phase' = phase
    PROVE  Quiet
<1>1. packed \subseteq DOMAIN cls /\ DOMAIN cls' = DOMAIN cls
  BY DEF IInv, TypeOK
<1>2. cls'[c] = d /\ \A e \in DOMAIN cls : e # c => cls'[e] = cls[e]
  OBVIOUS
<1>3. \A e \in packed : cls'[e].alive = cls[e].alive
  BY <1>1, <1>2
<1>4. Live' = Live
  BY <1>1, <1>3 DEF Live
<1> QED
  BY <1>1, <1>2, <1>4 DEF Quiet

(* Every step dedups, packs one class, trades one class up, or is quiet.   *)
LEMMA NextKinds ==
    ASSUME IInv, [Next]_vars
    PROVE  \/ DedupOnly
           \/ Dedup
           \/ \E c \in agenda : Pack(c)
           \/ \E c \in agenda : \E p \in Offers(c) : Trading(c, p)
           \/ Quiet
<1>1. CASE EndPack \/ BeginRound \/ EndRound \/ UNCHANGED vars
  BY <1>1, LoopsAreQuiet
<1>2. ASSUME NEW c \in agenda, PassOver(c) PROVE Quiet
  BY <1>2, LoopsAreQuiet
<1>3. ASSUME NEW c \in agenda, SkipUnaffordable(c) PROVE Quiet
  <2> DEFINE d == [cls[c] EXCEPT !.alive = FALSE]
  <2>1. c \in DOMAIN cls /\ c \notin packed /\ cls[c] \in Class
    BY <1>3, TopCost DEF IInv, TypeOK, PhaseInv, SkipUnaffordable
  <2>2. /\ d.top = cls[c].top /\ d.levels = cls[c].levels /\ d.evidence = cls[c].evidence
        /\ d.rank = cls[c].rank /\ d.replaced = cls[c].replaced
    BY <2>1 DEF Class
  <2>3. cls' = [cls EXCEPT ![c] = d]
    BY <1>3 DEF SkipUnaffordable
  <2> HIDE DEF d
  <2> QED
    BY <1>3, <2>1, <2>2, <2>3, MarksAreQuiet DEF SkipUnaffordable
<1>4. ASSUME NEW c \in agenda, Saturate(c) PROVE Quiet
  <2> DEFINE d == [cls[c] EXCEPT !.saturated = TRUE, !.parked = None]
  <2>1. c \in DOMAIN cls /\ cls[c] \in Class /\ phase' = phase /\ req' = req /\ packed' = packed
    BY <1>4, VisitKeeps DEF Saturate
  <2>2. /\ d.top = cls[c].top /\ d.levels = cls[c].levels /\ d.evidence = cls[c].evidence
        /\ d.rank = cls[c].rank /\ d.replaced = cls[c].replaced /\ d.alive = cls[c].alive
    BY <2>1 DEF Class
  <2>3. cls' = [cls EXCEPT ![c] = d] /\ trades' = trades
    BY <1>4 DEF Saturate
  <2> HIDE DEF d
  <2> QED
    BY <2>1, <2>2, <2>3, MarksAreQuiet
<1>5. ASSUME NEW c \in agenda, FetchMiss(c) \/ StaleParent(c) PROVE Quiet
  <2>1. PICK size : cls' = [cls EXCEPT ![c].skip = @ \cup {size}, ![c].parked = None]
    BY <1>5 DEF FetchMiss, StaleParent
  <2> DEFINE d == [cls[c] EXCEPT !.skip = @ \cup {size}, !.parked = None]
  <2>2. Visit(c) /\ trades' = trades
    BY <1>5 DEF FetchMiss, StaleParent
  <2>3. c \in DOMAIN cls /\ cls[c] \in Class /\ phase' = phase /\ req' = req /\ packed' = packed
    BY <2>2, VisitKeeps
  <2>4. /\ d.top = cls[c].top /\ d.levels = cls[c].levels /\ d.evidence = cls[c].evidence
        /\ d.rank = cls[c].rank /\ d.replaced = cls[c].replaced /\ d.alive = cls[c].alive
    BY <2>3 DEF Class
  <2>5. cls' = [cls EXCEPT ![c] = d]
    BY <2>1
  <2> HIDE DEF d
  <2> QED
    BY <2>2, <2>3, <2>4, <2>5, MarksAreQuiet
<1>6. ASSUME NEW c \in agenda, OverBudget(c) PROVE Quiet
  <2> DEFINE d == [cls[c] EXCEPT !.parked = left]
  <2>1. c \in DOMAIN cls /\ cls[c] \in Class /\ phase' = phase /\ req' = req /\ packed' = packed
    BY <1>6, VisitKeeps DEF OverBudget
  <2>2. /\ d.top = cls[c].top /\ d.levels = cls[c].levels /\ d.evidence = cls[c].evidence
        /\ d.rank = cls[c].rank /\ d.replaced = cls[c].replaced /\ d.alive = cls[c].alive
    BY <2>1 DEF Class
  <2>3. cls' = [cls EXCEPT ![c] = d] /\ trades' = trades
    BY <1>6 DEF OverBudget
  <2> HIDE DEF d
  <2> QED
    BY <2>1, <2>2, <2>3, MarksAreQuiet
<1> QED
  BY <1>1, <1>2, <1>3, <1>4, <1>5, <1>6, TradeUpTrades DEF Next, Step

(* What dedup leaves behind.                                               *)
LEMMA DedupFacts ==
    ASSUME IInv, DedupOnly \/ Dedup
    PROVE  /\ req' = req /\ Hits' = Hits /\ Ids' = Ids /\ trades' = trades
           /\ cls' = Classes /\ DOMAIN cls' \subseteq Ids /\ phase = "dedup"
           /\ \A c \in DOMAIN cls' : cls'[c] = NewClass(c) /\ req.hits[c] \in Leaves(Hits)
           /\ packed' \subseteq DOMAIN cls' /\ Live' = packed'
           /\ DedupOnly => phase' = "done" /\ req.budget = None
           /\ Dedup => phase' = "pack" /\ packed' = {}
<1>1. req' = req /\ Hits' = Hits /\ Ids' = Ids /\ cls' = Classes /\ phase = "dedup" /\ trades' = trades
  BY DEF DedupOnly, Dedup, Hits, Ids
<1>2. \A c \in DOMAIN Classes : /\ Classes[c] = NewClass(c) /\ Classes[c].alive
                                /\ req.hits[c] \in Leaves(Hits) /\ c \in Ids
  BY ClassesType DEF Classes, IInv, TypeOK
<1>3. packed' \subseteq DOMAIN cls'
  BY <1>1 DEF DedupOnly, Dedup, IInv, PhaseInv
<1>4. Live' = packed'
  BY <1>1, <1>2, <1>3 DEF Live
<1> QED
  BY <1>1, <1>2, <1>3, <1>4 DEF DedupOnly, Dedup, IInv, PhaseInv

-----------------------------------------------------------------------------
(* Before dedup there is no class.                                         *)
LEMMA InitTops == Init => TopsInv
BY DEF Init, TopsInv, Live

(* Every class starts on its own leaf.                                     *)
LEMMA DedupTops ==
    ASSUME IInv, TopsInv, DedupOnly \/ Dedup PROVE TopsInv'
<1>1. /\ req' = req /\ Hits' = Hits /\ Live' = packed' /\ packed' \subseteq DOMAIN cls'
      /\ phase' \in {"pack", "done"}
      /\ \A c \in DOMAIN cls' : /\ cls'[c] = NewClass(c) /\ c \in Ids
                                /\ req.hits[c] \in Leaves(Hits)
  BY DedupFacts
<1>2. IsRequest(req)
  BY DEF IInv, TypeOK
<1>3. ASSUME NEW c \in DOMAIN cls'
      PROVE  cls'[c].top = req.hits[c] /\ cls'[c].levels = 0 /\ cls'[c].top \in Hits
  <2>1. c \in Ids /\ cls'[c] = NewClass(c)
    BY <1>1
  <2>2. NewClass(c).levels = 0
    BY DEF NewClass
  <2> QED
    BY <1>2, <2>1, <2>2, HitsAreNumbered, NewClassType
<1>4. \A h \in Hits : Resolve(Ref(h)) = h
  BY <1>2, HitsResolve
<1>5. ASSUME NEW c \in DOMAIN cls' PROVE SitsWell(c)'
  <2> DEFINE h == cls'[c].top
  <2>1. Resolve(Ref(h)) = h
    BY <1>3, <1>4
  <2>2. Resolve(Ref(cls[c].top))' = Resolve(Ref(h))
    BY <1>1 DEF Resolve
  <2> QED
    BY <1>1, <1>3, <2>1, <2>2 DEF SitsWell
<1>6. ASSUME NEW c \in Live', NEW d \in Live', Ref(cls'[c].top) = Ref(cls'[d].top) PROVE c = d
  <2>1. c \in Ids /\ d \in Ids /\ Ref(req.hits[c]) = Ref(req.hits[d])
    BY <1>1, <1>3, <1>6
  <2> QED
    BY <1>2, <2>1, HitsAreNumbered DEF IsRequest
<1> QED
  BY <1>1, <1>5, <1>6 DEF TopsInv

(* Packed leaves differ, so their refs do.                                 *)
LEMMA PackTops ==
    ASSUME IInv, TopsInv, NEW c \in agenda, Pack(c) PROVE TopsInv'
<1>1. /\ req' = req /\ Hits' = Hits /\ cls' = cls /\ phase = "pack" /\ phase' = "pack"
      /\ Live' \subseteq DOMAIN cls
  BY DEF Pack, Hits, Ids, Live, IInv, TypeOK
<1>2. \A d \in DOMAIN cls : cls[d].top = req.hits[d] /\ d \in Ids
  <2>1. \A d \in DOMAIN cls : cls[d].levels \in Nat /\ d \in Ids
    BY TopCost DEF IInv, TypeOK, Class
  <2> QED
    BY <1>1, <2>1 DEF TopsInv, SitsWell
<1>3. ASSUME NEW d \in DOMAIN cls PROVE SitsWell(d)'
  BY <1>1 DEF TopsInv, SitsWell, Resolve
<1>4. ASSUME NEW d \in Live', NEW e \in Live', Ref(cls'[d].top) = Ref(cls'[e].top) PROVE d = e
  <2>1. d \in Ids /\ e \in Ids /\ Ref(req.hits[d]) = Ref(req.hits[e])
    BY <1>1, <1>2, <1>4
  <2> QED
    BY <2>1, HitsAreNumbered DEF IsRequest, IInv, TypeOK
<1> QED
  BY <1>1, <1>3, <1>4 DEF TopsInv

(* A trade puts its class on a ref no other live class sits on: whoever    *)
(* did is absorbed.                                                        *)
LEMMA TradeTops ==
    ASSUME IInv, TopsInv, NEW c, NEW p, Trading(c, p) PROVE TopsInv'
<1>1. /\ c \in DOMAIN cls /\ p \in Offers(c) /\ req' = req /\ phase = "round" /\ phase' = "round"
      /\ DOMAIN cls' = DOMAIN cls
  BY TradingFacts DEF Trading
<1>2. ASSUME NEW d \in DOMAIN cls PROVE SitsWell(d)'
  <2>1. SitsWell(d) /\ Hits' = Hits /\ req.expansion # "off"
    BY <1>1, TradingFacts DEF TopsInv
  <2>2. CASE d # c
    <3>1. cls'[d].top = cls[d].top /\ cls'[d].levels = cls[d].levels
      BY <2>2, TradingFacts
    <3>2. Resolve(Ref(cls[d].top))' = Resolve(Ref(cls[d].top))
      BY <1>1, <2>1, <3>1 DEF Resolve
    <3> QED
      BY <1>1, <2>1, <3>1, <3>2 DEF SitsWell
  <2>3. CASE d = c
    <3>1. cls'[c].top = p /\ cls'[c].levels = cls[c].levels + 1 /\ cls[c].levels \in Nat
      BY <1>1, TradingFacts, TopCost DEF IInv, Class
    <3>2. /\ Resolve(Ref(p)) = p /\ Allowed(p.size)
          /\ req.expansion = "retrieved_only" => p \in Hits
      BY <1>1, OfferFacts
    <3>3. Resolve(Ref(cls[d].top))' = cls'[d].top
      BY <1>1, <2>1, <2>3, <3>1, <3>2 DEF Resolve
    <3> QED
      BY <1>1, <2>1, <2>3, <3>1, <3>2, <3>3 DEF SitsWell, Allowed
  <2> QED
    BY <2>2, <2>3
<1>3. ASSUME NEW d \in Live', NEW e \in Live', Ref(cls'[d].top) = Ref(cls'[e].top) PROVE d = e
  <2>1. \A o \in Live' : /\ o \in Live /\ o \in DOMAIN cls
                         /\ o # c => cls'[o].top = cls[o].top /\ Ref(cls[o].top) # Ref(p)
    BY TradingFacts DEF Subsumed
  <2>2. cls'[c].top = p
    BY TradingFacts
  <2> QED
    BY <1>3, <2>1, <2>2 DEF TopsInv
<1> QED
  BY <1>1, <1>2, <1>3 DEF TopsInv

(* A quiet step moves no class.                                            *)
LEMMA QuietTops ==
    ASSUME IInv, TopsInv, Quiet PROVE TopsInv'
<1>1. Hits' = Hits /\ Live \subseteq DOMAIN cls
  BY DEF Quiet, Hits, Ids, Live, IInv, TypeOK
<1>2. ASSUME NEW c \in DOMAIN cls PROVE SitsWell(c)'
  BY <1>1 DEF TopsInv, SitsWell, Quiet, Resolve
<1> QED
  BY <1>1, <1>2 DEF TopsInv, Quiet

(* Every step keeps the live tops apart and where the options allow.       *)
LEMMA NextTops == IInv /\ TopsInv /\ [Next]_vars => TopsInv'
BY NextKinds, DedupTops, PackTops, TradeTops, QuietTops

(* Every run honors the options of its request.                            *)
THEOREM OptionsHonored == Spec => []HonorsOptions
<1>1. IInv /\ TopsInv => HonorsOptions
  <2> SUFFICES ASSUME IInv, TopsInv, NEW c \in Live
               PROVE  /\ req.expansion = "retrieved_only" => cls[c].top \in Hits
                      /\ req.expansion = "off" => cls[c].top = req.hits[c]
                      /\ cls[c].levels > 0 /\ req.maxSize # None => cls[c].top.size <= req.maxSize
    BY DEF HonorsOptions
  <2>1. c \in DOMAIN cls /\ cls[c].levels \in Nat /\ SitsWell(c)
    BY TopCost DEF IInv, TypeOK, Live, Class, TopsInv
  <2> QED
    BY <2>1 DEF SitsWell
<1> QED
  BY <1>1, Invariance, InitTops, NextTops, PTL DEF Spec

-----------------------------------------------------------------------------
(* A class before its first trade sits on its leaf; so do all while the    *)
(* strategy packs.                                                         *)
LEMMA PackedLeaves ==
    ASSUME IInv, TopsInv, phase = "pack", NEW c \in DOMAIN cls
    PROVE  c \in Ids /\ cls[c].top = req.hits[c] /\ req.hits[c] \in Leaves(Hits) /\ cls[c].levels = 0
<1>1. cls[c].levels \in Nat /\ c \in Ids
  BY TopCost DEF IInv, TypeOK, Class
<1> QED
  BY <1>1 DEF TopsInv, SitsWell

(* A trade puts the parent in the place of tops that it is, or vouches     *)
(* for.                                                                    *)
LEMMA AbsorbedVouched ==
    ASSUME IInv, TopsInv, NEW c, NEW p, Trading(c, p), NEW o \in {c} \cup Subsumed(c, p)
    PROVE  cls[o].top = p \/ Vouches(p, cls[o].top)
<1>1. c \in DOMAIN cls /\ p \in Offers(c) /\ o \in DOMAIN cls
  BY TradingFacts DEF Trading
<1>2. Vouches(p, cls[c].top) /\ Resolve(Ref(p)) = p
  BY <1>1, OfferFacts
<1>3. Resolve(Ref(cls[o].top)) = cls[o].top
  BY <1>1 DEF TopsInv, SitsWell
<1> QED
  BY <1>2, <1>3 DEF Subsumed, Contains

(* Tops and leaves are slices of the request.                              *)
LEMMA TopsAreSlices ==
    ASSUME IInv, NEW c \in DOMAIN cls
    PROVE  /\ cls[c].top \in Hits \cup req.source /\ IsCut(cls[c].top)
           /\ c \in Ids /\ req.hits[c] \in Hits /\ IsCut(req.hits[c])
BY TopCost, SlicesOfRequest, HitsAreNumbered DEF IInv, TypeOK

(* Nothing that was packed is ever dropped: its text goes on occurring in  *)
(* the text of a live top, even when a replace is in flight.               *)
LEMMA NextKeepsText == IInv /\ TopsInv /\ NothingDropped /\ [Next]_vars => NothingDropped'
<1> SUFFICES ASSUME IInv, TopsInv, NothingDropped, [Next]_vars PROVE NothingDropped'
  OBVIOUS
<1> DEFINE Kept == \A c \in packed : \E d \in Live : Occurs(req.hits[c].text, cls[d].top.text)
<1>1. NothingDropped <=> Kept
  BY DEF NothingDropped, Occurs
<1>2. NothingDropped' <=> Kept'
  BY DEF NothingDropped, Occurs
<1>3. packed \subseteq DOMAIN cls /\ \A c \in DOMAIN cls : IsCut(cls[c].top) /\ IsCut(req.hits[c])
  BY TopsAreSlices DEF IInv, TypeOK
<1>4. \A s : IsCut(s) => Occurs(s.text, s.text)
  BY CutText, OccursInItself
<1>5. CASE DedupOnly \/ Dedup
  <2>1. /\ packed' \subseteq DOMAIN cls' /\ Live' = packed' /\ req' = req
        /\ \A c \in DOMAIN cls' : cls'[c] = NewClass(c) /\ c \in Ids
    BY <1>5, DedupFacts
  <2>2. \A c \in Ids : NewClass(c).top = req.hits[c] /\ IsCut(req.hits[c])
    BY NewClassType, HitsAreNumbered, SlicesOfRequest DEF IInv, TypeOK
  <2>3. ASSUME NEW c \in packed' PROVE Occurs(req'.hits[c].text, cls'[c].top.text)
    BY <1>4, <2>1, <2>2, <2>3
  <2> QED
    BY <1>2, <2>1, <2>3
<1>6. ASSUME NEW c \in agenda, Pack(c) PROVE Kept'
  <2>1. /\ c \in DOMAIN cls /\ cls' = cls /\ req' = req /\ packed' = packed \cup {c}
        /\ Live' = Live \cup {c} /\ phase = "pack"
    BY <1>6 DEF Pack, IInv, PhaseInv, TypeOK, Live
  <2>2. Occurs(req.hits[c].text, cls[c].top.text)
    BY <1>3, <1>4, <2>1, PackedLeaves
  <2> QED
    BY <1>1, <2>1, <2>2
<1>7. ASSUME NEW c \in agenda, NEW p \in Offers(c), Trading(c, p) PROVE Kept'
  <2> SUFFICES ASSUME NEW e \in packed
               PROVE  \E d \in Live' : Occurs(req.hits[e].text, cls'[d].top.text)
    BY <1>7 DEF Trading
  <2>1. PICK d \in Live : Occurs(req.hits[e].text, cls[d].top.text)
    BY <1>1
  <2>2. d \in DOMAIN cls /\ e \in DOMAIN cls /\ c \in DOMAIN cls /\ IsCut(p)
    BY <1>3, <1>7, TradingFacts, OfferFacts DEF Live
  <2>3. CASE d \in {c} \cup Subsumed(c, p)
    <3>1. cls[d].top = p \/ Vouches(p, cls[d].top)
      BY <1>7, <2>3, AbsorbedVouched
    <3>2. Occurs(cls[d].top.text, p.text)
      BY <1>4, <2>2, <3>1, VouchedOccurs
    <3>3. Occurs(req.hits[e].text, p.text)
      <4> DEFINE t == req.hits[e].text
                 u == cls[d].top.text
                 v == p.text
      <4>1. /\ t \in Seq({t[k] : k \in DOMAIN t}) /\ u \in Seq({u[k] : k \in DOMAIN u})
            /\ v \in Seq({v[k] : k \in DOMAIN v})
        BY <1>3, <2>2, CutText
      <4>2. Occurs(t, u) /\ Occurs(u, v)
        BY <2>1, <3>2
      <4> HIDE DEF t, u, v
      <4>3. Occurs(t, v)
        BY <4>1, <4>2, OccursTransitive
      <4> QED
        BY <4>3 DEF t, v
    <3> QED
      BY <1>7, <3>3, TradingFacts
  <2>4. CASE d \notin {c} \cup Subsumed(c, p)
    <3>1. d \in Live' /\ cls'[d].top = cls[d].top
      BY <1>7, <2>2, <2>4, TradingFacts
    <3> QED
      BY <2>1, <3>1
  <2> QED
    BY <2>3, <2>4
<1>8. CASE Quiet
  <2>1. Live \subseteq DOMAIN cls
    BY <1>3 DEF Live
  <2> QED
    BY <1>1, <1>2, <1>8, <2>1 DEF Quiet
<1> HIDE DEF Kept
<1> QED
  BY <1>2, <1>5, <1>6, <1>7, <1>8, NextKinds

(* The text of every packed leaf occurs in some live top, whichever        *)
(* generations the slices came from: "nothing is dropped" by _trade_up.    *)
THEOREM NothingIsDropped == Spec => []NothingDropped
<1>1. Init => NothingDropped
  BY DEF Init, NothingDropped
<1> QED
  BY <1>1, Invariance, InitTops, NextTops, NextKeepsText, PTL DEF Spec

-----------------------------------------------------------------------------
(* One generation.  What tops may be drawn from is then one forest.        *)
Resolvable == {s \in Hits \cup req.source : Resolve(Ref(s)) = s}

(* What can be resolved is retrieved material: one slice per ref, all cut  *)
(* on the grid.                                                            *)
LEMMA ResolvableForest ==
    ASSUME IsRequest(req)
    PROVE  /\ Retrieved(Resolvable) /\ Hits \subseteq Resolvable
           /\ OneGeneration => OneText(Resolvable) /\ OneText(Hits)
<1>1. \A s \in Resolvable : s # None /\ IsCut(s)
  BY SlicesOfRequest DEF Resolvable
<1>2. \A s, t \in Resolvable : Ref(s) = Ref(t) => s = t
  BY DEF Resolvable
<1>3. Hits \subseteq Resolvable
  BY HitsResolve DEF Resolvable
<1>4. ASSUME OneGeneration PROVE OneText(Hits \cup req.source)
  BY <1>4 DEF OneGeneration, OneText, Agree
<1>5. Resolvable \subseteq Hits \cup req.source
  BY DEF Resolvable
<1> QED
  BY <1>1, <1>2, <1>3, <1>4, <1>5 DEF Retrieved, OneText

(* s shows the place of l.                                                 *)
Encloses(s, l) == s.doc = l.doc /\ s.off <= l.off /\ EndOf(l) <= EndOf(s)

(* In one text an offered slice contains the top it was offered to.        *)
LEMMA OfferContains ==
    ASSUME IInv, TopsInv, OneGeneration, NEW c \in DOMAIN cls, NEW p \in Offers(c)
    PROVE  /\ p \in Resolvable /\ cls[c].top \in Resolvable
           /\ Contains(p, cls[c].top) /\ Encloses(p, cls[c].top)
           /\ Len(p.text) > Len(cls[c].top.text)
<1> DEFINE s == cls[c].top
<1>1. /\ s \in Resolvable /\ p \in Resolvable /\ IsCut(s) /\ IsCut(p)
      /\ Retrieved(Resolvable) /\ OneText(Resolvable)
  BY TopsAreSlices, OfferFacts, ResolvableForest DEF Resolvable, TopsInv, SitsWell, IInv, TypeOK
<1>2. /\ p.doc = s.doc /\ s.size < p.size /\ p.off = ParentOffset(s.off, p.size)
      /\ ~ Degenerate(s, p.size) /\ p.doclen = s.doclen
  BY <1>1, OfferFacts DEF LevelsAbove, OneText, Agree
<1>3. /\ s.off \in Nat /\ EndOf(s) \in Nat /\ s.off < EndOf(s) /\ s.doclen \in Nat /\ EndOf(s) <= s.doclen
      /\ p.off \in Nat /\ EndOf(p) \in Nat /\ p.off < EndOf(p) /\ p.size \in Nat \ {0}
      /\ EndOf(p) = p.off + p.size \/ EndOf(p) = p.doclen
      /\ Len(s.text) = EndOf(s) - s.off /\ Len(p.text) = EndOf(p) - p.off
      /\ EndOf(p) = ClippedEnd(p.off, p.size, p.doclen)
  BY <1>1, CutSpan DEF IsCut
<1>4. p.off <= s.off /\ s.off < p.off + p.size
  BY <1>2, <1>3, ParentOffsetIsMultiple
<1>5. Overlap(p, s)
  <2> HIDE DEF s
  <2> QED
    BY <1>2, <1>3, <1>4 DEF Overlap
<1>6. Contains(p, s)
  BY <1>1, <1>2, <1>5, OverlapContains
<1>7. Encloses(p, s)
  BY <1>6 DEF Contains, PositionallyNests, Encloses
<1>8. Len(p.text) > Len(s.text)
  <2>1. EndOf(s) <= EndOf(p)
    BY <1>7 DEF Encloses
  <2>2. CASE p.off = s.off
    <3>1. ~ (EndOf(p) - p.off <= Len(s.text))
      BY <1>2, <1>3, <2>2 DEF Degenerate
    <3> HIDE DEF s
    <3> QED
      BY <1>3, <3>1
  <2>3. CASE p.off # s.off
    <3> HIDE DEF s
    <3> QED
      BY <1>3, <1>4, <2>1, <2>3
  <2> QED
    BY <2>2, <2>3
<1> QED
  BY <1>1, <1>6, <1>7, <1>8

(* No trade pays for a passage already shown.                              *)
LEMMA NextShowsMore ==
    ASSUME IInv, TopsInv, [Next]_vars
    PROVE  \A c \in packed : cls'[c].top # cls[c].top /\ OneGeneration =>
              Len(cls'[c].top.text) > Len(cls[c].top.text)
<1> SUFFICES ASSUME NEW c \in packed, cls'[c].top # cls[c].top, OneGeneration
             PROVE  Len(cls'[c].top.text) > Len(cls[c].top.text)
  OBVIOUS
<1>1. c \in DOMAIN cls
  BY DEF IInv, TypeOK
<1>2. ~ Dedup /\ ~ DedupOnly
  BY DEF IInv, PhaseInv, Dedup, DedupOnly
<1>3. ~ Quiet
  BY <1>1 DEF Quiet
<1>4. \A d \in agenda : ~ Pack(d)
  BY DEF Pack
<1>5. PICK d \in agenda : \E p \in Offers(d) : Trading(d, p)
  BY <1>2, <1>3, <1>4, NextKinds
<1>6. PICK p \in Offers(d) : Trading(d, p)
  BY <1>5
<1>7. d = c /\ cls'[c].top = p
  BY <1>1, <1>6, TradingFacts
<1> QED
  BY <1>1, <1>6, <1>7, OfferContains

(* A trade _trade_up accepts shows strictly more of the document: the      *)
(* degenerate levels were left out of next_target_size.                    *)
THEOREM EveryTradeShowsMore == Spec => TradesShowMore
<1> DEFINE A == \A c \in packed : cls'[c].top # cls[c].top /\ OneGeneration =>
                   Len(cls'[c].top.text) > Len(cls[c].top.text)
<1>1. IInv /\ TopsInv /\ [Next]_vars => A
  BY NextShowsMore
<1>2. Spec => [](IInv /\ TopsInv)
  BY Invariance, InitTops, NextTops, PTL DEF Spec
<1>3. Spec => [][A]_vars
  <2> HIDE DEF A
  <2> QED
    BY <1>1, <1>2, PTL DEF Spec
<1> QED
  BY <1>3 DEF TradesShowMore

-----------------------------------------------------------------------------
(* The class d stands for the packed leaf of rank c: it shows its place,   *)
(* carries the evidence of the hits behind it, and names it.               *)
Behind(c) == {j \in Ids : Contains(req.hits[j], req.hits[c])} \cup {c}

Stands(d, c) ==
    /\ Encloses(cls[d].top, req.hits[c])
    /\ Behind(c) \subseteq cls[d].evidence
    /\ Ref(req.hits[c]) \in {Ref(cls[d].top)} \cup cls[d].replaced

(* In one generation some live class stands for every packed leaf, and the *)
(* places of the live tops do not overlap.                                 *)
CoverInv ==
    OneGeneration =>
        /\ \A c \in DOMAIN cls : cls[c].levels = 0 => Behind(c) \subseteq cls[c].evidence
        /\ \A c \in packed : \E d \in Live : Stands(d, c)
        /\ \A c, d \in Live : c # d /\ cls[c].top.doc = cls[d].top.doc =>
              ~ Overlap(cls[c].top, cls[d].top)

(* Enclosing is transitive.                                                *)
LEMMA EnclosesTransitive ==
    ASSUME NEW s, NEW t, NEW u, IsCut(s), IsCut(t), IsCut(u), Encloses(s, t), Encloses(t, u)
    PROVE  Encloses(s, u)
<1>1. /\ s.off \in Nat /\ t.off \in Nat /\ u.off \in Nat
      /\ EndOf(s) \in Nat /\ EndOf(t) \in Nat /\ EndOf(u) \in Nat
  BY CutSpan
<1> QED
  BY <1>1 DEF Encloses

(* Every slice encloses itself.                                            *)
LEMMA EnclosesItself == ASSUME NEW s, IsCut(s) PROVE Encloses(s, s)
<1>1. s.off \in Nat /\ EndOf(s) \in Nat
  BY CutSpan
<1> QED
  BY <1>1 DEF Encloses

(* A leaf stands for itself: the walk up the grid found all behind it.     *)
LEMMA LeafStands ==
    ASSUME IsRequest(req), OneGeneration, NEW c \in Ids
    PROVE  /\ Behind(c) \subseteq NewClass(c).evidence
           /\ NewClass(c).top = req.hits[c]
<1>1. /\ Retrieved(Hits) /\ OneText(Hits) /\ req.hits[c] \in Hits
      /\ \A j \in Ids : req.hits[j] \in Hits
  BY SlicesOfRequest, ResolvableForest, HitsAreNumbered
<1>2. RetrievedAncestors(Hits, req.hits[c]) = {p \in Hits : Contains(p, req.hits[c])}
  BY <1>1, AncestorsFound
<1>3. NewClass(c).evidence = {j \in Ids : req.hits[j] \in
                       {req.hits[c]} \cup RetrievedAncestors(Hits, req.hits[c])}
  BY DEF NewClass
<1> QED
  BY <1>1, <1>2, <1>3, NewClassType DEF Behind

(* Leaves do not overlap, for one of them would contain the other.         *)
LEMMA LeavesApart ==
    ASSUME IsRequest(req), OneGeneration, NEW g \in Leaves(Hits), NEW h \in Leaves(Hits),
           g # h, g.doc = h.doc
    PROVE  ~ Overlap(g, h)
<1>1. Retrieved(Hits) /\ OneText(Hits)
  BY SlicesOfRequest, ResolvableForest
<1>2. g \in Hits /\ h \in Hits /\ ~ Contains(g, h) /\ ~ Contains(h, g)
  BY <1>1, LeavesFound
<1> QED
  BY <1>1, <1>2, Laminar

(* After dedup every packed leaf is covered by its own class.              *)
LEMMA DedupCovers ==
    ASSUME IInv, OneGeneration, DedupOnly \/ Dedup PROVE CoverInv'
<1>1. /\ req' = req /\ Hits' = Hits /\ Ids' = Ids /\ Live' = packed' /\ packed' \subseteq DOMAIN cls'
      /\ DOMAIN cls' \subseteq Ids
      /\ \A c \in DOMAIN cls' : cls'[c] = NewClass(c) /\ req.hits[c] \in Leaves(Hits)
  BY DedupFacts
<1>2. IsRequest(req) /\ \A c \in Ids : req.hits[c] \in Hits /\ IsCut(req.hits[c])
  BY HitsAreNumbered, SlicesOfRequest DEF IInv, TypeOK
<1>3. ASSUME NEW c \in DOMAIN cls'
      PROVE  cls'[c].top = req.hits[c] /\ Behind(c) \subseteq cls'[c].evidence
  BY <1>1, <1>2, <1>3, LeafStands
<1>4. \A c \in DOMAIN cls' : Behind(c)' = Behind(c)
  BY <1>1 DEF Behind
<1>5. ASSUME NEW c \in packed' PROVE Stands(c, c)'
  BY <1>1, <1>2, <1>3, <1>4, <1>5, EnclosesItself DEF Stands
<1>6. ASSUME NEW c \in Live', NEW d \in Live', c # d, cls'[c].top.doc = cls'[d].top.doc
      PROVE  ~ Overlap(cls'[c].top, cls'[d].top)
  <2>1. req.hits[c] # req.hits[d]
    BY <1>1, <1>2, <1>6 DEF IsRequest, Ids
  <2> QED
    BY <1>1, <1>2, <1>3, <1>6, <2>1, LeavesApart
<1> QED
  BY <1>1, <1>3, <1>4, <1>5, <1>6 DEF CoverInv

(* A newly packed leaf overlaps no live top: it is a leaf, as they are.    *)
LEMMA PackCovers ==
    ASSUME IInv, TopsInv, CoverInv, OneGeneration, NEW c \in agenda, Pack(c) PROVE CoverInv'
<1>1. /\ c \in DOMAIN cls /\ cls' = cls /\ req' = req /\ packed' = packed \cup {c}
      /\ Live' = Live \cup {c} /\ phase = "pack" /\ Live \subseteq DOMAIN cls
      /\ DOMAIN cls \subseteq Ids /\ Ids' = Ids
  BY DEF Pack, IInv, PhaseInv, TypeOK, Live, Ids
<1>2. IsRequest(req) /\ \A d \in Ids : req.hits[d] \in Hits /\ IsCut(req.hits[d])
  BY HitsAreNumbered, SlicesOfRequest DEF IInv, TypeOK
<1>3. \A d \in DOMAIN cls : /\ cls[d].top = req.hits[d] /\ req.hits[d] \in Leaves(Hits)
                            /\ cls[d].levels = 0
  BY <1>1, PackedLeaves
<1>4. Stands(c, c)
  BY <1>1, <1>2, <1>3, EnclosesItself DEF Stands, CoverInv
<1>5. \A d \in Live', e \in packed' : Stands(d, e) => Stands(d, e)'
  BY <1>1 DEF Stands, Behind
<1>6. \A d \in DOMAIN cls : Behind(d)' = Behind(d)
  BY <1>1 DEF Behind
<1>7. ASSUME NEW d \in Live', NEW e \in Live', d # e, cls'[d].top.doc = cls'[e].top.doc
      PROVE  ~ Overlap(cls'[d].top, cls'[e].top)
  <2>1. d \in DOMAIN cls /\ e \in DOMAIN cls
    BY <1>1
  <2>2. req.hits[d] # req.hits[e]
    BY <1>1, <1>2, <1>7, <2>1 DEF IsRequest, Ids
  <2> QED
    BY <1>1, <1>2, <1>3, <1>7, <2>1, <2>2, LeavesApart
<1> QED
  BY <1>1, <1>4, <1>5, <1>6, <1>7 DEF CoverInv

(* The parent encloses what it absorbs, in place.                          *)
LEMMA AbsorbedEnclosed ==
    ASSUME IInv, TopsInv, OneGeneration, NEW c, NEW p, Trading(c, p),
           NEW o \in {c} \cup Subsumed(c, p)
    PROVE  Encloses(p, cls[o].top)
<1>1. c \in DOMAIN cls /\ p \in Offers(c) /\ o \in DOMAIN cls /\ IsCut(p) /\ Resolve(Ref(p)) = p
  BY TradingFacts, OfferFacts DEF Trading
<1>2. CASE o = c
  BY <1>1, <1>2, OfferContains
<1>3. CASE o # c /\ Ref(cls[o].top) = Ref(p)
  <2>1. cls[o].top = p
    BY <1>1, <1>3 DEF TopsInv, SitsWell
  <2> QED
    BY <1>1, <2>1, EnclosesItself
<1>4. CASE o # c /\ Contains(p, cls[o].top)
  BY <1>4 DEF Contains, PositionallyNests, Encloses
<1> QED
  BY <1>2, <1>3, <1>4 DEF Subsumed

(* After a trade the grown class covers whatever its absorbed classes      *)
(* covered, and overlaps nothing else that is live: the forest is laminar. *)
LEMMA TradeCovers ==
    ASSUME IInv, TopsInv, CoverInv, OneGeneration, NEW c, NEW p, Trading(c, p) PROVE CoverInv'
<1> DEFINE gone == {c} \cup Subsumed(c, p)
<1>1. /\ c \in DOMAIN cls /\ p \in Offers(c) /\ req' = req /\ packed' = packed
      /\ DOMAIN cls' = DOMAIN cls /\ Live \subseteq DOMAIN cls /\ gone \subseteq Live
      /\ Live' = Live \ Subsumed(c, p) /\ c \in Live' /\ cls'[c].top = p /\ Ids' = Ids
      /\ packed \subseteq DOMAIN cls /\ c \in Live /\ c \notin Subsumed(c, p)
  BY TradingFacts DEF Trading, IInv, TypeOK
<1>2. /\ IsRequest(req) /\ IsCut(p) /\ p \in Resolvable
      /\ Retrieved(Resolvable) /\ OneText(Resolvable)
      /\ \A d \in DOMAIN cls : cls[d].top \in Resolvable /\ IsCut(cls[d].top) /\ IsCut(req.hits[d])
  BY <1>1, OfferContains, TopsAreSlices, ResolvableForest, OfferFacts
     DEF IInv, TypeOK, TopsInv, SitsWell, Resolvable
<1>3. \A e \in DOMAIN cls : Behind(e)' = Behind(e)
  BY <1>1 DEF Behind
<1>4. ASSUME NEW e \in packed PROVE \E d \in Live' : Stands(d, e)'
  <2>1. PICK d \in Live : Stands(d, e)
    BY DEF CoverInv
  <2>2. CASE d \in gone
    <3>1. Encloses(p, req.hits[e])
      <4>1. Encloses(p, cls[d].top) /\ Encloses(cls[d].top, req.hits[e])
        BY <2>1, <2>2, AbsorbedEnclosed DEF Stands
      <4> QED
        BY <1>1, <1>2, <4>1, EnclosesTransitive
    <3>2. Behind(e) \subseteq cls'[c].evidence
      <4>1. Behind(e) \subseteq cls[d].evidence
        BY <2>1 DEF Stands
      <4>2. cls[d].evidence \subseteq MergedEvidence(c, p)
        BY <2>2 DEF MergedEvidence
      <4> QED
        BY <4>1, <4>2, TradingFacts
    <3>3. Ref(req.hits[e]) \in cls'[c].replaced
      <4>1. Ref(req.hits[e]) \in {Ref(cls[d].top)} \cup cls[d].replaced
        BY <2>1 DEF Stands
      <4>2. cls'[c].replaced = cls[c].replaced \cup {Ref(cls[o].top) : o \in gone}
                                  \cup UNION {cls[o].replaced : o \in gone}
        BY TradingFacts
      <4> HIDE DEF gone
      <4> QED
        BY <2>2, <4>1, <4>2
    <3> QED
      BY <1>1, <1>3, <3>1, <3>2, <3>3 DEF Stands
  <2>3. CASE d \notin gone
    <3>1. /\ d \in Live' /\ cls'[d].top = cls[d].top /\ cls'[d].evidence = cls[d].evidence
          /\ cls'[d].replaced = cls[d].replaced
      BY <1>1, <2>3, TradingFacts
    <3> QED
      BY <1>1, <1>3, <2>1, <3>1 DEF Stands
  <2> QED
    BY <2>2, <2>3
<1>5. ASSUME NEW d \in Live', d # c, p.doc = cls[d].top.doc
      PROVE  ~ Overlap(p, cls[d].top)
  <2> DEFINE s == cls[c].top
             u == cls[d].top
  <2>1. d \in Live /\ d \in DOMAIN cls /\ u \in Resolvable /\ s \in Resolvable
    BY <1>1, <1>2
  <2>2. Ref(u) # Ref(p) /\ ~ Contains(p, u)
    BY <1>1, <1>5, <2>1 DEF Subsumed
  <2>3. Contains(p, s)
    BY <1>1, OfferContains
  <2>4. ~ Contains(u, p)
    <3> SUFFICES ASSUME Contains(u, p) PROVE FALSE
      OBVIOUS
    <3>1. Contains(u, s)
      BY <1>2, <2>1, <2>3, ContainsTransitive
    <3>2. Overlap(u, s) /\ u.doc = s.doc
      BY <1>1, <1>2, <2>1, <3>1, ContainsOverlaps
    <3> QED
      BY <1>1, <1>5, <2>1, <3>2 DEF CoverInv
  <2>5. p # u
    BY <2>2
  <2> HIDE DEF s, u
  <2> QED
    BY <1>2, <1>5, <2>1, <2>2, <2>4, <2>5, Laminar DEF u
<1>6. ASSUME NEW d \in Live', NEW e \in Live', d # e, cls'[d].top.doc = cls'[e].top.doc
      PROVE  ~ Overlap(cls'[d].top, cls'[e].top)
  <2>1. /\ d \in Live /\ d \in DOMAIN cls /\ e \in Live /\ e \in DOMAIN cls
        /\ d # c => cls'[d].top = cls[d].top
        /\ e # c => cls'[e].top = cls[e].top
    BY <1>1, TradingFacts
  <2>2. CASE d = c
    BY <1>1, <1>5, <1>6, <2>1, <2>2
  <2>3. CASE e = c
    BY <1>1, <1>5, <1>6, <2>1, <2>3 DEF Overlap
  <2>4. CASE d # c /\ e # c
    BY <1>6, <2>1, <2>4 DEF CoverInv
  <2> QED
    BY <2>2, <2>3, <2>4
<1>7. ASSUME NEW d \in DOMAIN cls, cls'[d].levels = 0 PROVE Behind(d) \subseteq cls'[d].evidence
  <2>1. d # c
    BY <1>1, <1>7, TradingFacts, TopCost DEF IInv, Class
  <2> QED
    BY <1>7, <2>1, TradingFacts DEF CoverInv
<1> QED
  BY <1>1, <1>3, <1>4, <1>6, <1>7 DEF CoverInv

(* A quiet step uncovers nothing.                                          *)
LEMMA QuietCovers ==
    ASSUME IInv, CoverInv, OneGeneration, Quiet PROVE CoverInv'
<1>1. Live \subseteq DOMAIN cls /\ packed \subseteq DOMAIN cls /\ Ids' = Ids
  BY DEF Live, IInv, TypeOK, Quiet, Ids
<1>2. \A e \in DOMAIN cls : Behind(e)' = Behind(e)
  BY <1>1 DEF Quiet, Behind
<1>3. ASSUME NEW d \in Live, NEW e \in packed, Stands(d, e) PROVE Stands(d, e)'
  BY <1>1, <1>2, <1>3 DEF Quiet, Stands
<1> QED
  BY <1>1, <1>2, <1>3 DEF Quiet, CoverInv

(* Every step keeps the cover.                                             *)
LEMMA NextCovers == IInv /\ TopsInv /\ CoverInv /\ [Next]_vars => CoverInv'
<1> SUFFICES ASSUME IInv, TopsInv, CoverInv, [Next]_vars PROVE CoverInv'
  OBVIOUS
<1>1. OneGeneration' = OneGeneration
  <2>1. req' = req
    BY NextKinds DEF DedupOnly, Dedup, Pack, Trading, Quiet
  <2> QED
    BY <2>1 DEF OneGeneration, Hits, Ids
<1>2. CASE ~ OneGeneration
  BY <1>1, <1>2 DEF CoverInv
<1>3. CASE OneGeneration
  BY <1>3, NextKinds, DedupCovers, PackCovers, TradeCovers, QuietCovers
<1> QED
  BY <1>2, <1>3

(* The cover holds throughout.                                             *)
LEMMA Coverage == Spec => [](IInv /\ TopsInv /\ CoverInv)
<1>1. Init => CoverInv
  BY DEF Init, CoverInv, Live
<1> QED
  BY <1>1, Invariance, InitTops, NextTops, NextCovers, PTL DEF Spec

(* Every packed leaf's text is shown at its own place by some live top.    *)
THEOREM PassagesKept == Spec => []PassageKept
<1>1. IInv /\ TopsInv /\ CoverInv => PassageKept
  <2> SUFFICES ASSUME IInv, CoverInv, OneGeneration, NEW c \in packed
               PROVE  \E d \in Live :
                          LET l == req.hits[c]
                              s == cls[d].top
                          IN  /\ s.doc = l.doc /\ s.off <= l.off /\ EndOf(l) <= EndOf(s)
                              /\ SubSeq(s.text, l.off - s.off + 1, EndOf(l) - s.off) = l.text
    BY DEF PassageKept
  <2>1. PICK d \in Live : Encloses(cls[d].top, req.hits[c])
    BY DEF CoverInv, Stands
  <2> DEFINE l == req.hits[c]
             s == cls[d].top
  <2>2. /\ c \in DOMAIN cls /\ d \in DOMAIN cls /\ IsCut(s) /\ IsCut(l)
        /\ s \in Hits \cup req.source /\ l \in Hits
    BY TopsAreSlices DEF IInv, TypeOK, Live
  <2>3. s.doc = l.doc /\ s.off <= l.off /\ EndOf(l) <= EndOf(s)
    BY <2>1 DEF Encloses
  <2>4. \A k \in (s.off + 1) .. EndOf(s) : l.off < k /\ k <= EndOf(l) =>
           s.text[k - s.off] = l.text[k - l.off]
    BY <2>2, <2>3 DEF OneGeneration
  <2>5. SubSeq(s.text, (l.off - s.off) + 1, EndOf(l) - s.off) = l.text
    BY <2>2, <2>3, <2>4, PlaceInText
  <2> QED
    BY <2>3, <2>5
<1> QED
  BY <1>1, Coverage, PTL

(* No two live tops show the same code point of a document.                *)
THEOREM NoPassageShownTwice == Spec => []NoPassageTwice
<1>1. IInv /\ TopsInv /\ CoverInv => NoPassageTwice
  <2> SUFFICES ASSUME IInv, CoverInv, OneGeneration, NEW c \in Live, NEW d \in Live,
                      c # d, cls[c].top.doc = cls[d].top.doc
               PROVE  EndOf(cls[c].top) <= cls[d].top.off \/ EndOf(cls[d].top) <= cls[c].top.off
    BY DEF NoPassageTwice
  <2>1. ~ Overlap(cls[c].top, cls[d].top)
    BY DEF CoverInv
  <2>2. IsCut(cls[c].top) /\ IsCut(cls[d].top)
    BY TopsAreSlices DEF IInv, TypeOK, Live
  <2> QED
    BY <2>1, <2>2, CutSpan DEF Overlap
<1> QED
  BY <1>1, Coverage, PTL

-----------------------------------------------------------------------------
(* The least of the ranks a class merges is the least of its evidence.     *)
RankInv ==
    \A c \in DOMAIN cls : cls[c].evidence # {} /\ cls[c].rank = Min(cls[c].evidence)

(* A least element of a set of naturals is its Min.                        *)
LEMMA MinIs ==
    ASSUME NEW T, T \subseteq Nat, NEW m \in T, \A y \in T : m <= y
    PROVE  Min(T) = m
<1>1. Min(T) \in T /\ Min(T) <= m
  BY MinIsLeast
<1>2. m <= Min(T) /\ Min(T) \in Nat /\ m \in Nat
  BY <1>1
<1> QED
  BY <1>1, <1>2

(* The rank of a grown class is the least rank of its merged evidence.     *)
LEMMA MergedRankIsLeast ==
    ASSUME IInv, RankInv, NEW c \in DOMAIN cls, NEW p
    PROVE  MergedEvidence(c, p) # {} /\ MergedRank(c, p) = Min(MergedEvidence(c, p))
<1> DEFINE gone == {c} \cup Subsumed(c, p)
           hit == EvidenceFor(Ref(p))
           ranks == {cls[o].rank : o \in gone} \cup hit
           all == hit \cup UNION {cls[o].evidence : o \in gone}
<1>1. /\ hit \subseteq Nat
      /\ \A o \in gone : /\ o \in DOMAIN cls /\ cls[o].evidence \subseteq Nat
                         /\ cls[o].rank \in cls[o].evidence
                         /\ \A e \in cls[o].evidence : cls[o].rank <= e
  <2>1. hit \subseteq Nat
    BY DEF EvidenceFor, Ids
  <2>2. ASSUME NEW o \in gone
        PROVE  /\ o \in DOMAIN cls /\ cls[o].evidence \subseteq Nat
               /\ cls[o].rank \in cls[o].evidence
               /\ \A e \in cls[o].evidence : cls[o].rank <= e
    <3>1. o \in DOMAIN cls
      BY DEF IInv, TypeOK, Subsumed, Live
    <3>2. cls[o].evidence \subseteq Nat /\ cls[o].evidence # {} /\ cls[o].rank = Min(cls[o].evidence)
      BY <3>1, TopCost DEF RankInv, IInv, Class, Ids
    <3> DEFINE ev == cls[o].evidence
    <3>3. Min(ev) \in ev /\ \A y \in ev : Min(ev) <= y
      <4>1. ev \subseteq Nat /\ ev # {}
        BY <3>2
      <4> HIDE DEF ev
      <4> QED
        BY <4>1, MinIsLeast
    <3> QED
      BY <3>1, <3>2, <3>3
  <2> QED
    BY <2>1, <2>2
<1>2. ranks \subseteq Nat /\ ranks # {} /\ ranks \subseteq all /\ all \subseteq Nat
  <2> HIDE DEF hit, gone
  <2>1. \A o \in gone : cls[o].rank \in Nat
    BY <1>1
  <2>2. c \in gone
    BY DEF gone
  <2>3. all \subseteq Nat
    <3> SUFFICES ASSUME NEW x \in all, x \notin hit PROVE x \in Nat
      BY <1>1
    <3>1. PICK o \in gone : x \in cls[o].evidence
      OBVIOUS
    <3> QED
      BY <1>1, <3>1
  <2>4. ranks \subseteq all
    BY <1>1
  <2> QED
    BY <2>2, <2>3, <2>4
<1>3. Min(ranks) \in ranks /\ \A y \in ranks : Min(ranks) <= y
  <2> HIDE DEF ranks
  <2> QED
    BY <1>2, MinIsLeast
<1>4. ASSUME NEW x \in all PROVE Min(ranks) <= x
  <2> HIDE DEF hit, gone
  <2>1. CASE x \in hit
    BY <1>3, <2>1
  <2>2. CASE x \notin hit
    <3>1. PICK o \in gone : x \in cls[o].evidence
      BY <2>2
    <3>2. cls[o].rank <= x /\ Min(ranks) <= cls[o].rank
      BY <1>1, <1>3, <3>1
    <3>3. cls[o].rank \in Nat /\ Min(ranks) \in Nat /\ x \in Nat
      BY <1>1, <1>2, <1>3, <3>1
    <3> QED
      BY <3>2, <3>3
  <2> QED
    BY <2>1, <2>2
<1>5. Min(all) = Min(ranks) /\ all # {}
  <2>1. Min(ranks) \in all
    BY <1>2, <1>3
  <2> HIDE DEF all, ranks
  <2> QED
    BY <1>2, <1>4, <2>1, MinIs
<1>6. MergedEvidence(c, p) = all /\ MergedRank(c, p) = Min(ranks)
  BY DEF MergedEvidence, MergedRank
<1> HIDE DEF all, ranks
<1> QED
  BY <1>5, <1>6

(* Every step keeps a class's rank the best of its evidence.               *)
LEMMA NextRanks == IInv /\ RankInv /\ [Next]_vars => RankInv'
<1> SUFFICES ASSUME IInv, RankInv, [Next]_vars PROVE RankInv'
  OBVIOUS
<1>1. CASE DedupOnly \/ Dedup
  <2>1. ASSUME NEW c \in DOMAIN cls'
        PROVE  cls'[c].evidence # {} /\ cls'[c].rank = Min(cls'[c].evidence)
    <3> DEFINE ev == {j \in Ids : req.hits[j] \in {req.hits[c]} \cup RetrievedAncestors(Hits, req.hits[c])}
    <3>1. cls'[c] = NewClass(c) /\ c \in Ids
      BY <1>1, <2>1, DedupFacts
    <3>2. NewClass(c).evidence = ev /\ NewClass(c).rank = Min(ev)
      BY DEF NewClass, EffectiveRank
    <3>3. c \in ev
      BY <3>1
    <3> HIDE DEF ev
    <3> QED
      BY <3>1, <3>2, <3>3
  <2> QED
    BY <2>1 DEF RankInv
<1>2. CASE \E c \in agenda : Pack(c)
  BY <1>2 DEF RankInv, Pack
<1>3. ASSUME NEW c \in agenda, NEW p \in Offers(c), Trading(c, p) PROVE RankInv'
  <2>1. /\ c \in DOMAIN cls /\ DOMAIN cls' = DOMAIN cls
        /\ cls'[c].evidence = MergedEvidence(c, p) /\ cls'[c].rank = MergedRank(c, p)
        /\ \A d \in DOMAIN cls \ {c} :
              cls'[d].evidence = cls[d].evidence /\ cls'[d].rank = cls[d].rank
    BY <1>3, TradingFacts
  <2>2. MergedEvidence(c, p) # {} /\ MergedRank(c, p) = Min(MergedEvidence(c, p))
    BY <2>1, MergedRankIsLeast
  <2> QED
    BY <2>1, <2>2 DEF RankInv
<1>4. CASE Quiet
  BY <1>4 DEF RankInv, Quiet
<1> QED
  BY <1>1, <1>2, <1>3, <1>4, NextKinds

(* Evidence flows up with the trades: every live class carries the best    *)
(* rank of its evidence, and what stood behind a packed leaf stands behind *)
(* the live class that names the leaf.                                     *)
THEOREM EvidenceFlows == Spec => []EvidenceFlowsUp
<1>1. Init => RankInv
  BY DEF Init, RankInv
<1>2. IInv /\ CoverInv /\ RankInv => EvidenceFlowsUp
  <2> SUFFICES ASSUME IInv, CoverInv, RankInv, OneGeneration PROVE EvidenceFlowsUp
    BY DEF EvidenceFlowsUp
  <2>1. \A d \in Live : cls[d].rank = Min(cls[d].evidence)
    BY DEF RankInv, Live, IInv, TypeOK
  <2>2. \A c \in packed : \E d \in Live :
           /\ {j \in Ids : Contains(req.hits[j], req.hits[c])} \cup {c} \subseteq cls[d].evidence
           /\ Ref(req.hits[c]) \in {Ref(cls[d].top)} \cup cls[d].replaced
    BY DEF CoverInv, Stands, Behind
  <2> QED
    BY <2>1, <2>2 DEF EvidenceFlowsUp
<1> QED
  BY <1>1, <1>2, Coverage, NextRanks, PTL DEF Spec

-----------------------------------------------------------------------------
(* Replaying the trace.  a[n] is where the first n trades lead to.         *)
Apply(t, tops) == (tops \ ({t.from} \cup t.absorbed)) \cup {t.to}

Legal(t, tops) ==
    /\ {t.from} \cup t.absorbed \subseteq tops
    /\ t.from \notin t.absorbed
    /\ t.to \notin tops \ ({t.from} \cup t.absorbed)

Replays(a, log, start) ==
    /\ a = [n \in 0 .. Len(log) |-> a[n]]
    /\ a[0] = {start}
    /\ \A n \in 1 .. Len(log) :
          a[n] = {Apply(log[n], tops) : tops \in {q \in a[n - 1] : Legal(log[n], q)}}

PackedRefs == {Ref(req.hits[c]) : c \in packed}

LiveRefs == {Ref(cls[c].top) : c \in Live}

ReplayInv ==
    /\ \E S : trades \in Seq(S)
    /\ phase \in {"dedup", "pack"} => trades = << >> /\ Live = packed
    /\ \E a : Replays(a, trades, PackedRefs) /\ a[Len(trades)] = {LiveRefs}

(* The replay is a function of the trace: whatever satisfies its equations *)
(* is its value.                                                           *)
LEMMA ReplayIsUnique ==
    ASSUME Len(trades) \in Nat, NEW a, Replays(a, trades, PackedRefs)
    PROVE  ReplayTopIds = a[Len(trades)]
<1> DEFINE N == Len(trades)
           Body(f) == [n \in 0 .. N |->
              IF n = 0 THEN {{Ref(req.hits[c]) : c \in packed}}
              ELSE {Apply(trades[n], tops) : tops \in {q \in f[n - 1] : Legal(trades[n], q)}}]
           Next1(f, n) == {Apply(trades[n], tops) : tops \in {q \in f[n - 1] : Legal(trades[n], q)}}
<1>0. \A f : f = Body(f) => /\ f = [n \in 0 .. N |-> f[n]]
                            /\ f[0] = {{Ref(req.hits[c]) : c \in packed}}
                            /\ \A n \in 1 .. N : f[n] = Next1(f, n)
  <2> SUFFICES ASSUME NEW f, f = Body(f)
               PROVE  /\ f = [n \in 0 .. N |-> f[n]]
                      /\ f[0] = {{Ref(req.hits[c]) : c \in packed}}
                      /\ \A n \in 1 .. N : f[n] = Next1(f, n)
    OBVIOUS
  <2>1. \A n \in 0 .. N : f[n] = IF n = 0 THEN {{Ref(req.hits[c]) : c \in packed}} ELSE Next1(f, n)
    OBVIOUS
  <2>2. DOMAIN f = 0 .. N /\ f = [n \in 0 .. N |-> f[n]]
    OBVIOUS
  <2>3. 0 \in 0 .. N /\ \A n \in 1 .. N : n \in 0 .. N /\ n # 0
    OBVIOUS
  <2> HIDE DEF Next1, Body
  <2> QED
    BY <2>1, <2>2, <2>3
<1>1. a = Body(a)
  <2>1. a = [n \in 0 .. N |-> a[n]]
    BY DEF Replays, PackedRefs
  <2>2. ASSUME NEW n \in 0 .. N
        PROVE  a[n] = IF n = 0 THEN {{Ref(req.hits[c]) : c \in packed}} ELSE Next1(a, n)
    <3>1. CASE n = 0
      BY <3>1 DEF Replays, PackedRefs
    <3>2. CASE n # 0
      <4>1. n \in 1 .. N
        BY <3>2
      <4>2. a[n] = Next1(a, n)
        BY <4>1 DEF Replays
      <4> QED
        BY <3>2, <4>2
    <3> QED
      BY <3>1, <3>2
  <2> HIDE DEF Next1
  <2> QED
    BY <2>1, <2>2 DEF Next1
<1>2. ASSUME NEW f, f = Body(f) PROVE f = a
  <2> DEFINE G == {n \in 0 .. N : f[n] = a[n]}
  <2>1. 0 \in G
    BY <1>1, <1>2
  <2>2. ASSUME NEW n \in 1 .. N, n - 1 \in G PROVE n \in G
    <3>1. f[n] = Next1(f, n) /\ a[n] = Next1(a, n)
      <4> HIDE DEF Body, Next1
      <4> QED
        BY <1>0, <1>1, <1>2
    <3>2. f[n - 1] = a[n - 1] /\ n \in 0 .. N
      BY <2>2
    <3> QED
      BY <3>1, <3>2
  <2>3. 0 .. N \subseteq G
    <3> HIDE DEF G
    <3> QED
      BY <2>1, <2>2, SetInduction
  <2>4. \A n \in 0 .. N : f[n] = a[n]
    BY <2>3
  <2> QED
    BY <1>1, <1>2, <2>4
<1> DEFINE S == CHOOSE f : f = Body(f)
<1>3. S = Body(S)
  BY <1>1
<1>4. S = a
  BY <1>2, <1>3
<1>5. ReplayTopIds = S[N]
  BY DEF ReplayTopIds, Apply, Legal
<1> QED
  BY <1>4, <1>5

(* While nothing was traded, the replay is the initial pack.               *)
LEMMA EmptyReplay ==
    ASSUME NEW start
    PROVE  \E a : Replays(a, << >>, start) /\ a[Len(<< >>)] = {start}
<1> DEFINE a == [n \in 0 .. 0 |-> {start}]
<1>1. Len(<< >>) = 0 /\ a[0] = {start} /\ a = [n \in 0 .. 0 |-> a[n]] /\ 1 .. 0 = {}
  OBVIOUS
<1>2. Replays(a, << >>, start)
  <2> HIDE DEF a
  <2> QED
    BY <1>1 DEF Replays
<1> QED
  BY <1>1, <1>2

(* A legal trade prolongs a replay by one step.                            *)
LEMMA ReplayGrows ==
    ASSUME NEW S, NEW log \in Seq(S), NEW t \in S, NEW start, NEW tops,
           NEW a, Replays(a, log, start), a[Len(log)] = {tops}, Legal(t, tops)
    PROVE  \E b : Replays(b, Append(log, t), start) /\ b[Len(Append(log, t))] = {Apply(t, tops)}
<1> DEFINE N == Len(log)
           new == Append(log, t)
           Move(e, Q) == {Apply(e, q) : q \in {q \in Q : Legal(e, q)}}
           b == [n \in 0 .. (N + 1) |-> IF n = N + 1 THEN {Apply(t, tops)} ELSE a[n]]
<1>1. N \in Nat /\ Len(new) = N + 1 /\ new[N + 1] = t /\ \A n \in 1 .. N : new[n] = log[n]
  OBVIOUS
<1>2. a[0] = {start} /\ a[N] = {tops} /\ \A n \in 1 .. N : a[n] = Move(log[n], a[n - 1])
  BY DEF Replays
<1> HIDE DEF N, new
<1>3. /\ b = [n \in 0 .. (N + 1) |-> b[n]] /\ b[N + 1] = {Apply(t, tops)}
      /\ \A n \in 0 .. N : b[n] = a[n]
  BY <1>1
<1>4. Move(t, {tops}) = {Apply(t, tops)}
  OBVIOUS
<1> HIDE DEF b
<1> HIDE DEF Move
<1>5. ASSUME NEW n \in 1 .. (N + 1) PROVE b[n] = Move(new[n], b[n - 1])
  <2>1. n - 1 \in 0 .. N /\ b[n - 1] = a[n - 1]
    <3>1. n - 1 \in 0 .. N
      BY <1>1
    <3> QED
      BY <1>3, <3>1
  <2>2. CASE n = N + 1
    <3>1. b[n - 1] = a[N]
      BY <1>1, <2>1, <2>2
    <3> QED
      BY <1>1, <1>2, <1>3, <1>4, <2>2, <3>1
  <2>3. CASE n \in 1 .. N
    <3>1. n \in 0 .. N
      BY <2>3
    <3> QED
      BY <1>1, <1>2, <1>3, <2>1, <2>3, <3>1
  <2> QED
    BY <1>1, <2>2, <2>3
<1>6. b[0] = {start}
  <2>1. 0 \in 0 .. N
    BY <1>1
  <2>2. b[0] = a[0]
    BY <1>3, <2>1
  <2> QED
    BY <1>2, <2>2
<1>7. Replays(b, new, start)
  <2>1. b = [n \in 0 .. Len(new) |-> b[n]] /\ \A n \in 1 .. Len(new) : b[n] = Move(new[n], b[n - 1])
    BY <1>1, <1>3, <1>5
  <2> QED
    BY <1>6, <2>1 DEF Replays, Move
<1> QED
  BY <1>1, <1>3, <1>7 DEF new

(* A trade is a legal move of the replay, and leads where the classes go.  *)
LEMMA TradeIsLegal ==
    ASSUME IInv, TopsInv, NEW c, NEW p, Trading(c, p),
           NEW t, t = [from |-> Ref(cls[c].top), to |-> Ref(p),
                       absorbed |-> {Ref(cls[o].top) : o \in Subsumed(c, p)}]
    PROVE  Legal(t, LiveRefs) /\ LiveRefs' = Apply(t, LiveRefs)
<1>1. /\ c \in Live /\ Subsumed(c, p) \subseteq Live \ {c} /\ Live' = Live \ Subsumed(c, p)
      /\ cls'[c].top = p /\ Live \subseteq DOMAIN cls
      /\ \A d \in Live \ {c} : cls'[d].top = cls[d].top
  BY TradingFacts DEF Trading
<1>2. \A d, e \in Live : Ref(cls[d].top) = Ref(cls[e].top) => d = e
  BY DEF TopsInv
<1>3. \A d \in Live \ {c} : Ref(cls[d].top) = Ref(p) => d \in Subsumed(c, p)
  BY DEF Subsumed
<1> DEFINE refs == {Ref(cls[o].top) : o \in Subsumed(c, p)}
<1>4. t.from = Ref(cls[c].top) /\ t.to = Ref(p) /\ t.absorbed = refs
  OBVIOUS
<1>5. t.from \in LiveRefs /\ refs \subseteq LiveRefs
  BY <1>1, <1>4 DEF LiveRefs
<1>6. t.from \notin refs
  BY <1>1, <1>2, <1>4
<1>7. t.to \notin LiveRefs \ ({t.from} \cup refs)
  BY <1>1, <1>3, <1>4 DEF LiveRefs
<1>8. ASSUME NEW x PROVE x \in LiveRefs' <=> x \in (LiveRefs \ ({t.from} \cup refs)) \cup {t.to}
  <2>1. x \in LiveRefs' <=> \E d \in Live' : x = Ref(cls'[d].top)
    BY DEF LiveRefs, Ref
  <2>2. x \in LiveRefs \ ({t.from} \cup refs)
           <=> \E d \in Live : /\ x = Ref(cls[d].top)
                               /\ d # c /\ d \notin Subsumed(c, p)
    BY <1>1, <1>2, <1>4 DEF LiveRefs
  <2>3. c \in Live' /\ Ref(cls'[c].top) = t.to
    BY <1>1, <1>4
  <2> QED
    BY <1>1, <2>1, <2>2, <2>3
<1> HIDE DEF refs
<1> QED
  BY <1>4, <1>5, <1>6, <1>7, <1>8 DEF Legal, Apply

(* A trade prolongs the replay to the new live tops.                       *)
LEMMA TradeReplays ==
    ASSUME IInv, TopsInv, ReplayInv, NEW c, NEW p, Trading(c, p) PROVE ReplayInv'
<1> DEFINE t == [from |-> Ref(cls[c].top), to |-> Ref(p),
                 absorbed |-> {Ref(cls[o].top) : o \in Subsumed(c, p)}]
<1>1. PICK S : trades \in Seq(S)
  BY DEF ReplayInv
<1>2. trades' = Append(trades, t) /\ PackedRefs' = PackedRefs /\ phase' = "round"
  BY DEF Trading, PackedRefs, Ref
<1>3. Legal(t, LiveRefs) /\ LiveRefs' = Apply(t, LiveRefs)
  <2> HIDE DEF t
  <2> QED
    BY TradeIsLegal DEF t
<1> HIDE DEF t
<1>4. trades \in Seq(S \cup {t}) /\ trades' \in Seq(S \cup {t}) /\ t \in S \cup {t}
  BY <1>1, <1>2
<1>5. PICK a : Replays(a, trades, PackedRefs) /\ a[Len(trades)] = {LiveRefs}
  BY DEF ReplayInv
<1>6. \E b : Replays(b, trades', PackedRefs') /\ b[Len(trades')] = {LiveRefs'}
  <2> DEFINE Q == S \cup {t}
             start == PackedRefs
             tops == LiveRefs
  <2>1. trades \in Seq(Q) /\ t \in Q
    BY <1>4
  <2>2. Replays(a, trades, start) /\ a[Len(trades)] = {tops} /\ Legal(t, tops)
    BY <1>3, <1>5
  <2>3. trades' = Append(trades, t) /\ PackedRefs' = start /\ LiveRefs' = Apply(t, tops)
    BY <1>2, <1>3
  <2> HIDE DEF Q, start, tops
  <2>4. \E b : Replays(b, Append(trades, t), start) /\ b[Len(Append(trades, t))] = {Apply(t, tops)}
    BY <2>1, <2>2, ReplayGrows
  <2> QED
    BY <2>3, <2>4
<1> QED
  BY <1>2, <1>4, <1>6 DEF ReplayInv

(* Every step keeps the replay in agreement with the live tops.            *)
LEMMA NextReplays == IInv /\ TopsInv /\ ReplayInv /\ [Next]_vars => ReplayInv'
<1> SUFFICES ASSUME IInv, TopsInv, ReplayInv, [Next]_vars PROVE ReplayInv'
  OBVIOUS
<1>1. ASSUME trades' = << >>, Live' = packed', LiveRefs' = PackedRefs' PROVE ReplayInv'
  <2>1. \E a : Replays(a, trades', PackedRefs') /\ a[Len(trades')] = {PackedRefs'}
    BY <1>1, EmptyReplay
  <2>2. \E S : trades' \in Seq(S)
    <3>1. << >> \in Seq({})
      OBVIOUS
    <3> QED
      BY <1>1, <3>1
  <2> QED
    BY <1>1, <2>1, <2>2 DEF ReplayInv
<1>2. CASE DedupOnly \/ Dedup
  <2>1. /\ Live' = packed' /\ packed' \subseteq DOMAIN cls' /\ req' = req /\ trades' = << >>
        /\ \A c \in DOMAIN cls' : cls'[c] = NewClass(c) /\ c \in Ids
    BY <1>2, DedupFacts DEF ReplayInv
  <2>2. \A c \in Live' : cls'[c].top = req.hits[c]
    BY <2>1, NewClassType DEF IInv, TypeOK
  <2> QED
    BY <1>1, <2>1, <2>2 DEF LiveRefs, PackedRefs, Ref
<1>3. ASSUME NEW c \in agenda, Pack(c) PROVE ReplayInv'
  <2>1. /\ Live' = packed' /\ packed' \subseteq DOMAIN cls /\ req' = req /\ cls' = cls
        /\ trades' = << >> /\ phase = "pack"
    BY <1>3 DEF ReplayInv, Pack, Live, IInv, PhaseInv, TypeOK
  <2>2. \A d \in Live' : cls'[d].top = req.hits[d]
    BY <2>1, PackedLeaves
  <2> QED
    BY <1>1, <2>1, <2>2 DEF LiveRefs, PackedRefs, Ref
<1>4. CASE Quiet
  <2>1. LiveRefs' = LiveRefs /\ PackedRefs' = PackedRefs
    BY <1>4 DEF Quiet, LiveRefs, PackedRefs, Live, Ref, IInv, TypeOK
  <2> QED
    BY <1>4, <2>1 DEF Quiet, ReplayInv
<1> QED
  BY <1>2, <1>3, <1>4, NextKinds, TradeReplays

(* The trace replays without an error, to the tops that are live.          *)
THEOREM TraceReplays == Spec => []ReplayAgrees
<1>1. Init => ReplayInv
  <2> SUFFICES ASSUME Init PROVE ReplayInv
    OBVIOUS
  <2>1. trades = << >> /\ packed = {} /\ Live = {} /\ LiveRefs = PackedRefs
    BY DEF Init, Live, LiveRefs, PackedRefs
  <2>2. trades \in Seq({})
    BY <2>1
  <2> QED
    BY <2>1, <2>2, EmptyReplay DEF ReplayInv
<1>2. ReplayInv => ReplayAgrees
  <2> SUFFICES ASSUME ReplayInv PROVE ReplayTopIds = {LiveRefs}
    BY DEF ReplayAgrees, LiveRefs
  <2>1. Len(trades) \in Nat
    BY DEF ReplayInv
  <2>2. PICK a : Replays(a, trades, PackedRefs) /\ a[Len(trades)] = {LiveRefs}
    BY DEF ReplayInv
  <2> QED
    BY <2>1, <2>2, ReplayIsUnique
<1> QED
  BY <1>1, <1>2, Invariance, InitTops, NextTops, NextReplays, PTL DEF Spec

-----------------------------------------------------------------------------
(***************************************************************************)
(* Why the trade-up loop ends: every visit that changes anything but a     *)
(* parking mark uses up one of the levels a class has left to try, the     *)
(* classes start with at most |packed| * |Sizes| of them, and MaxRounds    *)
(* leaves room for two rounds more.  So the round limit never cuts the     *)
(* loop short, and what a finished run reports about itself is true.       *)
(***************************************************************************)

-----------------------------------------------------------------------------
(* More about sums.                                                        *)

(* A sum of smaller terms is smaller.                                      *)
LEMMA SumMonotone ==
    ASSUME NEW n \in Nat, NEW u \in [1 .. n -> Int], NEW w \in [1 .. n -> Int],
           \A i \in 1 .. n : u[i] <= w[i]
    PROVE  SumTo(u, n) <= SumTo(w, n)
<1>1. PICK r : PartialSums(r, u, n) /\ SumTo(u, n) = r[n]
  BY SumToDef
<1>2. PICK s : PartialSums(s, w, n) /\ SumTo(w, n) = s[n]
  BY SumToDef
<1> DEFINE G == {i \in 0 .. n : r[i] <= s[i]}
<1>3. 0 \in G
  BY <1>1, <1>2 DEF PartialSums
<1>4. ASSUME NEW i \in 1 .. n, i - 1 \in G PROVE i \in G
  <2>1. r[i] = r[i - 1] + u[i] /\ s[i] = s[i - 1] + w[i]
    BY <1>1, <1>2 DEF PartialSums
  <2>2. r[i - 1] <= s[i - 1] /\ u[i] <= w[i] /\ u[i] \in Int /\ w[i] \in Int
    BY <1>4
  <2>3. r[i - 1] \in Int /\ s[i - 1] \in Int
    BY <1>1, <1>2 DEF PartialSums
  <2> QED
    BY <2>1, <2>2, <2>3
<1>5. 0 .. n \subseteq G
  <2> HIDE DEF G
  <2> QED
    BY <1>3, <1>4, SetInduction
<1> QED
  BY <1>1, <1>2, <1>5

(* One strictly smaller term makes it strictly smaller.                    *)
LEMMA SumShrinks ==
    ASSUME NEW n \in Nat, NEW k \in 1 .. n,
           NEW u \in [1 .. n -> Int], NEW w \in [1 .. n -> Int],
           \A i \in 1 .. n : u[i] <= w[i], u[k] + 1 <= w[k]
    PROVE  SumTo(u, n) + 1 <= SumTo(w, n)
<1> DEFINE v == [i \in 1 .. n |-> IF i = k THEN u[i] + 1 ELSE u[i]]
<1>1. /\ v \in [1 .. n -> Int] /\ v[k] = u[k] + 1 /\ \A i \in 1 .. n : i # k => v[i] = u[i]
      /\ \A i \in 1 .. n : v[i] <= w[i]
  OBVIOUS
<1> HIDE DEF v
<1>2. SumTo(v, n) = SumTo(u, n) + 1
  <2>1. \A x \in Int : v[k] = u[k] + x => SumTo(v, n) = SumTo(u, n) + x
    BY <1>1, SumPlusOne
  <2> QED
    BY <1>1, <2>1
<1>3. SumTo(v, n) <= SumTo(w, n)
  BY <1>1, SumMonotone
<1>4. SumTo(u, n) \in Int /\ SumTo(w, n) \in Int
  BY <1>1, SumToInt
<1> QED
  BY <1>2, <1>3, <1>4

(* The sum of a constant over a set of indices.                            *)
LEMMA SumOfConstant ==
    ASSUME NEW n \in Nat, NEW S, S \subseteq 1 .. n, NEW x \in Nat
    PROVE  SumTo([i \in 1 .. n |-> IF i \in S THEN x ELSE 0], n) = Cardinality(S) * x
<1> DEFINE w == [i \in 1 .. n |-> IF i \in S THEN x ELSE 0]
           Upto(i) == S \cap (1 .. i)
<1>1. w \in [1 .. n -> Int]
  OBVIOUS
<1>2. PICK s : PartialSums(s, w, n) /\ SumTo(w, n) = s[n]
  <2> HIDE DEF w
  <2> QED
    BY <1>1, SumToDef
<1> DEFINE G == {i \in 0 .. n : s[i] = Cardinality(Upto(i)) * x}
<1>3. 0 \in G
  <2>1. Upto(0) = {}
    OBVIOUS
  <2>2. s[0] = 0 /\ Cardinality({}) = 0
    BY <1>2, FS_EmptySet DEF PartialSums
  <2> QED
    BY <2>1, <2>2
<1>4. ASSUME NEW i \in 1 .. n, i - 1 \in G PROVE i \in G
  <2>1. s[i] = s[i - 1] + w[i]
    BY <1>2 DEF PartialSums
  <2>2. IsFiniteSet(Upto(i - 1)) /\ Cardinality(Upto(i - 1)) \in Nat
    <3>1. IsFiniteSet(1 .. (i - 1))
      BY FS_Interval
    <3> QED
      BY <3>1, FS_Subset, FS_CardinalityType
  <2>3. i \notin Upto(i - 1) /\ s[i - 1] = Cardinality(Upto(i - 1)) * x
    BY <1>4
  <2>4. CASE i \in S
    <3>1. Upto(i) = Upto(i - 1) \cup {i} /\ w[i] = x
      BY <2>4
    <3>2. Cardinality(Upto(i)) = Cardinality(Upto(i - 1)) + 1
      BY <2>2, <2>3, <3>1, FS_AddElement
    <3> DEFINE m == Cardinality(Upto(i - 1))
    <3>3. m \in Nat /\ s[i - 1] = m * x /\ w[i] = x /\ Cardinality(Upto(i)) = m + 1
      BY <2>2, <2>3, <3>1, <3>2
    <3> HIDE DEF Upto, w, m
    <3>4. (m + 1) * x = m * x + x
      BY <3>3
    <3>5. s[i] = (m + 1) * x
      BY <2>1, <3>3, <3>4
    <3> QED
      BY <3>3, <3>5
  <2>5. CASE i \notin S
    <3>1. Upto(i) = Upto(i - 1) /\ w[i] = 0
      BY <2>5
    <3> HIDE DEF Upto, w
    <3> QED
      BY <2>1, <2>2, <2>3, <3>1
  <2> QED
    BY <2>4, <2>5
<1>5. 0 .. n \subseteq G
  <2> HIDE DEF G
  <2> QED
    BY <1>3, <1>4, SetInduction
<1>6. Upto(n) = S
  OBVIOUS
<1>7. s[n] = Cardinality(S) * x
  <2>1. n \in 0 .. n
    OBVIOUS
  <2>2. s[n] = Cardinality(Upto(n)) * x
    BY <1>5, <2>1
  <2> QED
    BY <1>6, <2>2
<1> HIDE DEF w
<1>8. SumTo(w, n) = Cardinality(S) * x
  BY <1>2, <1>7
<1> QED
  BY <1>8 DEF w

-----------------------------------------------------------------------------
(* What is left to do.                                                     *)

(* The visits class c can still make use of: one for each level above its  *)
(* top that was not skipped, and one to saturate.                          *)
Work(c) ==
    IF c \in Live /\ ~ cls[c].saturated
    THEN 1 + Cardinality(LevelsAbove(cls[c].top.size) \ cls[c].skip)
    ELSE 0

WorkOf == [i \in Ids |-> Work(i)]

Remaining == SumTo(WorkOf, Len(req.hits))

Most == Cardinality(packed) * Cardinality(Sizes)

(* The sizes above s that are not in a set of skipped ones.                *)
LEMMA LevelsAreFew ==
    ASSUME NEW s \in Sizes, NEW K
    PROVE  /\ IsFiniteSet(LevelsAbove(s) \ K)
           /\ Cardinality(LevelsAbove(s) \ K) \in Nat
           /\ 1 + Cardinality(LevelsAbove(s) \ K) <= Cardinality(Sizes)
<1> DEFINE A == LevelsAbove(s) \ K
<1>1. A \in SUBSET Sizes /\ s \notin A /\ A \cup {s} \in SUBSET Sizes /\ IsFiniteSet(Sizes)
  BY GridAssumption DEF LevelsAbove
<1> HIDE DEF A
<1>2. IsFiniteSet(A) /\ Cardinality(A) \in Nat
  BY <1>1, FS_Subset, FS_CardinalityType
<1>3. Cardinality(A \cup {s}) = Cardinality(A) + 1
  BY <1>1, <1>2, FS_AddElement
<1>4. Cardinality(A \cup {s}) <= Cardinality(Sizes)
  BY <1>1, FS_Subset
<1> QED
  BY <1>2, <1>3, <1>4 DEF A

(* The work of a class is bounded by the number of sizes.                  *)
LEMMA WorkBound ==
    ASSUME TypeOK, NEW c
    PROVE  /\ Work(c) \in Nat /\ Work(c) <= Cardinality(Sizes)
           /\ c \notin packed => Work(c) = 0
           /\ c \in Live /\ ~ cls[c].saturated => Work(c) >= 1
<1>1. Cardinality(Sizes) \in Nat
  BY GridAssumption, FS_CardinalityType
<1>2. CASE c \in Live /\ ~ cls[c].saturated
  <2>1. cls[c].top.size \in Sizes /\ c \in packed
    <3>1. c \in DOMAIN cls /\ c \in packed
      BY <1>2 DEF Live, TypeOK
    <3>2. cls[c].top \in Hits \cup req.source
      BY <3>1, TopCost
    <3>3. IsCut(cls[c].top)
      BY <3>2, SlicesOfRequest DEF TypeOK
    <3> QED
      BY <3>1, <3>3, CutSpan DEF IsCut
  <2>2. Work(c) = 1 + Cardinality(LevelsAbove(cls[c].top.size) \ cls[c].skip)
    BY <1>2 DEF Work
  <2> QED
    BY <1>1, <2>1, <2>2, LevelsAreFew
<1>3. CASE ~ (c \in Live /\ ~ cls[c].saturated)
  <2>1. Work(c) = 0
    BY <1>3 DEF Work
  <2> QED
    BY <1>1, <1>3, <2>1
<1> QED
  BY <1>2, <1>3

(* So all of it is bounded by Most.                                        *)
LEMMA RemainingBound ==
    ASSUME TypeOK
    PROVE  /\ Len(req.hits) \in Nat /\ Ids = 1 .. Len(req.hits)
           /\ WorkOf \in [1 .. Len(req.hits) -> Int]
           /\ Remaining \in Nat /\ Most \in Nat /\ Remaining <= Most
<1> DEFINE n == Len(req.hits)
           K == Cardinality(Sizes)
           u == WorkOf
           w == [i \in 1 .. n |-> IF i \in packed THEN K ELSE 0]
           z == [i \in 1 .. n |-> 0]
<1>1. n \in Nat /\ Ids = 1 .. n /\ packed \subseteq 1 .. n
  BY HitsAreNumbered DEF TypeOK, Ids
<1>2. K \in Nat /\ Cardinality(packed) \in Nat
  <2>1. IsFiniteSet(1 .. n)
    BY <1>1, FS_Interval
  <2>2. IsFiniteSet(packed)
    BY <1>1, <2>1, FS_Subset
  <2> QED
    BY <2>2, GridAssumption, FS_CardinalityType
<1>3. u \in [1 .. n -> Int] /\ \A i \in 1 .. n : u[i] = Work(i)
  <2>1. \A i \in Ids : Work(i) \in Int
    BY WorkBound
  <2> QED
    BY <1>1, <2>1 DEF WorkOf
<1>4. w \in [1 .. n -> Int] /\ z \in [1 .. n -> Int]
  BY <1>2
<1>5. \A i \in 1 .. n : z[i] <= u[i] /\ u[i] <= w[i]
  <2> SUFFICES ASSUME NEW i \in 1 .. n PROVE z[i] <= u[i] /\ u[i] <= w[i]
    OBVIOUS
  <2>1. u[i] = Work(i) /\ Work(i) \in Nat /\ Work(i) <= K /\ (i \notin packed => Work(i) = 0)
    BY <1>3, WorkBound
  <2>2. z[i] = 0 /\ w[i] = IF i \in packed THEN K ELSE 0
    OBVIOUS
  <2> HIDE DEF z, w, u, K
  <2> QED
    BY <1>2, <2>1, <2>2
<1>6. SumTo(w, n) = Cardinality(packed) * K
  <2> HIDE DEF n, K
  <2> QED
    BY <1>1, <1>2, SumOfConstant
<1>7. SumTo(z, n) = 0
  <2>1. \A i \in 1 .. n : z[i] = 0
    OBVIOUS
  <2> HIDE DEF z, n
  <2> QED
    BY <1>1, <1>4, <2>1, SumOfZeros
<1>8. SumTo(u, n) \in Int /\ SumTo(z, n) <= SumTo(u, n) /\ SumTo(u, n) <= SumTo(w, n)
  <2> HIDE DEF z, w, u, n
  <2> QED
    BY <1>1, <1>3, <1>4, <1>5, SumToInt, SumMonotone
<1>9. Cardinality(packed) * K \in Nat
  <2> HIDE DEF K
  <2> QED
    BY <1>2
<1>10. Remaining = SumTo(u, n) /\ Most = Cardinality(packed) * K
  BY DEF Remaining, Most
<1> HIDE DEF z, w, u, K, n
<1>11. Remaining \in Nat /\ Most \in Nat /\ Remaining <= Most
  BY <1>6, <1>7, <1>8, <1>9, <1>10
<1> QED
  BY <1>1, <1>3, <1>11 DEF n, u

(* The bounds, as one state predicate.                                     *)
Bounded ==
    /\ Len(req.hits) \in Nat /\ Ids = 1 .. Len(req.hits)
    /\ WorkOf \in [1 .. Len(req.hits) -> Int]
    /\ \A c \in Ids : WorkOf[c] = Work(c) /\ Work(c) \in Nat
    /\ Remaining \in Nat /\ Most \in Nat /\ Remaining <= Most

(* They hold of every well typed state.                                    *)
LEMMA TypedIsBounded == TypeOK => Bounded
<1> SUFFICES ASSUME TypeOK PROVE Bounded
  OBVIOUS
<1>1. \A c \in Ids : WorkOf[c] = Work(c) /\ Work(c) \in Nat
  BY WorkBound DEF WorkOf
<1> QED
  BY <1>1, RemainingBound DEF Bounded

(* And of the next one.                                                    *)
LEMMA BoundedNext == TypeOK' => Bounded'
BY TypedIsBounded, PTL

(* The levels class c has left to try.                                     *)
Untried(c) == LevelsAbove(cls[c].top.size) \ cls[c].skip

(* The next target is one of them.                                         *)
LEMMA TargetUntried ==
    ASSUME NEW c, NextTargetSize(c) # None
    PROVE  NextTargetSize(c) \in Untried(c)
<1> DEFINE open == {z \in Untried(c) : Allowed(z) /\ ~ Degenerate(cls[c].top, z)}
<1>1. open # {} /\ NextTargetSize(c) = Min(open)
  BY DEF NextTargetSize, Untried
<1>2. open \subseteq Nat
  BY GridAssumption DEF Untried, LevelsAbove
<1>3. Min(open) \in open
  <2> HIDE DEF open
  <2> QED
    BY <1>1, <1>2, MinIsLeast
<1> QED
  BY <1>1, <1>3

(* A step under which class c has no more to do than before.               *)
NoMoreWork(c) ==
    c \in Live' => /\ c \in Live
                   /\ \/ cls'[c].saturated
                      \/ ~ cls[c].saturated /\ Untried(c)' \subseteq Untried(c)

(* A step under which it has less to do.                                   *)
LessWork(c) ==
    /\ c \in Live /\ ~ cls[c].saturated
    /\ \/ c \in Live' /\ cls'[c].saturated
       \/ \E z \in Untried(c) : Untried(c)' \subseteq Untried(c) \ {z}

(* Fewer levels to try are less work.                                      *)
LEMMA WorkFollows ==
    ASSUME TypeOK, NEW c
    PROVE  /\ NoMoreWork(c) => Work(c)' <= Work(c)
           /\ LessWork(c) => Work(c)' + 1 <= Work(c)
<1>1. /\ Work(c)' = IF c \in Live' /\ ~ cls'[c].saturated
                    THEN 1 + Cardinality(Untried(c)') ELSE 0
      /\ Work(c) = IF c \in Live /\ ~ cls[c].saturated
                    THEN 1 + Cardinality(Untried(c)) ELSE 0
  BY DEF Work, Untried
<1>2. Work(c) \in Nat
  BY WorkBound
<1>3. ASSUME c \in Live
      PROVE  IsFiniteSet(Untried(c)) /\ Cardinality(Untried(c)) \in Nat
  <2>1. IsFiniteSet(Sizes) /\ Untried(c) \subseteq Sizes
    BY GridAssumption DEF Untried, LevelsAbove
  <2> QED
    BY <2>1, FS_Subset, FS_CardinalityType
<1>4. ASSUME NoMoreWork(c) PROVE Work(c)' <= Work(c)
  <2>1. CASE c \in Live' /\ ~ cls'[c].saturated
    <3>1. c \in Live /\ ~ cls[c].saturated /\ Untried(c)' \subseteq Untried(c)
      BY <1>4, <2>1 DEF NoMoreWork
    <3>2. Cardinality(Untried(c)') <= Cardinality(Untried(c)) /\ Cardinality(Untried(c)') \in Nat
      BY <1>3, <3>1, FS_Subset, FS_CardinalityType
    <3> QED
      BY <1>1, <1>3, <2>1, <3>1, <3>2
  <2>2. CASE ~ (c \in Live' /\ ~ cls'[c].saturated)
    <3>1. Work(c)' = 0
      BY <1>1, <2>2
    <3> QED
      BY <1>2, <3>1
  <2> QED
    BY <2>1, <2>2
<1>5. ASSUME LessWork(c) PROVE Work(c)' + 1 <= Work(c)
  <2>1. c \in Live /\ Work(c) = 1 + Cardinality(Untried(c))
    BY <1>1, <1>5 DEF LessWork
  <2>2. IsFiniteSet(Untried(c)) /\ Cardinality(Untried(c)) \in Nat
    BY <1>3, <2>1
  <2>3. CASE c \in Live' /\ ~ cls'[c].saturated
    <3>1. PICK z \in Untried(c) : Untried(c)' \subseteq Untried(c) \ {z}
      BY <1>5, <2>3 DEF LessWork
    <3>2. IsFiniteSet(Untried(c) \ {z}) /\ Cardinality(Untried(c) \ {z}) = Cardinality(Untried(c)) - 1
      BY <2>2, FS_RemoveElement
    <3>3. Cardinality(Untried(c)') <= Cardinality(Untried(c)) - 1 /\ Cardinality(Untried(c)') \in Nat
      BY <3>1, <3>2, FS_Subset, FS_CardinalityType
    <3> QED
      BY <1>1, <2>1, <2>2, <2>3, <3>3
  <2>4. CASE ~ (c \in Live' /\ ~ cls'[c].saturated)
    <3>1. Work(c)' = 0
      BY <1>1, <2>4
    <3> QED
      BY <2>1, <2>2, <3>1
  <2> QED
    BY <2>3, <2>4
<1> QED
  BY <1>4, <1>5

(* If nobody has more to do and some class less, less remains to be done.  *)
LEMMA RemainingShrinks ==
    ASSUME TypeOK, TypeOK', req' = req, NEW c \in Ids, LessWork(c),
           \A d \in Ids : NoMoreWork(d)
    PROVE  Remaining' + 1 <= Remaining
<1> DEFINE n == Len(req.hits)
           u == WorkOf'
           w == WorkOf
<1>1. /\ n \in Nat /\ Ids = 1 .. n /\ w \in [1 .. n -> Int]
      /\ \A d \in Ids : w[d] = Work(d) /\ Work(d) \in Nat
  BY TypedIsBounded DEF Bounded
<1>2. Ids' = Ids /\ u \in [1 .. n -> Int] /\ \A d \in Ids : u[d] = Work(d)' /\ Work(d)' \in Nat
  BY BoundedNext DEF Bounded, Ids
<1>3. \A d \in 1 .. n : u[d] <= w[d]
  BY <1>1, <1>2, WorkFollows
<1>4. u[c] + 1 <= w[c]
  BY <1>1, <1>2, WorkFollows
<1>5. Remaining = SumTo(w, n) /\ Remaining' = SumTo(u, n)
  BY DEF Remaining
<1>6. c \in 1 .. n
  BY <1>1
<1> HIDE DEF n, u, w
<1> QED
  BY <1>1, <1>2, <1>3, <1>4, <1>5, <1>6, SumShrinks

(* If no top, no mark but the parking one and nobody's life changes,       *)
(* as much remains.                                                        *)
LEMMA RemainingKept ==
    ASSUME req' = req, Live' = Live,
           \A d \in Live : /\ cls'[d].top = cls[d].top /\ cls'[d].skip = cls[d].skip
                           /\ cls'[d].saturated = cls[d].saturated
    PROVE  Remaining' = Remaining
<1>1. Ids' = Ids /\ Len(req'.hits) = Len(req.hits)
  BY DEF Ids
<1>2. \A d \in Ids : Work(d)' = Work(d)
  BY DEF Work
<1>3. WorkOf' = WorkOf
  BY <1>1, <1>2 DEF WorkOf
<1> QED
  BY <1>1, <1>3 DEF Remaining

-----------------------------------------------------------------------------
(* What each visit does to its class, and to the others.                   *)

(* Saturating leaves the class nothing to do.                              *)
LEMMA SaturateMarks ==
    ASSUME IInv, NEW c \in agenda, Saturate(c)
    PROVE  /\ DOMAIN cls' = DOMAIN cls /\ \A d \in DOMAIN cls : d # c => cls'[d] = cls[d]
           /\ cls'[c].top = cls[c].top /\ cls'[c].alive = cls[c].alive
           /\ cls'[c].saturated = TRUE /\ cls'[c].skip = cls[c].skip
           /\ cls'[c].levels = cls[c].levels /\ cls'[c].parked = None
<1>1. c \in DOMAIN cls /\ cls[c] \in Class
  BY VisitKeeps DEF Saturate
<1>2. cls' = [cls EXCEPT ![c] = [cls[c] EXCEPT !.saturated = TRUE, !.parked = None]]
  BY DEF Saturate
<1> QED
  BY <1>1, <1>2 DEF Class

(* A miss or a stale parent rules out one level.                           *)
LEMMA SkipMarks ==
    ASSUME IInv, NEW c \in agenda, FetchMiss(c) \/ StaleParent(c)
    PROVE  /\ DOMAIN cls' = DOMAIN cls /\ \A d \in DOMAIN cls : d # c => cls'[d] = cls[d]
           /\ cls'[c].top = cls[c].top /\ cls'[c].alive = cls[c].alive
           /\ cls'[c].saturated = cls[c].saturated /\ cls'[c].parked = None
           /\ NextTargetSize(c) # None
           /\ cls'[c].skip = cls[c].skip \cup {NextTargetSize(c)}
<1>1. c \in DOMAIN cls /\ cls[c] \in Class
  BY VisitKeeps DEF FetchMiss, StaleParent
<1> DEFINE z == NextTargetSize(c)
<1>2. /\ z # None
      /\ cls' = [cls EXCEPT ![c] = [cls[c] EXCEPT !.skip = @ \cup {z}, !.parked = None]]
  BY DEF FetchMiss, StaleParent
<1> HIDE DEF z
<1>3. cls'[c] = [cls[c] EXCEPT !.skip = @ \cup {z}, !.parked = None]
  BY <1>1, <1>2
<1> QED
  BY <1>1, <1>2, <1>3 DEF Class, z

(* Parking only remembers the budget.                                      *)
LEMMA ParkMarks ==
    ASSUME IInv, NEW c \in agenda, OverBudget(c)
    PROVE  /\ DOMAIN cls' = DOMAIN cls /\ \A d \in DOMAIN cls : d # c => cls'[d] = cls[d]
           /\ cls'[c].top = cls[c].top /\ cls'[c].alive = cls[c].alive
           /\ cls'[c].saturated = cls[c].saturated /\ cls'[c].skip = cls[c].skip
           /\ cls'[c].levels = cls[c].levels /\ cls'[c].parked = left
<1>1. c \in DOMAIN cls /\ cls[c] \in Class
  BY VisitKeeps DEF OverBudget
<1>2. cls' = [cls EXCEPT ![c] = [cls[c] EXCEPT !.parked = left]]
  BY DEF OverBudget
<1> QED
  BY <1>1, <1>2 DEF Class

(* A trade replaces the top by a slice of the size aimed at; the absorbed  *)
(* classes only die.                                                       *)
LEMMA TradeMarks ==
    ASSUME IInv, NEW c \in agenda, NEW p \in Offers(c), Trading(c, p)
    PROVE  /\ DOMAIN cls' = DOMAIN cls /\ c \in DOMAIN cls
           /\ cls'[c].top.size = NextTargetSize(c) /\ NextTargetSize(c) # None
           /\ cls'[c].skip = cls[c].skip /\ cls'[c].saturated = cls[c].saturated
           /\ cls'[c].parked = None /\ cls'[c].alive = cls[c].alive
           /\ \A d \in DOMAIN cls : d # c =>
                 /\ cls'[d].top = cls[d].top /\ cls'[d].skip = cls[d].skip
                 /\ cls'[d].saturated = cls[d].saturated /\ cls'[d].parked = cls[d].parked
                 /\ cls'[d].levels = cls[d].levels
                 /\ cls'[d].alive => cls[d].alive
<1>1. /\ c \in DOMAIN cls /\ cls[c] \in Class /\ cls' = Traded(c, p)
      /\ \A d \in DOMAIN cls : cls[d] \in Class
  BY TopCost DEF Trading, Live, IInv, TypeOK
<1>2. p.size = NextTargetSize(c) /\ NextTargetSize(c) # None
  <2>1. PICK z \in {NextTargetSize(c)} \ {None} : p = Parent(c, z) /\ p # None
    BY DEF Offers
  <2>2. Ref(p) = ParentRef(cls[c].top, z)
    BY <2>1, ResolvesToRef DEF Parent, IInv, TypeOK
  <2> QED
    BY <2>1, <2>2 DEF Ref, ParentRef
<1>3. cls'[c] = Grown(c, p)
  BY <1>1 DEF Traded
<1>4. /\ Grown(c, p).top = p /\ Grown(c, p).skip = cls[c].skip
      /\ Grown(c, p).saturated = cls[c].saturated /\ Grown(c, p).parked = None
      /\ Grown(c, p).alive = cls[c].alive
  <2> DEFINE e == MergedEvidence(c, p)
             r == MergedRank(c, p)
             g == cls[c].replaced \cup {Ref(cls[o].top) : o \in {c} \cup Subsumed(c, p)}
                     \cup UNION {cls[o].replaced : o \in {c} \cup Subsumed(c, p)}
  <2>1. Grown(c, p) = [cls[c] EXCEPT !.top = p, !.levels = @ + 1, !.parked = None,
                         !.evidence = e, !.rank = r, !.replaced = g]
    BY DEF Grown
  <2> HIDE DEF e, r, g
  <2> QED
    BY <1>1, <2>1 DEF Class
<1>5. ASSUME NEW d \in DOMAIN cls, d # c
      PROVE  cls'[d] = cls[d] \/ cls'[d] = [cls[d] EXCEPT !.alive = FALSE]
  BY <1>1, <1>5 DEF Traded
<1>6. DOMAIN cls' = DOMAIN cls
  BY <1>1 DEF Traded
<1> QED
  BY <1>1, <1>2, <1>3, <1>4, <1>5, <1>6 DEF Class

(* Every visit but a parking one uses up work.                             *)
LEMMA VisitWorks ==
    ASSUME IInv, NEW c \in agenda, ~ cls[c].saturated,
           Saturate(c) \/ FetchMiss(c) \/ StaleParent(c) \/ TradeUp(c)
    PROVE  Remaining' + 1 <= Remaining
<1>1. Visit(c) /\ c \in Live /\ c \in DOMAIN cls /\ req' = req /\ packed' = packed
  BY VisitKeeps DEF Saturate, FetchMiss, StaleParent, TradeUp
<1>2. Live \subseteq DOMAIN cls /\ packed \subseteq DOMAIN cls /\ DOMAIN cls \subseteq Ids
  BY DEF IInv, TypeOK, Live
<1>3. LessWork(c) /\ \A d \in Ids : NoMoreWork(d)
  <2>1. CASE Saturate(c)
    <3>1. Live' = Live
      <4>1. \A d \in packed : cls'[d].alive = cls[d].alive
        BY <1>2, <2>1, SaturateMarks
      <4> QED
        BY <1>1, <4>1 DEF Live
    <3> QED
      BY <1>1, <1>2, <2>1, <3>1, SaturateMarks DEF LessWork, NoMoreWork, Untried
  <2>2. CASE FetchMiss(c) \/ StaleParent(c)
    <3> DEFINE z == NextTargetSize(c)
    <3>1. Live' = Live
      <4>1. \A d \in packed : cls'[d].alive = cls[d].alive
        BY <1>2, <2>2, SkipMarks
      <4> QED
        BY <1>1, <4>1 DEF Live
    <3>2. z \in Untried(c) /\ Untried(c)' = Untried(c) \ {z}
      BY <2>2, SkipMarks, TargetUntried DEF Untried
    <3>3. \A d \in Live : d # c => cls'[d] = cls[d]
      BY <1>2, <2>2, SkipMarks
    <3>4. LessWork(c) /\ NoMoreWork(c)
      BY <1>1, <3>1, <3>2 DEF LessWork, NoMoreWork
    <3>5. \A d \in Ids : d # c => NoMoreWork(d)
      BY <3>1, <3>3 DEF NoMoreWork, Untried
    <3> QED
      BY <3>4, <3>5
  <2>3. CASE TradeUp(c)
    <3>1. PICK p \in Offers(c) : Trading(c, p)
      BY <2>3, TradeUpTrades
    <3> DEFINE z == NextTargetSize(c)
    <3>2. z \in Untried(c) /\ z # None /\ cls'[c].top.size = z
      BY <3>1, TradeMarks, TargetUntried
    <3>3. Untried(c)' \subseteq Untried(c) \ {z}
      <4>1. cls[c].top.size \in Nat /\ z \in Sizes /\ z > cls[c].top.size
        <5>1. IsCut(cls[c].top)
          BY <1>1, TopsAreSlices
        <5>2. cls[c].top.size \in Nat
          BY <5>1, CutSpan
        <5> HIDE DEF z
        <5> QED
          BY <3>2, <5>2 DEF Untried, LevelsAbove
      <4>2. \A y \in Sizes : y > z => y > cls[c].top.size /\ y # z
        <5> DEFINE m == cls[c].top.size
        <5>1. m \in Nat /\ z \in Nat /\ z > m /\ Sizes \subseteq Nat
          BY <4>1, GridAssumption
        <5> HIDE DEF m, z
        <5>2. \A y \in Sizes : y > z => y > m /\ y # z
          BY <5>1
        <5> QED
          BY <5>2 DEF m
      <4>3. cls'[c].skip = cls[c].skip
        BY <3>1, TradeMarks
      <4> HIDE DEF z
      <4> QED
        BY <3>2, <4>2, <4>3 DEF Untried, LevelsAbove
    <3>4. LessWork(c)
      BY <1>1, <3>2, <3>3 DEF LessWork
    <3>5. NoMoreWork(c)
      BY <1>1, <3>3 DEF NoMoreWork
    <3>6. ASSUME NEW d \in Ids, d # c PROVE NoMoreWork(d)
      <4> SUFFICES ASSUME d \in Live' PROVE NoMoreWork(d)
        BY DEF NoMoreWork
      <4>1. d \in DOMAIN cls /\ d \in Live
        <5>1. d \in packed /\ cls'[d].alive /\ d \in DOMAIN cls
          BY <1>1 DEF Live, IInv, TypeOK
        <5> QED
          BY <3>1, <3>6, <5>1, TradeMarks DEF Live
      <4>2. /\ cls'[d].top = cls[d].top /\ cls'[d].skip = cls[d].skip
            /\ cls'[d].saturated = cls[d].saturated
        BY <3>1, <3>6, <4>1, TradeMarks
      <4> QED
        BY <4>1, <4>2 DEF NoMoreWork, Untried
    <3> QED
      BY <3>4, <3>5, <3>6
  <2> QED
    BY <2>1, <2>2, <2>3
<1>4. TypeOK /\ TypeOK'
  <2>1. Next
    BY DEF Next, Step
  <2> QED
    BY <2>1, NextIInv DEF IInv
<1> QED
  BY <1>1, <1>2, <1>3, <1>4, RemainingShrinks

-----------------------------------------------------------------------------
(* Why the round limit is never what ends the loop.                        *)

(* A class there is nothing to do for until the budget grows.              *)
Asleep(c) == cls[c].saturated \/ ~ Awake(c)

(* round counts the rounds begun.  Before each of them as many rounds as   *)
(* there is work are left within the limit, or one less and all classes    *)
(* sleep.  In the round that found work used up one of them; in one that   *)
(* found none yet, the classes it has passed sleep.                        *)
RoundInv ==
    \/ round + Remaining <= Most
    \/ round + Remaining <= Most + 1 /\ \A c \in Live \ agenda : Asleep(c)
    \/ round + Remaining <= Most + 2 /\ ~ progressed /\ \A c \in Live : Asleep(c)

LoopInv ==
    /\ phase \in {"dedup", "pack"} => round = 0
    /\ phase = "between" =>
          \/ round + Remaining <= Most
          \/ round + Remaining <= Most + 1 /\ \A c \in Live : Asleep(c)
    /\ phase = "round" =>
          /\ RoundInv
          /\ ~ progressed => \A c \in Live \ agenda : Asleep(c)
          /\ \A c \in agenda : ~ cls[c].saturated
    /\ phase = "done" /\ req.budget # None /\ req.expansion # "off" =>
          \A c \in Live : Asleep(c)

(* What a step that changes no class and no budget keeps.                  *)
LEMMA SleepKept ==
    ASSUME req' = req, cls' = cls, packed' = packed, left' = left
    PROVE  /\ Live' = Live /\ Remaining' = Remaining /\ Most' = Most
           /\ \A d : Asleep(d)' <=> Asleep(d)
<1>1. Live' = Live
  BY DEF Live
<1>2. Remaining' = Remaining
  BY <1>1, RemainingKept
<1>3. \A d : Asleep(d)' <=> Asleep(d)
  BY DEF Asleep, Awake
<1> QED
  BY <1>1, <1>2, <1>3 DEF Most

(* Between the loops.                                                      *)
LEMMA EdgesLoop ==
    ASSUME IInv, LoopInv, EndPack \/ BeginRound \/ EndRound \/ UNCHANGED vars PROVE LoopInv'
<1>1. /\ req' = req /\ cls' = cls /\ packed' = packed /\ left' = left
      /\ agenda' = agenda \/ phase = "between"
  BY DEF EndPack, BeginRound, EndRound, vars
<1>2. /\ Live' = Live /\ Remaining' = Remaining /\ Most' = Most
      /\ \A d : Asleep(d)' <=> Asleep(d)
  BY <1>1, SleepKept
<1>3. /\ Remaining \in Nat /\ Most \in Nat /\ Remaining <= Most /\ round \in Nat
      /\ MaxRounds = Most + 2
  BY TypedIsBounded DEF Bounded, IInv, TypeOK, Most, MaxRounds
<1>4. CASE UNCHANGED vars
  <2>1. round' = round /\ phase' = phase /\ progressed' = progressed /\ agenda' = agenda
    BY <1>4 DEF vars
  <2> QED
    BY <1>1, <1>2, <2>1 DEF LoopInv, RoundInv
<1>5. CASE EndPack
  <2>1. CASE phase' = "between"
    <3>1. round' = 0
      BY <1>5 DEF EndPack, LoopInv
    <3> QED
      BY <1>2, <1>3, <2>1, <3>1 DEF LoopInv
  <2>2. CASE phase' # "between"
    <3>1. phase' = "done" /\ (req.expansion = "off" \/ Live = {})
      BY <1>5, <2>2 DEF EndPack, Live
    <3> QED
      BY <1>1, <1>2, <3>1 DEF LoopInv
  <2> QED
    BY <2>1, <2>2
<1>6. CASE BeginRound
  <2>1. /\ phase = "between" /\ phase' = "round" /\ round' = round + 1 /\ progressed' = FALSE
        /\ agenda' = {c \in Live : ~ cls[c].saturated}
    BY <1>6 DEF BeginRound
  <2>2. \A c \in Live' \ agenda' : Asleep(c)'
    BY <1>2, <2>1 DEF Asleep
  <2>3. RoundInv'
    <3>1. CASE round + Remaining <= Most
      <4>1. round' + Remaining' <= Most' + 1
        BY <1>2, <1>3, <2>1, <3>1
      <4> QED
        BY <2>2, <4>1 DEF RoundInv
    <3>2. CASE round + Remaining <= Most + 1 /\ \A c \in Live : Asleep(c)
      <4>1. round' + Remaining' <= Most' + 2
        BY <1>2, <1>3, <2>1, <3>2
      <4> QED
        BY <1>2, <2>1, <3>2, <4>1 DEF RoundInv
    <3> QED
      BY <2>1, <3>1, <3>2 DEF LoopInv
  <2> QED
    BY <1>1, <2>1, <2>2, <2>3 DEF LoopInv
<1>7. CASE EndRound
  <2>1. /\ phase = "round" /\ agenda = {} /\ round' = round
        /\ phase' = IF LoopEnds THEN "done" ELSE "between"
    BY <1>7 DEF EndRound
  <2>2. RoundInv /\ (~ progressed => \A c \in Live \ agenda : Asleep(c))
    BY <2>1 DEF LoopInv
  <2>3. CASE LoopEnds
    <3>1. \A c \in Live : Asleep(c)
      <4>1. CASE ~ progressed
        BY <2>1, <2>2, <4>1
      <4>2. CASE AllSettled
        BY <4>2 DEF AllSettled, Live, Asleep
      <4>3. CASE round >= MaxRounds
        <5>1. ~ (round + Remaining <= Most)
          BY <1>3, <4>3
        <5> QED
          BY <2>1, <2>2, <5>1 DEF RoundInv
      <4> QED
        BY <2>3, <4>1, <4>2, <4>3 DEF LoopEnds
    <3> QED
      BY <1>2, <2>1, <2>3, <3>1 DEF LoopInv
  <2>4. CASE ~ LoopEnds
    <3>1. progressed
      BY <2>4 DEF LoopEnds
    <3>2. \/ round + Remaining <= Most
          \/ round + Remaining <= Most + 1 /\ \A c \in Live : Asleep(c)
      BY <2>1, <2>2, <3>1 DEF RoundInv
    <3> QED
      BY <1>2, <2>1, <2>4, <3>2 DEF LoopInv
  <2> QED
    BY <2>3, <2>4
<1> QED
  BY <1>4, <1>5, <1>6, <1>7

(* Passing over a class leaves it asleep, or absorbed.                     *)
LEMMA PassLoop ==
    ASSUME IInv, LoopInv, NEW c \in agenda, PassOver(c) PROVE LoopInv'
<1>1. /\ req' = req /\ cls' = cls /\ packed' = packed /\ left' = left /\ round' = round
      /\ phase = "round" /\ phase' = "round" /\ progressed' = progressed
      /\ agenda' = agenda \ {c} /\ (~ cls[c].alive \/ ~ Awake(c))
  BY DEF PassOver
<1>2. /\ Live' = Live /\ Remaining' = Remaining /\ Most' = Most
      /\ \A d : Asleep(d)' <=> Asleep(d)
  BY <1>1, SleepKept
<1>3. c \in Live => Asleep(c)
  BY <1>1 DEF Live, Asleep
<1>4. (\A d \in Live \ agenda : Asleep(d)) => \A d \in Live' \ agenda' : Asleep(d)'
  BY <1>1, <1>2, <1>3
<1>5. RoundInv'
  BY <1>1, <1>2, <1>4 DEF LoopInv, RoundInv
<1> QED
  BY <1>1, <1>4, <1>5 DEF LoopInv

(* Parking a class puts it to sleep.                                       *)
LEMMA ParkLoop ==
    ASSUME IInv, LoopInv, NEW c \in agenda, OverBudget(c) PROVE LoopInv'
<1>1. /\ c \in DOMAIN cls /\ req' = req /\ packed' = packed /\ left' = left /\ round' = round
      /\ phase = "round" /\ phase' = "round" /\ progressed' = TRUE /\ agenda' = agenda \ {c}
      /\ c \in Live /\ Awake(c)
  BY VisitKeeps DEF OverBudget, Visit
<1>2. packed \subseteq DOMAIN cls /\ Live \subseteq DOMAIN cls /\ left \in Nat /\ agenda \subseteq DOMAIN cls
  BY DEF IInv, TypeOK, Live
<1>3. Live' = Live
  <2>1. \A d \in packed : cls'[d].alive = cls[d].alive
    BY <1>2, ParkMarks
  <2> QED
    BY <1>1, <2>1 DEF Live
<1>4. Remaining' = Remaining /\ Most' = Most
  <2>1. \A d \in Live : /\ cls'[d].top = cls[d].top /\ cls'[d].skip = cls[d].skip
                        /\ cls'[d].saturated = cls[d].saturated
    BY <1>2, ParkMarks
  <2> QED
    BY <1>1, <1>3, <2>1, RemainingKept DEF Most
<1>5. \A d \in Live : d # c => (Asleep(d)' <=> Asleep(d))
  BY <1>1, <1>2, ParkMarks DEF Asleep, Awake
<1>6. Asleep(c)' /\ ~ cls[c].saturated /\ ~ Asleep(c)
  <2>1. ~ cls[c].saturated
    BY <1>1 DEF LoopInv
  <2>2. cls'[c].parked = left /\ left \in Nat /\ left # None
    BY <1>2, ParkMarks, RequestsAssumption
  <2> QED
    BY <1>1, <2>1, <2>2 DEF Asleep, Awake
<1>7. (\A d \in Live \ agenda : Asleep(d)) => \A d \in Live' \ agenda' : Asleep(d)'
  BY <1>1, <1>3, <1>5, <1>6
<1>8. RoundInv'
  BY <1>1, <1>3, <1>4, <1>6, <1>7 DEF LoopInv, RoundInv
<1>9. \A d \in agenda' : ~ cls'[d].saturated
  BY <1>1, <1>2, ParkMarks DEF LoopInv
<1> QED
  BY <1>1, <1>8, <1>9 DEF LoopInv

(* Any other visit uses up work.                                           *)
LEMMA WorkLoop ==
    ASSUME IInv, LoopInv, NEW c \in agenda,
           Saturate(c) \/ FetchMiss(c) \/ StaleParent(c) \/ TradeUp(c)
    PROVE  LoopInv'
<1>1. Visit(c)
  BY DEF Saturate, FetchMiss, StaleParent, TradeUp
<1>2. /\ c \in DOMAIN cls /\ req' = req /\ packed' = packed /\ round' = round
      /\ phase = "round" /\ phase' = "round" /\ progressed' = TRUE /\ agenda' = agenda \ {c}
      /\ c \in Live /\ Awake(c)
  BY <1>1, VisitKeeps DEF Visit
<1>3. ~ cls[c].saturated /\ ~ Asleep(c)
  BY <1>2 DEF LoopInv, Asleep
<1>4. Remaining' + 1 <= Remaining /\ Most' = Most
  BY <1>2, <1>3, VisitWorks DEF Most
<1>5. Remaining \in Nat /\ Remaining' \in Nat /\ Most \in Nat /\ round \in Nat
  <2>1. Next
    BY DEF Next, Step
  <2>2. TypeOK /\ TypeOK'
    BY <2>1, NextIInv DEF IInv
  <2> QED
    BY <2>2, TypedIsBounded, BoundedNext DEF Bounded, TypeOK
<1>6. round + Remaining <= Most + 1
  BY <1>2, <1>3, <1>5 DEF LoopInv, RoundInv
<1>7. RoundInv'
  <2> DEFINE r == Remaining
             s == Remaining'
             m == Most
  <2>1. round' = round /\ Most' = m
    BY <1>2, <1>4
  <2>2. s + 1 <= r /\ round + r <= m + 1 /\ r \in Nat /\ s \in Nat /\ m \in Nat /\ round \in Nat
    BY <1>4, <1>5, <1>6
  <2>3. round + s <= m
    <3> HIDE DEF r, s, m
    <3> QED
      BY <2>2
  <2>4. round' + Remaining' <= Most'
    BY <2>1, <2>3
  <2> QED
    BY <2>4 DEF RoundInv
<1>8. ASSUME NEW d \in agenda' PROVE ~ cls'[d].saturated
  <2>1. d \in agenda /\ d # c /\ d \in DOMAIN cls /\ ~ cls[d].saturated
    BY <1>2 DEF LoopInv, IInv, TypeOK
  <2>2. cls'[d].saturated = cls[d].saturated
    <3>1. CASE Saturate(c)
      BY <2>1, <3>1, SaturateMarks
    <3>2. CASE FetchMiss(c) \/ StaleParent(c)
      BY <2>1, <3>2, SkipMarks
    <3>3. CASE TradeUp(c)
      BY <2>1, <3>3, TradeUpTrades, TradeMarks
    <3> QED
      BY <3>1, <3>2, <3>3
  <2> QED
    BY <2>1, <2>2
<1> QED
  BY <1>2, <1>7, <1>8 DEF LoopInv

(* Every step keeps the loop within its rounds.                            *)
LEMMA NextLoop == IInv /\ LoopInv /\ [Next]_vars => LoopInv'
<1> SUFFICES ASSUME IInv, LoopInv, [Next]_vars PROVE LoopInv'
  OBVIOUS
<1>1. CASE DedupOnly \/ Dedup
  <2>1. round = 0 /\ round' = round /\ req' = req
    BY <1>1 DEF DedupOnly, Dedup, LoopInv
  <2>2. phase' = "pack" \/ (phase' = "done" /\ req.budget = None)
    BY <1>1 DEF DedupOnly, Dedup
  <2> QED
    BY <2>1, <2>2 DEF LoopInv
<1>2. CASE EndPack \/ BeginRound \/ EndRound \/ UNCHANGED vars
  BY <1>2, EdgesLoop
<1>3. ASSUME NEW c \in agenda, Step(c) PROVE LoopInv'
  <2>1. CASE Pack(c) \/ SkipUnaffordable(c)
    <3>1. round' = 0 /\ phase' = "pack"
      BY <2>1 DEF Pack, SkipUnaffordable, LoopInv
    <3> QED
      BY <3>1 DEF LoopInv
  <2> QED
    BY <1>3, <2>1, PassLoop, ParkLoop, WorkLoop DEF Step
<1> QED
  BY <1>1, <1>2, <1>3 DEF Next

(* The trade-up loop ends because every live class is saturated, or parked *)
(* at a level the budget has not risen above, and never because _trade_up  *)
(* ran out of rounds: max_rounds is never what stops it.                   *)
THEOREM LoopStopsForAReason == Spec => []StopsForAReason
<1>1. Init => LoopInv
  BY DEF Init, LoopInv
<1>2. LoopInv => StopsForAReason
  BY DEF LoopInv, StopsForAReason, Asleep
<1> QED
  BY <1>1, <1>2, Invariance, NextLoop, PTL DEF Spec

-----------------------------------------------------------------------------
(* Why an unexhausted run is a complete one.                               *)

(* A saturated class has no target; as long as nothing was skipped or      *)
(* parked for want of budget, no class was left out and none is parked.    *)
CompleteInv ==
    /\ \A c \in DOMAIN cls : cls[c].saturated => NextTargetSize(c) = None
    /\ ~ exhausted /\ phase # "dedup" =>
          /\ \A c \in DOMAIN cls : cls[c].parked = None
          /\ IF phase = "pack" THEN packed \cup agenda = DOMAIN cls ELSE packed = DOMAIN cls

(* The target of a class depends on its top, its skips and its levels.     *)
LEMMA TargetKept ==
    ASSUME NEW c, req' = req, cls'[c].top = cls[c].top, cls'[c].skip = cls[c].skip,
           cls'[c].levels = cls[c].levels
    PROVE  NextTargetSize(c)' = NextTargetSize(c)
<1> DEFINE Open(s, K) == {z \in LevelsAbove(s.size) \ K : Allowed(z) /\ ~ Degenerate(s, z)}
           Target(s, K, l) == IF l >= Cardinality(Sizes) - 1 \/ Open(s, K) = {} THEN None
                              ELSE Min(Open(s, K))
<1>1. NextTargetSize(c) = Target(cls[c].top, cls[c].skip, cls[c].levels)
  BY DEF NextTargetSize
<1>2. NextTargetSize(c)' = Target(cls'[c].top, cls'[c].skip, cls'[c].levels)
  BY DEF NextTargetSize, Allowed
<1> HIDE DEF Target
<1> QED
  BY <1>1, <1>2

(* Before the loop: packing and skipping.                                  *)
LEMMA PackComplete ==
    ASSUME IInv, CompleteInv, NEW c \in agenda, Pack(c) \/ SkipUnaffordable(c)
    PROVE  CompleteInv'
<1>1. /\ c \in DOMAIN cls /\ cls[c] \in Class /\ req' = req
      /\ phase = "pack" /\ phase' = "pack" /\ agenda' = agenda \ {c}
  BY TopCost DEF IInv, TypeOK, Pack, SkipUnaffordable
<1>2. CASE Pack(c)
  <2>1. cls' = cls /\ packed' = packed \cup {c} /\ exhausted' = exhausted
    BY <1>2 DEF Pack
  <2>2. \A d \in DOMAIN cls : NextTargetSize(d)' = NextTargetSize(d)
    BY <1>1, <2>1, TargetKept
  <2> QED
    BY <1>1, <2>1, <2>2 DEF CompleteInv
<1>3. CASE SkipUnaffordable(c)
  <2>1. exhausted' = TRUE /\ cls' = [cls EXCEPT ![c] = [cls[c] EXCEPT !.alive = FALSE]]
    BY <1>3 DEF SkipUnaffordable
  <2>2. DOMAIN cls' = DOMAIN cls
    BY <2>1
  <2>3. ASSUME NEW d \in DOMAIN cls
        PROVE  /\ cls'[d].top = cls[d].top /\ cls'[d].skip = cls[d].skip
               /\ cls'[d].levels = cls[d].levels /\ cls'[d].saturated = cls[d].saturated
    BY <1>1, <2>1 DEF Class
  <2>4. \A d \in DOMAIN cls : NextTargetSize(d)' = NextTargetSize(d)
    BY <1>1, <2>3, TargetKept
  <2> QED
    BY <2>1, <2>2, <2>3, <2>4 DEF CompleteInv
<1> QED
  BY <1>2, <1>3

(* The visits of a round: who is saturated afterwards was so before and    *)
(* kept its target, or is the class just found to have none.               *)
LEMMA VisitComplete ==
    ASSUME IInv, LoopInv, CompleteInv, NEW c \in agenda, Visit(c),
           Saturate(c) \/ FetchMiss(c) \/ StaleParent(c) \/ OverBudget(c) \/ TradeUp(c)
    PROVE  CompleteInv'
<1>1. /\ c \in DOMAIN cls /\ req' = req /\ packed' = packed /\ phase = "round" /\ phase' = "round"
  BY VisitKeeps
<1>2. ~ cls[c].saturated
  BY <1>1 DEF LoopInv
<1>3. DOMAIN cls' = DOMAIN cls
  BY SaturateMarks, SkipMarks, ParkMarks, TradeUpTrades, TradeMarks
<1>4. ASSUME NEW d \in DOMAIN cls, cls'[d].saturated PROVE NextTargetSize(d)' = None
  <2>1. CASE d # c
    <3>1. /\ cls'[d].top = cls[d].top /\ cls'[d].skip = cls[d].skip
          /\ cls'[d].levels = cls[d].levels /\ cls'[d].saturated = cls[d].saturated
      <4>1. CASE TradeUp(c)
        BY <2>1, <4>1, TradeUpTrades, TradeMarks
      <4>2. CASE ~ TradeUp(c)
        BY <2>1, <4>2, SaturateMarks, SkipMarks, ParkMarks
      <4> QED
        BY <4>1, <4>2
    <3>2. NextTargetSize(d) = None
      BY <1>4, <3>1 DEF CompleteInv
    <3> QED
      BY <1>1, <3>1, <3>2, TargetKept
  <2>2. CASE d = c
    <3>1. Saturate(c)
      BY <1>2, <1>4, <2>2, SkipMarks, ParkMarks, TradeUpTrades, TradeMarks
    <3>2. NextTargetSize(c) = None
      BY <3>1 DEF Saturate
    <3> QED
      BY <1>1, <2>2, <3>1, <3>2, SaturateMarks, TargetKept
  <2> QED
    BY <2>1, <2>2
<1>5. ASSUME ~ exhausted', NEW d \in DOMAIN cls PROVE cls'[d].parked = None
  <2>1. ~ exhausted /\ ~ OverBudget(c)
    BY <1>5 DEF Saturate, FetchMiss, StaleParent, OverBudget, TradeUp
  <2>2. cls[d].parked = None
    BY <1>1, <2>1 DEF CompleteInv
  <2>3. CASE TradeUp(c)
    BY <2>2, <2>3, TradeUpTrades, TradeMarks
  <2>4. CASE Saturate(c) \/ FetchMiss(c) \/ StaleParent(c)
    BY <2>2, <2>4, SaturateMarks, SkipMarks
  <2> QED
    BY <2>1, <2>3, <2>4
<1>6. ~ exhausted' => packed' = DOMAIN cls'
  <2>1. ~ exhausted' => ~ exhausted
    BY DEF Saturate, FetchMiss, StaleParent, OverBudget, TradeUp
  <2> QED
    BY <1>1, <1>3, <2>1 DEF CompleteInv
<1> QED
  BY <1>1, <1>3, <1>4, <1>5, <1>6 DEF CompleteInv

(* Every step keeps it.                                                    *)
LEMMA NextComplete == IInv /\ LoopInv /\ CompleteInv /\ [Next]_vars => CompleteInv'
<1> SUFFICES ASSUME IInv, LoopInv, CompleteInv, [Next]_vars PROVE CompleteInv'
  OBVIOUS
<1>1. CASE DedupOnly \/ Dedup
  <2>1. \A c \in DOMAIN cls' : cls'[c] = NewClass(c)
    BY <1>1, DedupFacts
  <2>2. \A c : NewClass(c).saturated = FALSE /\ NewClass(c).parked = None
    BY DEF NewClass
  <2>3. IF phase' = "pack" THEN packed' \cup agenda' = DOMAIN cls' ELSE packed' = DOMAIN cls'
    <3>1. CASE DedupOnly
      BY <3>1 DEF DedupOnly
    <3>2. CASE Dedup
      <4>1. packed = {} /\ phase' = "pack" /\ packed' = packed /\ agenda' = DOMAIN cls'
        BY <3>2 DEF Dedup, IInv, PhaseInv
      <4> QED
        BY <4>1
    <3> QED
      BY <1>1, <3>1, <3>2
  <2> QED
    BY <2>1, <2>2, <2>3 DEF CompleteInv
<1>2. CASE EndPack \/ BeginRound \/ EndRound \/ UNCHANGED vars \/ \E c \in agenda : PassOver(c)
  <2>1. req' = req /\ cls' = cls /\ packed' = packed /\ exhausted' = exhausted
    BY <1>2 DEF EndPack, BeginRound, EndRound, PassOver, vars
  <2>2. \/ phase' = phase /\ (phase = "pack" => agenda' = agenda)
        \/ phase = "pack" /\ agenda = {} /\ phase' \notin {"dedup", "pack"}
        \/ phase \notin {"dedup", "pack"} /\ phase' \notin {"dedup", "pack"}
    BY <1>2 DEF EndPack, BeginRound, EndRound, PassOver, vars
  <2>3. \A d \in DOMAIN cls : NextTargetSize(d)' = NextTargetSize(d)
    BY <2>1, TargetKept
  <2> QED
    BY <2>1, <2>2, <2>3 DEF CompleteInv
<1>3. ASSUME NEW c \in agenda, Step(c) PROVE CompleteInv'
  <2>1. CASE Pack(c) \/ SkipUnaffordable(c)
    BY <2>1, PackComplete
  <2>2. CASE PassOver(c)
    BY <1>2, <2>2
  <2>3. CASE Saturate(c) \/ FetchMiss(c) \/ StaleParent(c) \/ OverBudget(c) \/ TradeUp(c)
    <3>1. Visit(c)
      BY <2>3 DEF Saturate, FetchMiss, StaleParent, OverBudget, TradeUp
    <3> QED
      BY <2>3, <3>1, VisitComplete
  <2> QED
    BY <1>3, <2>1, <2>2, <2>3 DEF Step
<1> QED
  BY <1>1, <1>2, <1>3 DEF Next

(* budget_exhausted is honest: a run that does not report it packed every  *)
(* leaf, and no live class has a slice left to trade up to.                *)
THEOREM UnexhaustedIsComplete == Spec => []UnexhaustedMeansComplete
<1>1. Init => LoopInv /\ CompleteInv
  BY DEF Init, LoopInv, CompleteInv
<1>2. IInv /\ LoopInv /\ CompleteInv => UnexhaustedMeansComplete
  <2> SUFFICES ASSUME IInv, LoopInv, CompleteInv, phase = "done", req.budget # None,
                      req.expansion # "off", ~ exhausted
               PROVE  packed = DOMAIN cls /\ \A c \in Live : Offers(c) = {}
    BY DEF UnexhaustedMeansComplete
  <2>1. packed = DOMAIN cls /\ \A c \in DOMAIN cls : cls[c].parked = None
    BY DEF CompleteInv
  <2>2. ASSUME NEW c \in Live PROVE Offers(c) = {}
    <3>1. c \in DOMAIN cls /\ Awake(c) /\ Asleep(c)
      BY <2>1 DEF Live, Awake, LoopInv
    <3>2. NextTargetSize(c) = None
      BY <3>1 DEF Asleep, CompleteInv
    <3> QED
      BY <3>2 DEF Offers
  <2> QED
    BY <2>1, <2>2
<1> QED
  BY <1>1, <1>2, Invariance, NextLoop, NextComplete, PTL DEF Spec

-----------------------------------------------------------------------------
(* The order of the output.                                                *)

(* The live classes of a document.                                         *)
OfDoc(doc) == {d \in Live : cls[d].top.doc = doc}

(* The best rank among a document's live classes is the best of all the    *)
(* evidence behind them.                                                   *)
LEMMA BestRankIs ==
    ASSUME IInv, RankInv, NEW doc, OfDoc(doc) # {}
    PROVE  /\ BestRank(doc) \in Nat
           /\ BestRank(doc) = Min(UNION {cls[c].evidence : c \in OfDoc(doc)})
<1>1. ASSUME NEW c \in OfDoc(doc)
      PROVE  /\ cls[c].evidence \subseteq Nat /\ cls[c].rank \in cls[c].evidence
             /\ \A e \in cls[c].evidence : cls[c].rank <= e
  <2>1. c \in DOMAIN cls
    BY DEF OfDoc, Live, IInv, TypeOK
  <2>2. cls[c].evidence \subseteq Nat /\ cls[c].evidence # {} /\ cls[c].rank = Min(cls[c].evidence)
    BY <2>1, TopCost DEF RankInv, IInv, Class, Ids
  <2>3. PICK ev : ev = cls[c].evidence
    OBVIOUS
  <2>4. Min(ev) \in ev /\ \A y \in ev : Min(ev) <= y
    BY <2>2, <2>3, MinIsLeast
  <2> QED
    BY <2>2, <2>3, <2>4
<1>2. PICK R : R = {cls[c].rank : c \in OfDoc(doc)}
  OBVIOUS
<1>3. PICK E : E = UNION {cls[c].evidence : c \in OfDoc(doc)}
  OBVIOUS
<1>4. R \subseteq Nat /\ R # {} /\ R \subseteq E /\ E \subseteq Nat
  <2>1. \A c \in OfDoc(doc) : cls[c].rank \in Nat /\ cls[c].rank \in E
    BY <1>1, <1>3
  <2>2. \A e \in E : e \in Nat
    BY <1>1, <1>3
  <2> QED
    BY <1>2, <2>1, <2>2
<1>5. Min(R) \in R /\ \A y \in R : Min(R) <= y
  BY <1>4, MinIsLeast
<1>6. ASSUME NEW x \in E PROVE Min(R) <= x
  <2>1. PICK c \in OfDoc(doc) : x \in cls[c].evidence
    BY <1>3
  <2>2. cls[c].rank <= x /\ cls[c].rank \in R
    BY <1>1, <1>2, <2>1
  <2>3. Min(R) <= cls[c].rank /\ cls[c].rank \in Nat /\ Min(R) \in Nat /\ x \in Nat
    BY <1>4, <1>5, <2>2
  <2> QED
    BY <2>2, <2>3
<1>7. Min(E) = Min(R)
  BY <1>4, <1>5, <1>6, MinIs
<1>8. BestRank(doc) = Min(R)
  BY <1>2 DEF BestRank, OfDoc
<1> QED
  BY <1>3, <1>4, <1>5, <1>7, <1>8

(* Where two classes are shown: never in the same place.                   *)
LEMMA ShownApart ==
    ASSUME IInv, CoverInv, RankInv, OneGeneration, NEW c \in Live, NEW d \in Live, c # d,
           cls[c].top.doc = cls[d].top.doc
    PROVE  \/ cls[c].top.off < cls[d].top.off /\ EndOf(cls[c].top) <= cls[d].top.off
           \/ cls[d].top.off < cls[c].top.off /\ EndOf(cls[d].top) <= cls[c].top.off
<1>1. IsCut(cls[c].top) /\ IsCut(cls[d].top)
  BY TopsAreSlices DEF IInv, TypeOK, Live
<1>2. ~ Overlap(cls[c].top, cls[d].top)
  BY DEF CoverInv
<1>3. /\ cls[c].top.off \in Nat /\ EndOf(cls[c].top) \in Nat
      /\ cls[c].top.off < EndOf(cls[c].top)
      /\ cls[d].top.off \in Nat /\ EndOf(cls[d].top) \in Nat
      /\ cls[d].top.off < EndOf(cls[d].top)
  BY <1>1, CutSpan
<1> QED
  BY <1>2, <1>3 DEF Overlap

(* What the order compares.                                                *)
LEMMA ShownKeys ==
    ASSUME IInv, RankInv, NEW c \in Live
    PROVE  /\ BestRank(cls[c].top.doc) \in Nat /\ cls[c].top.doc \in Nat /\ cls[c].top.off \in Nat
<1>1. c \in OfDoc(cls[c].top.doc)
  BY DEF OfDoc
<1>2. BestRank(cls[c].top.doc) \in Nat
  BY <1>1, BestRankIs
<1>3. IsCut(cls[c].top) /\ c \in DOMAIN cls
  BY TopsAreSlices DEF IInv, TypeOK, Live
<1>4. IsSlice(cls[c].top)
  <2>1. cls[c].top \in Hits \cup req.source /\ IsRequest(req)
    BY <1>3, TopCost DEF IInv, TypeOK
  <2> QED
    BY <2>1, HitsAreNumbered DEF Hits, IsRequest
<1> QED
  BY <1>2, <1>3, <1>4, CutSpan DEF IsSlice, IsCut

(* Classes that are shown are all ordered, ...                             *)
LEMMA ShownRanks ==
    ASSUME IInv, CoverInv, RankInv, OneGeneration,
           NEW R, R = {p \in Live \X Live : ShownBefore(p[1], p[2])}
    PROVE  Ranks(R, Live) /\ \A c, d \in Live : <<c, d>> \in R <=> ShownBefore(c, d)
<1>1. ASSUME NEW c \in Live, NEW d \in Live PROVE <<c, d>> \in R <=> ShownBefore(c, d)
  OBVIOUS
<1>2. ASSUME NEW c \in Live, NEW d \in Live, c # d PROVE ShownBefore(c, d) \/ ShownBefore(d, c)
  <2>1. CASE cls[c].top.doc = cls[d].top.doc
    BY <1>2, <2>1, ShownApart DEF ShownBefore
  <2>2. CASE cls[c].top.doc # cls[d].top.doc
    <3>1. /\ BestRank(cls[c].top.doc) \in Nat /\ cls[c].top.doc \in Nat
          /\ BestRank(cls[d].top.doc) \in Nat /\ cls[d].top.doc \in Nat
      BY ShownKeys
    <3> QED
      BY <2>2, <3>1 DEF ShownBefore
  <2> QED
    BY <2>1, <2>2
<1>3. ASSUME NEW c \in Live, NEW d \in Live, NEW e \in Live, ShownBefore(c, d), ShownBefore(d, e)
      PROVE  ShownBefore(c, e)
  <2>1. PICK b1, d1, o1 : b1 = BestRank(cls[c].top.doc) /\ d1 = cls[c].top.doc /\ o1 = cls[c].top.off
    OBVIOUS
  <2>2. PICK b2, d2, o2 : b2 = BestRank(cls[d].top.doc) /\ d2 = cls[d].top.doc /\ o2 = cls[d].top.off
    OBVIOUS
  <2>3. PICK b3, d3, o3 : b3 = BestRank(cls[e].top.doc) /\ d3 = cls[e].top.doc /\ o3 = cls[e].top.off
    OBVIOUS
  <2>4. /\ b1 \in Nat /\ d1 \in Nat /\ o1 \in Nat /\ b2 \in Nat /\ d2 \in Nat /\ o2 \in Nat
        /\ b3 \in Nat /\ d3 \in Nat /\ o3 \in Nat
    BY <2>1, <2>2, <2>3, ShownKeys
  <2>5. /\ d1 = d2 => b1 = b2
        /\ d2 = d3 => b2 = b3
        /\ d1 = d3 => b1 = b3
    BY <2>1, <2>2, <2>3
  <2>6. b1 < b2 \/ (b1 = b2 /\ d1 < d2) \/ (d1 = d2 /\ o1 < o2)
    BY <1>3, <2>1, <2>2 DEF ShownBefore
  <2>7. b2 < b3 \/ (b2 = b3 /\ d2 < d3) \/ (d2 = d3 /\ o2 < o3)
    BY <1>3, <2>2, <2>3 DEF ShownBefore
  <2>8. b1 < b3 \/ (b1 = b3 /\ d1 < d3) \/ (d1 = d3 /\ o1 < o3)
    BY <2>4, <2>5, <2>6, <2>7
  <2> QED
    BY <2>1, <2>3, <2>8 DEF ShownBefore
<1> QED
  BY <1>1, <1>2, <1>3 DEF Ranks

(* ... and are shown in that order.                                        *)
LEMMA ShownIs ==
    ASSUME IInv, CoverInv, RankInv, OneGeneration
    PROVE  \E n \in Nat : /\ Shown \in [1 .. n -> Live]
                          /\ \A i, j \in 1 .. n : i < j => ShownBefore(Shown[i], Shown[j])
<1>1. PICK R : R = {p \in Live \X Live : ShownBefore(p[1], p[2])}
  OBVIOUS
<1>2. Ranks(R, Live) /\ \A c, d \in Live : <<c, d>> \in R <=> ShownBefore(c, d)
  BY <1>1, ShownRanks
<1>3. IsFiniteSet(Live)
  <2>1. Live \in SUBSET Ids
    BY DEF Live, IInv, TypeOK
  <2>2. IsFiniteSet(Ids)
    <3>1. Len(req.hits) \in Nat
      BY HitsAreNumbered DEF IInv, TypeOK
    <3> QED
      BY <3>1, FS_Interval DEF Ids
  <2> QED
    BY <2>1, <2>2, FS_Subset
<1>4. PICK n \in Nat : n = Cardinality(Live)
  BY <1>3, FS_CardinalityType
<1>5. PICK g \in [1 .. n -> Live] : Lines(g, R, n)
  BY <1>2, <1>3, <1>4, SortExists
<1>6. g \in [1 .. n -> Live] /\ \A i, j \in DOMAIN g : i < j => ShownBefore(g[i], g[j])
  <2>1. \A i, j \in 1 .. n : i < j => ShownBefore(g[i], g[j])
    BY <1>2, <1>5 DEF Lines
  <2> QED
    BY <1>5, <2>1
<1>7. Shown = CHOOSE f \in [1 .. n -> Live] : \A i, j \in DOMAIN f : i < j => ShownBefore(f[i], f[j])
  BY <1>4, Zenon DEF Shown, SortedBy
<1>8. /\ Shown \in [1 .. n -> Live]
      /\ \A i, j \in DOMAIN Shown : i < j => ShownBefore(Shown[i], Shown[j])
  BY <1>6, <1>7, Zenon
<1>9. DOMAIN Shown = 1 .. n
  BY <1>8
<1> QED
  BY <1>8, <1>9

(* So a selection reads like its documents: each in one piece, in reading  *)
(* order and without repetition, the document of the best hit shown first; *)
(* and two neighbours are marked contiguous exactly when the text between  *)
(* them is empty.                                                          *)
THEOREM SelectionsReadInOrder == Spec => []ReadsInOrder
<1>1. ASSUME IInv, CoverInv, RankInv, OneGeneration, NEW f, f = Shown,
             NEW i \in DOMAIN f, NEW j \in DOMAIN f, i < j
      PROVE  /\ cls[f[i]].top.doc = cls[f[j]].top.doc => EndOf(cls[f[i]].top) <= cls[f[j]].top.off
             /\ cls[f[i]].top.doc = cls[f[j]].top.doc =>
                   \A k \in i .. j : cls[f[k]].top.doc = cls[f[i]].top.doc
             /\ cls[f[i]].top.doc # cls[f[j]].top.doc =>
                   BestRank(cls[f[i]].top.doc) <= BestRank(cls[f[j]].top.doc)
             /\ j = i + 1 => ContiguousWithNext(f, i) =
                   (cls[f[i]].top.doc = cls[f[j]].top.doc /\ EndOf(cls[f[i]].top) = cls[f[j]].top.off)
  <2>1. PICK n \in Nat : f \in [1 .. n -> Live]
                         /\ \A a, b \in 1 .. n : a < b => ShownBefore(f[a], f[b])
    BY <1>1, ShownIs
  <2>2. i \in 1 .. n /\ j \in 1 .. n /\ Len(f) = n
    BY <1>1, <2>1
  <2>3. f[i] \in Live /\ f[j] \in Live /\ ShownBefore(f[i], f[j])
    BY <1>1, <2>1, <2>2
  <2>4. PICK b1, d1, o1 : b1 = BestRank(cls[f[i]].top.doc) /\ d1 = cls[f[i]].top.doc
                          /\ o1 = cls[f[i]].top.off
    OBVIOUS
  <2>5. PICK b2, d2, o2 : b2 = BestRank(cls[f[j]].top.doc) /\ d2 = cls[f[j]].top.doc
                          /\ o2 = cls[f[j]].top.off
    OBVIOUS
  <2>6. /\ b1 \in Nat /\ d1 \in Nat /\ o1 \in Nat /\ b2 \in Nat /\ d2 \in Nat /\ o2 \in Nat
        /\ d1 = d2 => b1 = b2
    BY <1>1, <2>3, <2>4, <2>5, ShownKeys
  <2>7. b1 < b2 \/ (b1 = b2 /\ d1 < d2) \/ (d1 = d2 /\ o1 < o2)
    BY <2>3, <2>4, <2>5 DEF ShownBefore
  <2>8. d1 = d2 => EndOf(cls[f[i]].top) <= o2
    <3>1. d1 = d2 => f[i] # f[j] /\ ~ (o2 < o1)
      BY <2>4, <2>5, <2>6, <2>7
    <3> QED
      BY <1>1, <2>3, <2>4, <2>5, <3>1, ShownApart
  <2>9. ASSUME d1 = d2, NEW k \in i .. j PROVE cls[f[k]].top.doc = d1
    <3>1. CASE k = i \/ k = j
      BY <2>4, <2>5, <2>9, <3>1
    <3>2. CASE k # i /\ k # j
      <4>1. k \in 1 .. n /\ i < k /\ k < j
        BY <2>2, <3>2
      <4>2. f[k] \in Live /\ ShownBefore(f[i], f[k]) /\ ShownBefore(f[k], f[j])
        BY <2>1, <2>2, <4>1
      <4>3. PICK b3, d3, o3 : b3 = BestRank(cls[f[k]].top.doc) /\ d3 = cls[f[k]].top.doc
                              /\ o3 = cls[f[k]].top.off
        OBVIOUS
      <4>4. b3 \in Nat /\ d3 \in Nat /\ o3 \in Nat
        BY <1>1, <4>2, <4>3, ShownKeys
      <4>5. b1 < b3 \/ (b1 = b3 /\ d1 < d3) \/ (d1 = d3 /\ o1 < o3)
        BY <2>4, <4>2, <4>3 DEF ShownBefore
      <4>6. b3 < b2 \/ (b3 = b2 /\ d3 < d2) \/ (d3 = d2 /\ o3 < o2)
        BY <2>5, <4>2, <4>3 DEF ShownBefore
      <4>7. d3 = d1 => b3 = b1
        BY <2>4, <4>3
      <4> QED
        BY <2>6, <2>9, <4>3, <4>4, <4>5, <4>6, <4>7
    <3> QED
      BY <3>1, <3>2
  <2>10. d1 # d2 => b1 <= b2
    BY <2>6, <2>7
  <2>11. j = i + 1 => (ContiguousWithNext(f, i) <=>
              (d1 = d2 /\ EndOf(cls[f[i]].top) = o2))
    <3>1. i < Len(f)
      BY <1>1, <2>2
    <3> QED
      BY <2>4, <2>5, <3>1 DEF ContiguousWithNext
  <2>12. j = i + 1 => ContiguousWithNext(f, i) =
              (cls[f[i]].top.doc = cls[f[j]].top.doc /\ EndOf(cls[f[i]].top) = cls[f[j]].top.off)
    <3>1. ContiguousWithNext(f, i) \in BOOLEAN
      BY Zenon DEF ContiguousWithNext
    <3> QED
      BY <2>4, <2>5, <2>11, <3>1, Zenon
  <2> QED
    BY <2>4, <2>5, <2>8, <2>9, <2>10, <2>12, Zenon
<1>2. ASSUME IInv, RankInv, CoverInv, OneGeneration, NEW f, f = Shown, NEW i \in DOMAIN f
      PROVE  BestRank(cls[f[i]].top.doc) =
                Min(UNION {cls[c].evidence : c \in {d \in Live : cls[d].top.doc = cls[f[i]].top.doc}})
  <2>1. f[i] \in Live
    <3>1. PICK n \in Nat : f \in [1 .. n -> Live]
      BY <1>2, ShownIs
    <3> QED
      BY <1>2, <3>1
  <2>2. f[i] \in OfDoc(cls[f[i]].top.doc)
    BY <2>1 DEF OfDoc
  <2> QED
    BY <1>2, <2>2, BestRankIs DEF OfDoc
<1>3. Init => RankInv
  BY DEF Init, RankInv
<1>4. IInv /\ CoverInv /\ RankInv => ReadsInOrder
  BY <1>1, <1>2 DEF ReadsInOrder
<1> QED
  BY <1>3, <1>4, Coverage, NextRanks, PTL DEF Spec
=============================================================================
