------------------------------ MODULE Selection ------------------------------
(***************************************************************************)
(* GreedyUpwardStrategy.select (selection.py): dedup the retrieved slices  *)
(* to the leaves of the containment forest, pack the leaves that fit the   *)
(* token budget, then trade packed slices up to enclosing ones, one level  *)
(* per class per round, while the budget allows.                           *)
(*                                                                         *)
(* The strategy is one synchronous call.  Its loops are unrolled into      *)
(* steps, one per class visited, so that what holds between two visits can *)
(* be stated; nothing else runs in between.  The request is immutable and  *)
(* already prefetched, so it is chosen once, in the initial state.         *)
(***************************************************************************)
EXTENDS Forest, Sums, FiniteSetsExt

CONSTANT Requests   \* the SelectionRequests the strategy may be handed

(* A slice as the strategy receives it: cut by the slicer, from one text   *)
(* or another, and counted.                                                *)
IsSlice(s) ==
    /\ s # None
    /\ IsCut(s)
    /\ s.doc \in Nat          \* its place among document ids
    /\ s.tokens \in Nat

(* hits     the candidates in fused order: a hit's position is its rank    *)
(* source   what the prefetch found of the ancestors of the hits           *)
(* The service's searches return each ref at most once, and so does the    *)
(* prefetch.                                                               *)
IsRequest(r) ==
    /\ r.hits \in Seq({r.hits[i] : i \in DOMAIN r.hits})
    /\ \A i \in DOMAIN r.hits : IsSlice(r.hits[i])
    /\ \A i, j \in DOMAIN r.hits : Ref(r.hits[i]) = Ref(r.hits[j]) => i = j
    /\ \A s \in r.source : IsSlice(s)
    /\ \A s, t \in r.source : Ref(s) = Ref(t) => s = t
    /\ r.budget \in Nat \cup {None}
    /\ r.expansion \in {"fill", "retrieved_only", "off"}
    /\ r.maxSize \in Nat \cup {None}
    /\ r.overhead \in Nat

ASSUME RequestsAssumption ==
    /\ None \notin Int
    /\ \A r \in Requests : IsRequest(r)

VARIABLES
    req,        \* the request
    phase,      \* where select is: dedup, pack, between rounds, round, done
    cls,        \* the dedup classes (_Class), by the rank of their leaf
    packed,     \* the classes the initial pack selected
    agenda,     \* the classes the running loop has still to visit
    order,      \* the ranks by which that loop was sorted when it started
    left,       \* budget_left
    round,      \* round_no
    progressed, \* whether this round changed anything
    trades,     \* the trade-up entries of the trace
    exhausted   \* the trace's budget_exhausted

vars == <<req, phase, cls, packed, agenda, order, left, round, progressed, trades, exhausted>>

-----------------------------------------------------------------------------
Ids == 1 .. Len(req.hits)

Hits == {req.hits[i] : i \in Ids}

Cost(s) == s.tokens + req.overhead

(* The hits with that ref, by rank.  Mutant: ranks counted from zero.      *)
EvidenceForZeroBased(ref) == {i \in 0 .. (Len(req.hits) - 1) : Ref(req.hits[i + 1]) = ref}

EvidenceFor(ref) == {i \in Ids : Ref(req.hits[i]) = ref}

(* The rank a class starts with: the best of its evidence.  Mutant: the    *)
(* rank of the leaf i alone.                                               *)
LeafRank(i, evidence) == i

EffectiveRank(i, evidence) == Min(evidence)

(* The class of the forest leaf of rank i.                                 *)
NewClass(i) ==
    LET evidence == {j \in Ids : req.hits[j] \in
                        {req.hits[i]} \cup RetrievedAncestors(Hits, req.hits[i])}
    IN  [top |-> req.hits[i], rank |-> EffectiveRank(i, evidence), evidence |-> evidence,
         alive |-> TRUE, levels |-> 0, replaced |-> {}, saturated |-> FALSE,
         skip |-> {}, parked |-> None]

(* The order of _Class.priority under the ranks r.                         *)
Before(r, c, d) ==
    LET l == req.hits[c]
        m == req.hits[d]
    IN  \/ r[c] < r[d]
        \/ r[c] = r[d] /\ l.doc < m.doc
        \/ r[c] = r[d] /\ l.doc = m.doc /\ l.off < m.off
        \/ r[c] = r[d] /\ l.doc = m.doc /\ l.off = m.off /\ l.size < m.size

Turn(c) == c \in agenda /\ \A d \in agenda \ {c} : ~ Before(order, d, c)

Live == {c \in packed : cls[c].alive}

(* The cost of the tops of the classes in S, and their sum.                *)
CostIn(S) == [i \in Ids |-> IF i \in S THEN Cost(cls[i].top) ELSE 0]

Spent(S) == SumTo(CostIn(S), Len(req.hits))

-----------------------------------------------------------------------------
(* Dedup: one class per leaf.                                              *)
Classes == [i \in {i \in Ids : req.hits[i] \in Leaves(Hits)} |-> NewClass(i)]

Init ==
    /\ req \in Requests
    /\ phase = "dedup"
    /\ cls = << >>
    /\ packed = {} /\ agenda = {} /\ order = << >>
    /\ left = 0 /\ round = 0 /\ progressed = FALSE
    /\ trades = << >> /\ exhausted = FALSE

(* budget=None: every class is returned.                                   *)
DedupOnly ==
    /\ phase = "dedup" /\ req.budget = None
    /\ cls' = Classes
    /\ packed' = DOMAIN Classes
    /\ phase' = "done"
    /\ UNCHANGED <<req, agenda, order, left, round, progressed, trades, exhausted>>

Dedup ==
    /\ phase = "dedup" /\ req.budget # None
    /\ cls' = Classes
    /\ agenda' = DOMAIN Classes
    /\ order' = [i \in DOMAIN Classes |-> Classes[i].rank]
    /\ left' = req.budget
    /\ phase' = "pack"
    /\ UNCHANGED <<req, packed, round, progressed, trades, exhausted>>

-----------------------------------------------------------------------------
(* Initial pack: first fit in priority order.                              *)
Pack(c) ==
    /\ phase = "pack" /\ Turn(c)
    /\ Cost(cls[c].top) <= left
    /\ packed' = packed \cup {c}
    /\ left' = left - Cost(cls[c].top)
    /\ agenda' = agenda \ {c}
    /\ UNCHANGED <<req, phase, cls, order, round, progressed, trades, exhausted>>

SkipUnaffordable(c) ==
    /\ phase = "pack" /\ Turn(c)
    /\ Cost(cls[c].top) > left
    /\ cls' = [cls EXCEPT ![c].alive = FALSE]
    /\ exhausted' = TRUE
    /\ agenda' = agenda \ {c}
    /\ UNCHANGED <<req, phase, packed, order, left, round, progressed, trades>>

EndPack ==
    /\ phase = "pack" /\ agenda = {}
    /\ phase' = IF req.expansion # "off" /\ packed # {} THEN "between" ELSE "done"
    /\ UNCHANGED <<req, cls, packed, agenda, order, left, round, progressed, trades, exhausted>>

-----------------------------------------------------------------------------
(* Trade-up.                                                               *)

(* Retrieved slices are always resolvable, and shadow the prefetched ones. *)
(* Mutant: a retrieved_only run reaches for the prefetched slices.         *)
ResolveAnywhere(ref) ==
    LET found == {s \in Hits \cup req.source : Ref(s) = ref}
    IN  IF found = {} THEN None ELSE CHOOSE s \in found : TRUE

Resolve(ref) ==
    LET retrieved == {h \in Hits : Ref(h) = ref}
        fetched == {s \in req.source : Ref(s) = ref}
    IN  IF retrieved # {} THEN CHOOSE h \in retrieved : TRUE
        ELSE IF req.expansion # "retrieved_only" /\ fetched # {}
             THEN CHOOSE s \in fetched : TRUE
             ELSE None

ParentRef(s, size) == [doc |-> s.doc, size |-> size, off |-> ParentOffset(s.off, size)]

(* A level that shows no more of the document than the slice s does.       *)
(* Mutant: only a level ending at or before the slice counts.              *)
DegenerateIfShorter(s, size) ==
    LET off == ParentOffset(s.off, size)
    IN  /\ off = s.off
        /\ ClippedEnd(off, size, s.doclen) - off < Len(s.text)

Degenerate(s, size) ==
    LET off == ParentOffset(s.off, size)
    IN  /\ off = s.off
        /\ ClippedEnd(off, size, s.doclen) - off <= Len(s.text)

Allowed(size) == req.maxSize = None \/ size <= req.maxSize

(* next_target_size                                                        *)
NextTargetSize(c) ==
    LET s == cls[c].top
        open == {z \in LevelsAbove(s.size) \ cls[c].skip : Allowed(z) /\ ~ Degenerate(s, z)}
    IN  IF cls[c].levels >= Cardinality(Sizes) - 1 \/ open = {} THEN None ELSE Min(open)

(* The slice class c would trade up to at that size.                       *)
Parent(c, size) == Resolve(ParentRef(cls[c].top, size))

(* The other live classes a parent absorbs.  Mutants: enclosure decided by *)
(* marker alone; by position alone; only what sits on the parent, or only  *)
(* what it encloses, is absorbed.                                          *)
SubsumedByMarker(c, p) ==
    {o \in Live \ {c} : Ref(cls[o].top) = Ref(p) \/ Vouches(p, cls[o].top)}

SubsumedInPlace(c, p) ==
    {o \in Live \ {c} : Ref(cls[o].top) = Ref(p) \/ PositionallyNests(p, cls[o].top)}

SubsumedOnTop(c, p) == {o \in Live \ {c} : Ref(cls[o].top) = Ref(p)}

SubsumedStrictly(c, p) == {o \in Live \ {c} : Contains(p, cls[o].top)}

Subsumed(c, p) ==
    {o \in Live \ {c} : Ref(cls[o].top) = Ref(p) \/ Contains(p, cls[o].top)}

(* Mutant: the cost of what the parent absorbs is not netted.              *)
DeltaUnnetted(c, p) == Cost(p) - Cost(cls[c].top)

Delta(c, p) == Cost(p) - Cost(cls[c].top) - Spent(Subsumed(c, p))

(* Mutant: one round for each class.                                       *)
MaxRoundsPerClass == Cardinality(packed)

MaxRounds == Cardinality(packed) * Cardinality(Sizes) + 2

BeginRound ==
    /\ phase = "between" /\ round < MaxRounds
    /\ round' = round + 1
    /\ progressed' = FALSE
    /\ agenda' = {c \in Live : ~ cls[c].saturated}
    /\ order' = [c \in DOMAIN cls |-> cls[c].rank]
    /\ phase' = "round"
    /\ UNCHANGED <<req, cls, packed, left, trades, exhausted>>

(* A parked class is looked at again only when the budget has grown past   *)
(* the level it was parked at.                                             *)
Awake(c) == cls[c].parked # None => left > cls[c].parked

PassOver(c) ==
    /\ phase = "round" /\ Turn(c)
    /\ ~ cls[c].alive \/ ~ Awake(c)
    /\ agenda' = agenda \ {c}
    /\ UNCHANGED <<req, phase, cls, packed, order, left, round, progressed, trades, exhausted>>

Visit(c) ==
    /\ phase = "round" /\ Turn(c)
    /\ cls[c].alive /\ Awake(c)
    /\ agenda' = agenda \ {c}
    /\ progressed' = TRUE
    /\ UNCHANGED <<req, phase, packed, order, round>>

Saturate(c) ==
    /\ Visit(c)
    /\ NextTargetSize(c) = None
    /\ cls' = [cls EXCEPT ![c].saturated = TRUE, ![c].parked = None]
    /\ UNCHANGED <<left, trades, exhausted>>

(* fetch_miss: the source cannot supply the parent.                        *)
FetchMiss(c) ==
    /\ Visit(c)
    /\ \E size \in {NextTargetSize(c)} \ {None} :
          /\ Parent(c, size) = None
          /\ cls' = [cls EXCEPT ![c].skip = @ \cup {size}, ![c].parked = None]
    /\ UNCHANGED <<left, trades, exhausted>>

(* stale_parent: the parent does not list the top's marker.                *)
StaleParent(c) ==
    /\ Visit(c)
    /\ \E size \in {NextTargetSize(c)} \ {None} :
          /\ \E p \in {Parent(c, size)} \ {None} : ~ Vouches(p, cls[c].top)
          /\ cls' = [cls EXCEPT ![c].skip = @ \cup {size}, ![c].parked = None]
    /\ UNCHANGED <<left, trades, exhausted>>

(* What c may trade up to, budget aside: at most one slice.                *)
Offers(c) ==
    {p \in {Parent(c, size) : size \in {NextTargetSize(c)} \ {None}} \ {None} :
        Vouches(p, cls[c].top)}

OverBudget(c) ==
    /\ Visit(c)
    /\ \E p \in Offers(c) : Delta(c, p) > left
    /\ cls' = [cls EXCEPT ![c].parked = left]
    /\ exhausted' = TRUE
    /\ UNCHANGED <<left, trades>>

(* What class c becomes when it trades up to p.  Mutant: the evidence of   *)
(* the absorbed classes is dropped with them.                              *)
MergedEvidenceOwn(c, p) == cls[c].evidence \cup EvidenceFor(Ref(p))

MergedEvidence(c, p) ==
    EvidenceFor(Ref(p)) \cup UNION {cls[o].evidence : o \in {c} \cup Subsumed(c, p)}

MergedRank(c, p) ==
    Min({cls[o].rank : o \in {c} \cup Subsumed(c, p)} \cup EvidenceFor(Ref(p)))

Grown(c, p) ==
    LET gone == {c} \cup Subsumed(c, p)
    IN  [cls[c] EXCEPT !.top = p, !.levels = @ + 1, !.parked = None,
                       !.evidence = MergedEvidence(c, p),
                       !.rank = MergedRank(c, p),
                       !.replaced = @ \cup {Ref(cls[o].top) : o \in gone}
                                      \cup UNION {cls[o].replaced : o \in gone}]

TradeUp(c) ==
    /\ Visit(c)
    /\ \E p \in Offers(c) :
          /\ Delta(c, p) <= left
          /\ left' = left - Delta(c, p)
          /\ cls' = [d \in DOMAIN cls |->
                        IF d = c THEN Grown(c, p)
                        ELSE IF d \in Subsumed(c, p) THEN [cls[d] EXCEPT !.alive = FALSE]
                        ELSE cls[d]]
          /\ trades' = Append(trades, [from |-> Ref(cls[c].top), to |-> Ref(p),
                             absorbed |-> {Ref(cls[o].top) : o \in Subsumed(c, p)}])
    /\ UNCHANGED exhausted

AllSettled == \A c \in packed : cls[c].saturated \/ ~ cls[c].alive

LoopEnds == ~ progressed \/ AllSettled \/ round >= MaxRounds

EndRound ==
    /\ phase = "round" /\ agenda = {}
    /\ phase' = IF LoopEnds THEN "done" ELSE "between"
    /\ UNCHANGED <<req, cls, packed, agenda, order, left, round, progressed, trades, exhausted>>

-----------------------------------------------------------------------------
Step(c) ==
    \/ Pack(c) \/ SkipUnaffordable(c)
    \/ PassOver(c) \/ Saturate(c) \/ FetchMiss(c) \/ StaleParent(c)
    \/ OverBudget(c) \/ TradeUp(c)

Next ==
    \/ DedupOnly \/ Dedup \/ EndPack \/ BeginRound \/ EndRound
    \/ \E c \in agenda : Step(c)

Spec == Init /\ [][Next]_vars

-----------------------------------------------------------------------------
(* What the fields of a class may hold.                                    *)
Class ==
    [top : Hits \cup req.source, rank : Ids, evidence : SUBSET Ids,
     alive : BOOLEAN, levels : Nat, replaced : SUBSET {Ref(s) : s \in Hits \cup req.source},
     saturated : BOOLEAN, skip : SUBSET Sizes, parked : Nat \cup {None}]

TypeOK ==
    /\ IsRequest(req)
    /\ phase \in {"dedup", "pack", "between", "round", "done"}
    /\ DOMAIN cls \subseteq Ids
    /\ cls \in [DOMAIN cls -> Class]
    /\ packed \subseteq DOMAIN cls
    /\ agenda \subseteq DOMAIN cls
    /\ left \in Nat
    /\ round \in Nat
    /\ progressed \in BOOLEAN
    /\ exhausted \in BOOLEAN

(* The ledger: what is left of the budget and what the live tops cost make *)
(* up the budget, after every pack and every trade; with left >= 0 the     *)
(* selection never costs more than the budget (tokens_used).               *)
Ledger ==
    phase # "dedup" /\ req.budget # None => left + Spent(Live) = req.budget

(* Whatever was packed stays visible: its text occurs in the text of some  *)
(* live top, whichever generations the slices came from ("nothing is       *)
(* dropped", the subsumption rule of _trade_up).                           *)
NothingDropped ==
    \A c \in packed : \E d \in Live :
        LET t == req.hits[c].text
            u == cls[d].top.text
        IN  \E k \in 0 .. (Len(u) - Len(t)) : SubSeq(u, k + 1, k + Len(t)) = t

(* All slices of a document that the request holds are of one text.        *)
OneGeneration ==
    \A s, t \in Hits \cup req.source : s.doc = t.doc =>
        /\ s.doclen = t.doclen
        /\ \A k \in (s.off + 1) .. EndOf(s) : t.off < k /\ k <= EndOf(t) =>
              s.text[k - s.off] = t.text[k - t.off]

(* In one generation it stays visible at its own place in the document.    *)
PassageKept == (phase = "done" /\ OneGeneration) =>
    \A c \in packed : \E d \in Live :
        LET l == req.hits[c]
            s == cls[d].top
        IN  /\ s.doc = l.doc /\ s.off <= l.off /\ EndOf(l) <= EndOf(s)
            /\ SubSeq(s.text, l.off - s.off + 1, EndOf(l) - s.off) = l.text

(* In one generation no passage is paid for and shown twice.               *)
NoPassageTwice == (phase = "done" /\ OneGeneration) =>
    \A c, d \in Live :
        LET s == cls[c].top
            u == cls[d].top
        IN  c # d /\ s.doc = u.doc => EndOf(s) <= u.off \/ EndOf(u) <= s.off

(* Rank flows upward because the evidence does: a class carries the best   *)
(* rank among the hits it stands in for, and every hit that stood behind a *)
(* packed leaf stands behind some live class, which names the leaf as its  *)
(* top or among what it replaced (engine.md, evidence and replaced_ids).   *)
EvidenceFlowsUp == (phase = "done" /\ OneGeneration) =>
    /\ \A d \in Live : cls[d].rank = Min(cls[d].evidence)
    /\ \A c \in packed : \E d \in Live :
          /\ {j \in Ids : Contains(req.hits[j], req.hits[c])} \cup {c} \subseteq cls[d].evidence
          /\ Ref(req.hits[c]) \in {Ref(cls[d].top)} \cup cls[d].replaced

(* SubstitutionTrace.replay_top_ids: the one set of live tops the trace     *)
(* leads to, or none where the replay raises.                              *)
ReplayTopIds ==
    LET apply(t, tops) == (tops \ ({t.from} \cup t.absorbed)) \cup {t.to}
        legal(t, tops) == /\ {t.from} \cup t.absorbed \subseteq tops
                          /\ t.from \notin t.absorbed
                          /\ t.to \notin tops \ ({t.from} \cup t.absorbed)
        after[n \in 0 .. Len(trades)] ==
            IF n = 0 THEN {{Ref(req.hits[c]) : c \in packed}}
            ELSE {apply(trades[n], tops) : tops \in {q \in after[n - 1] : legal(trades[n], q)}}
    IN  after[Len(trades)]

(* Replaying the trace from the initial pack never raises and ends in the  *)
(* live tops, after every trade (engine.md, the lifecycle invariant).      *)
ReplayAgrees ==
    phase \in {"between", "round", "done"} => ReplayTopIds = {{Ref(cls[c].top) : c \in Live}}

(* retrieved_only shows nothing that was not retrieved, off leaves the     *)
(* packed leaves as they are, and no trade grows past max_slice_size.      *)
HonorsOptions ==
    \A c \in Live :
        /\ req.expansion = "retrieved_only" => cls[c].top \in Hits
        /\ req.expansion = "off" => cls[c].top = req.hits[c]
        /\ cls[c].levels > 0 /\ req.maxSize # None => cls[c].top.size <= req.maxSize

(* The loop ends because there is nothing to do, never because the rounds  *)
(* ran out: every live class is saturated, or parked at a level the budget *)
(* has not risen above.                                                    *)
StopsForAReason ==
    phase = "done" /\ req.budget # None /\ req.expansion # "off" =>
        \A c \in Live : cls[c].saturated \/ ~ Awake(c)

(* budget_exhausted is honest: when a run does not report it, every leaf   *)
(* is represented and no live class has a slice left to trade up to, so a  *)
(* larger budget would have changed nothing.                               *)
UnexhaustedMeansComplete ==
    phase = "done" /\ req.budget # None /\ req.expansion # "off" /\ ~ exhausted =>
        /\ packed = DOMAIN cls
        /\ \A c \in Live : Offers(c) = {}

(* Every trade shows strictly more of the document: a level that would     *)
(* only relabel the same passage is never paid for.                        *)
TradesShowMore ==
    [][\A c \in packed : cls'[c].top # cls[c].top /\ OneGeneration =>
          Len(cls'[c].top.text) > Len(cls[c].top.text)]_vars
=============================================================================
