------------------------------- MODULE Forest -------------------------------
(***************************************************************************)
(* The containment forest over a set of retrieved slices (forest.py).      *)
(* Hits are a set of slices with pairwise distinct refs, which is what     *)
(* build keeps after it collapsed repeated refs.                           *)
(***************************************************************************)
EXTENDS Slicing

CONSTANT None       \* Python's None: no slice, no limit, no value

-----------------------------------------------------------------------------
PositionallyNests(p, c) ==
    /\ p.doc = c.doc
    /\ p.size > c.size
    /\ p.off <= c.off
    /\ EndOf(c) <= EndOf(p)

Vouches(p, c) == Marker(c) \in p.desc

Contains(p, c) == PositionallyNests(p, c) /\ Vouches(p, c)

-----------------------------------------------------------------------------
(* The hits found by walking up the grid from c, by coordinates.           *)
GridParents(H, c) ==
    {p \in H : /\ p.doc = c.doc
               /\ p.size \in LevelsAbove(c.size)
               /\ p.off = ParentOffset(c.off, p.size)}

(* Mutant: the place alone makes a parent, no marker is asked for.         *)
MinimalParentByPlace(H, c) ==
    LET P == GridParents(H, c)
    IN  IF P = {} THEN None ELSE CHOOSE p \in P : \A q \in P : p.size <= q.size

(* The walk stops at the first grid parent that vouches for c.             *)
MinimalParent(H, c) ==
    LET P == {p \in GridParents(H, c) : Vouches(p, c)}
    IN  IF P = {} THEN None
        ELSE CHOOSE p \in P : \A q \in P : p.size <= q.size

(* The grid parents the walk from c met and passed: they do not vouch.     *)
Passed(H, c) ==
    {p \in GridParents(H, c) :
        /\ ~ Vouches(p, c)
        /\ \A q \in GridParents(H, c) : Vouches(q, c) => p.size < q.size}

Anomalies(H) ==
    UNION {{[parent |-> Ref(p), child |-> Ref(c)] : p \in Passed(H, c)} : c \in H}

Leaves(H) == {h \in H : \A c \in H : MinimalParent(H, c) # h}

Roots(H) == {h \in H : MinimalParent(H, h) = None}

(* The chain of minimal parents above h.                                   *)
RetrievedAncestors(H, h) ==
    LET chain[c \in H] ==
            LET p == MinimalParent(H, c)
            IN  IF p = None THEN {} ELSE {p} \cup chain[p]
    IN  chain[h]

(* The density of the forest, as every trace reports it.                   *)
Edges(H, closure) ==
    UNION {{[parent |-> Ref(p), child |-> Ref(c)] :
                p \in IF closure THEN RetrievedAncestors(H, c)
                      ELSE {MinimalParent(H, c)} \ {None}} : c \in H}

(* Mutant: a hit takes part only as a child.                               *)
ParticipatingAsChild(H) == H \ Roots(H)

(* participation_rate is the share of these hits.                          *)
Participating(H) == {h \in H : h \notin Roots(H) \/ h \notin Leaves(H)}

MaxDepth(H) ==
    IF H = {} THEN 0
    ELSE CHOOSE n \in 1 .. Cardinality(H) :
            /\ \E h \in H : n = 1 + Cardinality(RetrievedAncestors(H, h))
            /\ \A h \in H : 1 + Cardinality(RetrievedAncestors(H, h)) <= n
=============================================================================
