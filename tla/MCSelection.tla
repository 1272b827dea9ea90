----------------------------- MODULE MCSelection -----------------------------
(* Small requests for the selection strategy.                              *)
EXTENDS InProcess

a == "a"
b == "b"

(* A token counter that merges runs of a repeated code point, so that a    *)
(* slice may cost less than its parts together.                            *)
Runs(t) == Cardinality({i \in 1 .. Len(t) : i = 1 \/ t[i] # t[i - 1]})

(* Ranked lists of at most k of the slices S, each ref once.               *)
Rankings(S, k) ==
    {h \in UNION {[1 .. n -> S] : n \in 1 .. k} :
        \A i, j \in DOMAIN h : i # j => Ref(h[i]) # Ref(h[j])}

Make(hits, source, budget, opt) ==
    [hits |-> hits, source |-> source, budget |-> budget,
     expansion |-> opt[1], maxSize |-> opt[2], overhead |-> opt[3]]

Fill == <<"fill", None, 0>>
FillOverhead == <<"fill", None, 1>>
FillCapped == <<"fill", 2, 0>>
RetrievedOnly == <<"retrieved_only", None, 0>>
Off == <<"off", None, 0>>

(* One generation of one document; the prefetch found everything, or its   *)
(* fetch of the middle size failed.                                        *)
OneDocument ==
    LET view == MultiView(1, <<a, b, a, b>>)
        fetched == {<<view, opt>> : opt \in {Fill, FillOverhead, FillCapped, RetrievedOnly, Off}}
                     \cup {<<{s \in view : s.size # 2}, Fill>>}
    IN  {Make(h, f[1], bud, f[2]) : h \in Rankings(view, 3), f \in fetched, bud \in {1, 3, 5}}

(* Two documents shorter than the largest size, so that clipped spans,     *)
(* degenerate levels and documents competing for the budget all occur.     *)
TwoDocuments ==
    LET view == MultiView(1, <<a, a, b>>) \cup MultiView(2, <<b>>)
    IN  {Make(h, view, bud, opt) :
            h \in Rankings(view, 3), bud \in {2, 3}, opt \in {Fill, FillOverhead}}

Quiet == OneDocument \cup TwoDocuments

(* A replace in flight: each hit and each prefetched slice is of the old   *)
(* or of the new text, and the two texts repeat themselves.                *)
OldText == <<a, b, a, a>>
NewText == <<a, a>>

Racing ==
    LET old == MultiView(1, OldText)
        new == MultiView(1, NewText)
    IN  {Make(h, src, bud, Fill) :
            h \in Rankings(old \cup new, 3),
            src \in {old, new, new \cup {s \in old : s.size = 1 /\ s.off >= 2},
                     {s \in old : s.size = 4} \cup {s \in new : s.size < 4}},
            bud \in {3}}

(* Hits of one document, handed over in process.                           *)
Embedded ==
    LET calls == {BudgetFit(h, bud, None, "fill", None, 0) :
                     h \in Rankings(MultiView(1, <<a, b, a, b>>), 3), bud \in {1, 3, 5}}
    IN  calls \cup {DedupeOnly(r) : r \in calls}

All == Embedded \cup Quiet \cup Racing

(* The generations a query may meet are those of the document's two texts. *)
(* A class whose top and leaf never were slices of one text was traded     *)
(* across generations (decisions.md, D-007).                               *)
NeverCrossesGenerations ==
    \A c \in Live : \E text \in {OldText, NewText} :
        {req.hits[c], cls[c].top} \subseteq MultiView(1, text)
=============================================================================
