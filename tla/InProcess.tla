------------------------------ MODULE InProcess ------------------------------
(***************************************************************************)
(* The engine without a server (selection.py budget_fit, DedupeOnly): hits *)
(* that the caller has already are fused, and selected from under a        *)
(* budget.                                                                 *)
(***************************************************************************)
EXTENDS Finalize

Lists == INSTANCE Fusion

(* by_size: the hits are handed over by descending score.                  *)
BySize(hits) ==
    [s \in {hits[i].size : i \in DOMAIN hits} |-> SelectSeq(hits, LAMBDA h : h.size = s)]

(* The request that budget_fit makes of them.  Without a source of slices, *)
(* the hits are their own.                                                 *)
BudgetFit(hits, budget, source, expansion, maxSize, overhead) ==
    LET found == BySize(hits)
    IN  [hits |-> Lists!Fuse(found), source |-> IF source = None THEN Lists!AllHits(found) ELSE source,
         budget |-> budget, expansion |-> expansion, maxSize |-> maxSize,
         overhead |-> overhead]

(* A strategy of its own, which forgets the budget.                        *)
DedupeOnly(request) == [request EXCEPT !.budget = None]

=============================================================================
