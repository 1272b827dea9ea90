-------------------------------- MODULE Queries --------------------------------
(***************************************************************************)
(* The query service over the Qdrant adapter (service/query.py): config,   *)
(* embed, search (all sizes at once), prefetch*, then fusion, forest and   *)
(* selection in one synchronous stretch.                                   *)
(*                                                                         *)
(* ask: [op |-> "query", sizes, k], the sizes the client asked for or None *)
(* and top_k_per_size.  Which points a search ranks first is left open.    *)
(***************************************************************************)
EXTENDS Reads

-----------------------------------------------------------------------------
(* _resolve_sizes: the sizes asked for that are on the grid, or else all.  *)
Targets(r) ==
    LET grid == reads[r].config.sizes
        kept == IF reads[r].ask.sizes = None THEN {} ELSE grid \cap reads[r].ask.sizes
    IN  IF kept = {} THEN grid ELSE kept

QueryConfig(r) ==
    /\ Stands(r, "query", "config")
    /\ \/ ReadConfig(r, Becomes(r, [reads[r] EXCEPT !.at = "embed", !.config = meta]))
       \/ Fails(MoveTo(r, "unavailable"))

EmbedQuery(r) ==
    /\ Stands(r, "query", "embed")
    /\ \/ /\ Becomes(r, [reads[r] EXCEPT !.at = "search", !.waiting = Targets(r)])
          /\ UNCHANGED vars
       \/ Fails(MoveTo(r, "unavailable"))

(* The lists a search for the k nearest of these points may return.        *)
Rankings(P, k) ==
    LET n == Min({k, Cardinality(P)})
    IN  {h \in [1 .. n -> P] : \A i, j \in 1 .. n : h[i] = h[j] => i = j}

SearchAnswers(r, s) ==
    /\ Stands(r, "query", "search") /\ s \in reads[r].waiting
    /\ colls[s] # None
    /\ \E h \in Rankings(colls[s].points, reads[r].ask.k) :
          Becomes(r, [reads[r] EXCEPT !.waiting = @ \ {s}, !.found = Assign(@, s, h)])
    /\ UNCHANGED vars

(* A search whose collection is missing or whose call fails: what it       *)
(* raised, whatever it was, counts as that size's result.                  *)
(* Mutant: a size that failed is reported as one with no hits.             *)
SearchFailsEmpty(r, s) ==
    /\ Stands(r, "query", "search") /\ s \in reads[r].waiting
    /\ LET failed == Becomes(r, [reads[r] EXCEPT !.waiting = @ \ {s},
                                                !.found = Assign(@, s, << >>)])
       IN  \/ colls[s] = None /\ failed /\ UNCHANGED vars
           \/ Fails(failed)

SearchFails(r, s) ==
    /\ Stands(r, "query", "search") /\ s \in reads[r].waiting
    /\ LET failed == Becomes(r, [reads[r] EXCEPT !.waiting = @ \ {s}])
       IN  \/ colls[s] = None /\ failed /\ UNCHANGED vars
           \/ Fails(failed)

(* A search is given up that has not answered in time: an answer after     *)
(* that reaches nobody.  Mutant: the first answer disarms the timer.       *)
SearchTimesOutFirst(r, s) ==
    /\ Stands(r, "query", "search") /\ s \in reads[r].waiting
    /\ reads[r].waiting = Targets(r)
    /\ Becomes(r, [reads[r] EXCEPT !.waiting = @ \ {s}])
    /\ UNCHANGED vars

SearchTimesOut(r, s) ==
    /\ Stands(r, "query", "search") /\ s \in reads[r].waiting
    /\ Becomes(r, [reads[r] EXCEPT !.waiting = @ \ {s}])
    /\ UNCHANGED vars

(* The grid ancestors of the hits that are not hits themselves.  Mutant:   *)
(* none at the sizes that were searched.                                   *)
WantedUnsearched(r) ==
    LET hits == AllHits(reads[r].found)
        up(h, s) == [doc |-> h.doc, size |-> s, off |-> ParentOffset(h.off, s)]
        unsearched == reads[r].config.sizes \ Targets(r)
    IN  UNION {{up(h, s) : s \in LevelsAbove(h.size) \cap unsearched} : h \in hits}

Wanted(r) ==
    LET hits == AllHits(reads[r].found)
        up(h, s) == [doc |-> h.doc, size |-> s, off |-> ParentOffset(h.off, s)]
        above == {{up(h, s) : s \in LevelsAbove(h.size) \cap reads[r].config.sizes} : h \in hits}
    IN  (UNION above) \ IdsOf(hits)

GivesUp(r) == DOMAIN reads[r].found = {}

EndFanout(r) ==
    /\ Stands(r, "query", "search") /\ reads[r].waiting = {}
    /\ IF GivesUp(r) THEN MoveTo(r, "unavailable")
       ELSE Becomes(r, [reads[r] EXCEPT !.at = "prefetch", !.todo = {i.size : i \in Wanted(r)}])
    /\ UNCHANGED vars

(* fetch_by_ids: the points there are; the ids that are gone are omitted.  *)
Fetch(r) ==
    /\ Stands(r, "query", "prefetch") /\ reads[r].todo # {}
    /\ colls[Smallest(r)] # None
    /\ LET got == {p \in colls[Smallest(r)].points : Ref(p) \in Wanted(r)}
       IN  Becomes(r, [reads[r] EXCEPT !.todo = Others(r), !.source = @ \cup got])
    /\ UNCHANGED vars

(* A failed prefetch never fails a request: the size is left out.          *)
FetchFails(r) ==
    /\ Stands(r, "query", "prefetch") /\ reads[r].todo # {}
    /\ LET skipped == Becomes(r, [reads[r] EXCEPT !.todo = Others(r), !.lost = TRUE])
       IN  \/ colls[Smallest(r)] = None /\ skipped /\ UNCHANGED vars
           \/ Fails(skipped)

Select(r) ==
    /\ Stands(r, "query", "prefetch") /\ reads[r].todo = {}
    /\ MoveTo(r, "answered")
    /\ UNCHANGED vars

(* The steps of run itself, and those of the searches it waits for.        *)
Run(r) ==
    \/ QueryConfig(r) \/ EmbedQuery(r) \/ EndFanout(r)
    \/ Fetch(r) \/ FetchFails(r) \/ Select(r)

Search(r, s) == SearchAnswers(r, s) \/ SearchFails(r, s) \/ SearchTimesOut(r, s)

Query(r) == Run(r) \/ \E s \in Sizes : Search(r, s)

-----------------------------------------------------------------------------
(* What the strategy receives: the candidates by fused rank, the source,   *)
(* and whether the answer is marked as partial.                            *)
Candidates(r) == Fuse(reads[r].found)

Partial(r) == Targets(r) # DOMAIN reads[r].found
=============================================================================
