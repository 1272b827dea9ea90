-------------------------------- MODULE Readers --------------------------------
(***************************************************************************)
(* Clients that query, list, look up and inspect while others write.       *)
(***************************************************************************)
EXTENDS Queries, Catalog

ReadStep(r) == Query(r) \/ List(r) \/ Get(r) \/ Inspect(r)

ReadNext == Write \/ \E r \in Readers : Ask(r) \/ ReadStep(r)

ReadSpec == InitReads /\ [][ReadNext]_allVars

(* The event loop runs every coroutine that is ready and every timer that  *)
(* is due.  A call that a request waits for alone ends, by its answer or   *)
(* by the client library's timeout (qdrant.py 163); that a search answers  *)
(* or fails is not assumed.                                                *)
FairReadSpec ==
    /\ ReadSpec
    /\ \A r \in Readers :
          /\ WF_allVars(Run(r) \/ List(r) \/ Get(r) \/ Inspect(r))
          /\ \A s \in Sizes : WF_allVars(SearchTimesOut(r, s))

-----------------------------------------------------------------------------
(* The points of a document with that content on a grid of those sizes.    *)
PointsOf(d, c, sizes) == IF c = None THEN {} ELSE Points(d, c, sizes)

(* What a query serves of a document that nobody wrote while it ran is     *)
(* what was last put: no slice of an earlier text, none of a deleted one,  *)
(* neither among the hits nor among the ancestors it may trade up to       *)
(* (query.py run, documents.py put).                                       *)
ServesThePromise == \A r \in Readers : Done(r, "query") =>
    LET q == reads[r]
    IN  \A d \in Docs : \A c \in q.steady[d] :
            {p \in AllHits(q.found) \cup q.source : p.doc = d}
                \subseteq PointsOf(d, c, q.config.sizes)

(* An answer that is not marked partial is complete: every target size     *)
(* that had fewer than top_k hits shows every slice of every document      *)
(* nobody wrote meanwhile (query.py 164, 222-226).                         *)
UnmarkedIsComplete == \A r \in Readers : Done(r, "query") /\ ~ Partial(r) =>
    LET q == reads[r]
    IN  \A s \in Targets(r) : Len(q.found[s]) < q.ask.k =>
            \A d \in Docs : \A c \in q.steady[d] :
                PointsOf(d, c, {s}) \subseteq ToSet(q.found[s])

(* A document that has text is found at every size that answered with      *)
(* fewer than top_k hits, also while an undisturbed put replaces it: there *)
(* is no moment between the generations (documents.py put).                *)
NeverVanishes == \A r \in Readers : Done(r, "query") =>
    LET q == reads[r]
    IN  \A s \in DOMAIN q.found : Len(q.found[s]) < q.ask.k =>
            \A d \in q.findable : \E p \in ToSet(q.found[s]) : p.doc = d

(* Every grid ancestor of a hit is at hand when the strategy runs, as a    *)
(* hit or in the source, for a document nobody wrote meanwhile and unless  *)
(* a fetch failed: trade-up is never cut short for want of a slice         *)
(* (query.py _prefetch_ancestors).                                         *)
AncestorsAtHand == \A r \in Readers : Done(r, "query") =>
    LET q == reads[r]
        held == AllHits(q.found) \cup q.source
    IN  ~ q.lost => \A h \in AllHits(q.found) : q.steady[h.doc] # {} =>
            \A s \in LevelsAbove(h.size) \cap q.config.sizes :
                \E p \in held : /\ p.doc = h.doc /\ p.size = s
                                /\ p.off <= h.off /\ h.off < p.off + s

(* The order fusion hands over: every hit once; a hit goes before those of *)
(* worse rank in whatever size, and among its rank by size (fusion.py).    *)
FusedByRank == \A r \in Readers : Done(r, "query") =>
    LET found == reads[r].found
        place(s, i) == {j \in DOMAIN Candidates(r) : Candidates(r)[j] = found[s][i]}
    IN  \A s, z \in DOMAIN found : \A i \in DOMAIN found[s], j \in DOMAIN found[z] :
            /\ Cardinality(place(s, i)) = 1
            /\ (i < j \/ (i = j /\ s < z)) =>
                  \A a \in place(s, i), b \in place(z, j) : a < b

(* What the strategy is handed is a request as Selection assumes it: no    *)
(* ref twice among the candidates, nor among the candidates and the        *)
(* source, and every slice on the grid, whatever was written meanwhile.    *)
FitForSelection == \A r \in Readers : Done(r, "query") =>
    LET q == reads[r]
        all == AllHits(q.found) \cup q.source
    IN  /\ \A p, o \in all : Ref(p) = Ref(o) => p = o
        /\ Len(Candidates(r)) = Cardinality(AllHits(q.found))
        /\ \A p \in all : p.size \in q.config.sizes /\ OnGrid(p.off, p.size)

-----------------------------------------------------------------------------
(* A client that walks the pages while others write meets no document      *)
(* twice, every document registered all along, and none that was absent    *)
(* all along (qdrant.py list_documents).                                   *)
ListedOnce == \A r \in Readers : Done(r, "list") =>
    LET l == reads[r]
    IN  /\ \A i, j \in DOMAIN l.listed : l.listed[i] = l.listed[j] => i = j
        /\ \A d \in Docs : \A c \in l.steady[d] : d \in ToSet(l.listed) <=> c # None

(* While a corpus is inspected that others write, no point and no document *)
(* that nobody touches is left out of the counts, no document that was     *)
(* never there is counted, and no size is blamed at which one of them is   *)
(* found (corpora.py inspect, qdrant.py 352-373, 596-620).                 *)
InspectAccounts == \A r \in Readers : Done(r, "inspect") =>
    LET i == reads[r]
        kept == {d \in Docs : \E c \in i.steady[d] : c # None}
        gone == {d \in Docs : None \in i.steady[d]}
    IN  /\ \A s \in DOMAIN i.counts :
              i.counts[s] >= Cardinality(
                  UNION {UNION {PointsOf(d, c, {s}) : c \in i.steady[d]} : d \in kept})
        /\ Cardinality(kept) <= i.total /\ i.total <= Cardinality(Docs \ gone)
        /\ (\E d \in kept : \E c \in i.steady[d] : HasText(c)) =>
              DOMAIN i.counts = i.config.sizes /\ i.faulty = {}

(* The in-memory store after the same writes, whose documents have ids in  *)
(* that order.                                                             *)
Memory(r, rank) == INSTANCE MemoryStore WITH
    IdRank <- rank,
    config <- reads[r].config,
    points <- UNION {UNION {PointsOf(d, c, reads[r].config.sizes) : c \in reads[r].steady[d]} :
                        d \in Docs},
    records <- [d \in Docs |-> CHOOSE c \in reads[r].steady[d] : TRUE]

IdOrders == {o \in [Docs -> 1 .. Cardinality(Docs)] : \A d, e \in Docs : o[d] = o[e] => d = e}

(* A read during which nothing was written gets from Qdrant, in several    *)
(* calls, what the in-memory store, the yardstick of the interface,        *)
(* answers at once, whatever had failed halfway before the last write.  A  *)
(* list has the same documents, each once: each adapter has its own order, *)
(* and its own kind of cursor (qdrant.py 430-620, memory.py).              *)
AnswersAsMemory == \A r \in Readers :
    (reads[r] # None /\ \A d \in Docs : reads[r].steady[d] # {}) =>
        LET q == reads[r]
        IN \A o \in IdOrders :
            /\ Done(r, "query") =>
                  /\ \A s \in DOMAIN q.found : q.found[s] \in Memory(r, o)!SearchSize(s, q.ask.k)
                  /\ ~ q.lost => q.source =
                        UNION {Memory(r, o)!FetchByIds(s, Wanted(r)) : s \in q.config.sizes}
            /\ Done(r, "list") =>
                  LET walked == Memory(r, o)!Walk(PageSize)
                  IN  ToSet(q.listed) = ToSet(walked) /\ Len(q.listed) = Len(walked)
            /\ Done(r, "get") => q.record = Memory(r, o)!GetDocumentMeta(q.ask.doc)
            /\ Done(r, "inspect") =>
                  /\ Memory(r, o)!CorpusStats =
                        [document_count |-> q.total, points_by_size |-> q.counts]
                  /\ q.faulty = Memory(r, o)!VerifyCorpus

-----------------------------------------------------------------------------
(* Every request to read ends, also when the corpus it reads is dropped    *)
(* under it, a dependency fails or writers never pause.                    *)
ReadsEnd == \A r \in Readers : r \in Reading ~> r \notin Reading
=============================================================================
