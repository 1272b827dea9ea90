-------------------------------- MODULE Catalog --------------------------------
(***************************************************************************)
(* Reading the registry over the Qdrant adapter: a client that walks the   *)
(* pages of a corpus's documents (documents.py list_page), get, and        *)
(* inspect (corpora.py).                                                   *)
(*                                                                         *)
(* list      (config, page)*, once for each page                           *)
(* get       config, lookup, read                                          *)
(* inspect   config, stats, (exists, count)*, total, verify, (seen, info)* *)
(*                                                                         *)
(* lookup, stats and verify are the reads of the corpus config with which  *)
(* get_document_meta, corpus_stats and verify_corpus start; the starred    *)
(* groups of inspect are run for each size.  The backend scrolls by the    *)
(* points' ids, which are hashes of corpus and document id: documents are  *)
(* numbered in that order here, and the ids themselves may be in any.      *)
(***************************************************************************)
EXTENDS Reads, SequencesExt

CONSTANT PageSize   \* the limit the client asks for

ASSUME CatalogAssumption ==
    /\ Docs \subseteq Nat /\ None \notin Docs
    /\ PageSize \in Nat \ {0}

-----------------------------------------------------------------------------
ListConfig(r) ==
    /\ Stands(r, "list", "config")
    /\ ReadConfig(r, MoveTo(r, "page"))

(* The registered documents from the cursor on, by point id.               *)
Registered(from) ==
    SortedBy({d \in Docs : docs[d] # None /\ (from # None => d >= from)}, <)

(* Mutant: the next page starts at the last document of this one.          *)
NextCursorRepeats(all) == IF Len(all) > PageSize THEN all[PageSize] ELSE None

(* A scroll answers with the id at which the next page starts.             *)
NextCursor(all) == IF Len(all) > PageSize THEN all[PageSize + 1] ELSE None

ListPage(r) ==
    /\ Stands(r, "list", "page")
    /\ LET all == Registered(reads[r].cursor)
           next == NextCursor(all)
       IN  Becomes(r, [reads[r] EXCEPT
                !.at = IF next = None THEN "answered" ELSE "config",
                !.listed = @ \o SubSeq(all, 1, Min({PageSize, Len(all)})),
                !.cursor = next])
    /\ UNCHANGED vars

ListFails(r) ==
    /\ r \in Reading /\ reads[r].ask.op = "list"
    /\ Fails(MoveTo(r, "unavailable"))

List(r) == ListConfig(r) \/ ListPage(r) \/ ListFails(r)

-----------------------------------------------------------------------------
GetConfig(r) ==
    /\ Stands(r, "get", "config")
    /\ ReadConfig(r, MoveTo(r, "lookup"))

GetLookup(r) ==
    /\ Stands(r, "get", "lookup")
    /\ ReadConfig(r, MoveTo(r, "read"))

GetRecord(r) ==
    /\ Stands(r, "get", "read")
    /\ LET record == docs[reads[r].ask.doc]
       IN  Becomes(r, [reads[r] EXCEPT !.record = record,
                                       !.at = IF record = None THEN "refused" ELSE "answered"])
    /\ UNCHANGED vars

GetFails(r) ==
    /\ r \in Reading /\ reads[r].ask.op = "get"
    /\ Fails(MoveTo(r, "unavailable"))

Get(r) == GetConfig(r) \/ GetLookup(r) \/ GetRecord(r) \/ GetFails(r)

-----------------------------------------------------------------------------
InspectConfig(r) ==
    /\ Stands(r, "inspect", "config")
    /\ ReadConfig(r, MoveTo(r, "stats"))

CorpusStats(r) ==
    /\ Stands(r, "inspect", "stats")
    /\ ReadConfig(r, Becomes(r, [reads[r] EXCEPT !.at = "exists", !.todo = meta.sizes]))

(* One size of a loop is done, with the request as it now is.              *)
AfterSize(r, read, head, after) ==
    Becomes(r, [read EXCEPT !.at = IF Others(r) = {} THEN after ELSE head,
                            !.todo = Others(r)])

Counted(r, n) == [reads[r] EXCEPT !.counts = Assign(@, Smallest(r), n)]

StatsExists(r) ==
    /\ Stands(r, "inspect", "exists")
    /\ IF colls[Smallest(r)] # None THEN MoveTo(r, "count")
       ELSE AfterSize(r, Counted(r, 0), "exists", "total")
    /\ UNCHANGED vars

(* Mutant: the backend may count roughly, as it does unless told not to.   *)
CountPointsRoughly(r) ==
    /\ Stands(r, "inspect", "count") /\ colls[Smallest(r)] # None
    /\ \E n \in 0 .. Cardinality(colls[Smallest(r)].points) :
          AfterSize(r, Counted(r, n), "exists", "total")
    /\ UNCHANGED vars

CountPoints(r) ==
    /\ Stands(r, "inspect", "count") /\ colls[Smallest(r)] # None
    /\ AfterSize(r, Counted(r, Cardinality(colls[Smallest(r)].points)), "exists", "total")
    /\ UNCHANGED vars

CountDocuments(r) ==
    /\ Stands(r, "inspect", "total")
    /\ Becomes(r, [reads[r] EXCEPT !.at = "verify",
                                   !.total = Cardinality({d \in Docs : docs[d] # None})])
    /\ UNCHANGED vars

VerifyCorpus(r) ==
    /\ Stands(r, "inspect", "verify")
    /\ ReadConfig(r, Becomes(r, [reads[r] EXCEPT !.at = "seen", !.todo = meta.sizes,
                                                 !.config = meta]))

Blamed(r) == [reads[r] EXCEPT !.faulty = @ \cup {Smallest(r)}]

VerifyExists(r) ==
    /\ Stands(r, "inspect", "seen")
    /\ IF colls[Smallest(r)] # None THEN MoveTo(r, "info")
       ELSE AfterSize(r, Blamed(r), "seen", "answered")
    /\ UNCHANGED vars

VerifyDimension(r) ==
    /\ Stands(r, "inspect", "info") /\ colls[Smallest(r)] # None
    /\ LET fits == colls[Smallest(r)].dim = reads[r].config.dim
       IN  AfterSize(r, IF fits THEN reads[r] ELSE Blamed(r), "seen", "answered")
    /\ UNCHANGED vars

(* A call fails, or finds gone the collection it was told there is.        *)
InspectFails(r) ==
    /\ r \in Reading /\ reads[r].ask.op = "inspect"
    /\ \/ /\ reads[r].at \in {"count", "info"} /\ colls[Smallest(r)] = None
          /\ MoveTo(r, "unavailable") /\ UNCHANGED vars
       \/ Fails(MoveTo(r, "unavailable"))

Inspect(r) ==
    \/ InspectConfig(r) \/ CorpusStats(r) \/ StatsExists(r) \/ CountPoints(r)
    \/ CountDocuments(r) \/ VerifyCorpus(r) \/ VerifyExists(r) \/ VerifyDimension(r)
    \/ InspectFails(r)
=============================================================================
