----------------------------- MODULE MemoryStore -----------------------------
(***************************************************************************)
(* What a store promises, as the in-memory store keeps it for one corpus   *)
(* (stores/memory.py, the yardstick of the store interface): three         *)
(* dictionaries, and each call takes effect at once.                       *)
(***************************************************************************)
EXTENDS Integers, FiniteSets, Sequences

LOCAL INSTANCE Sorting
LOCAL INSTANCE FiniteSetsExt

CONSTANTS
    Docs,               \* the document ids
    Texts,              \* the texts documents may have
    Configs,            \* the configs a corpus may have: [sizes, dim]
    None,               \* nothing stored
    Initially,          \* the configs there may be at the start, or None
    IdRank,             \* where each document id stands in the order of strings
    Points(_, _, _)     \* the points of a document with a text, cut at some sizes

VARIABLES
    config,     \* _corpora: the config of the corpus, or None
    points,     \* _points: the points of the corpus, of all sizes
    records     \* _documents: the record of each document, or None

store == <<config, points, records>>

-----------------------------------------------------------------------------
Id(p) == [doc |-> p.doc, size |-> p.size, off |-> p.off]

IdsOf(P) == {Id(p) : p \in P}

(* The points of a document, and the sizes that hold any of them.          *)
PointsOf(doc) == {p \in points : p.doc = doc}

CreateCorpus(c) ==
    /\ config = None
    /\ config' = c /\ points' = {} /\ records' = [d \in Docs |-> None]

DropCorpus ==
    /\ config # None
    /\ config' = None /\ points' = {} /\ records' = [d \in Docs |-> None]

(* All of the points or, if one of them does not fit the corpus, none.     *)
UpsertSlices(P, dim) ==
    /\ config # None /\ dim = config.dim
    /\ \A p \in P : p.size \in config.sizes
    /\ points' = {q \in points : Id(q) \notin IdsOf(P)} \cup P
    /\ UNCHANGED <<config, records>>

DeletePoints(ids) ==
    /\ config # None
    /\ points' = {q \in points : Id(q) \notin ids}
    /\ UNCHANGED <<config, records>>

PutDocumentMeta(doc, text) ==
    /\ config # None
    /\ records' = [records EXCEPT ![doc] = text]
    /\ UNCHANGED <<config, points>>

DeleteDocument(doc) ==
    /\ config # None /\ records[doc] # None
    /\ points' = points \ PointsOf(doc)
    /\ records' = [records EXCEPT ![doc] = None]
    /\ UNCHANGED config

-----------------------------------------------------------------------------
(* The reads.  Lists are sorted by document id.  Nobody knows which points *)
(* are nearest to a query: any ranking of the k best there are is an       *)
(* answer.                                                                 *)
Precedes(d, e) == IdRank[d] < IdRank[e]

InOrder(D) == SortedBy(D, Precedes)

SearchSize(size, k) ==
    LET P == {p \in points : p.size = size}
        n == Min({k, Cardinality(P)})
    IN  {h \in [1 .. n -> P] : \A i, j \in 1 .. n : h[i] = h[j] => i = j}

FetchByIds(size, ids) == {p \in points : p.size = size /\ Id(p) \in ids}

GetDocumentMeta(doc) == records[doc]

CorpusStats ==
    [document_count |-> Cardinality({d \in Docs : records[d] # None}),
     points_by_size |->
        [s \in config.sizes |-> Cardinality({p \in points : p.size = s})]]

(* Every size has its dictionary.                                          *)
VerifyCorpus == {}

(* A page: the documents after the cursor, up to the limit.                *)
After(cursor) ==
    InOrder({d \in Docs : records[d] # None /\ (cursor # None => Precedes(cursor, d))})

ListDocuments(limit, cursor) ==
    LET ordered == After(cursor)
        more == Len(ordered) > limit
        page == IF more THEN SubSeq(ordered, 1, limit) ELSE ordered
    IN  [records |-> page, next_cursor |-> IF more THEN page[Len(page)] ELSE None]

(* What a client gets that follows the cursors from the first page on.     *)
Walk(limit) ==
    LET from[left \in 0 .. Cardinality(Docs), cursor \in Docs \cup {None}] ==
            LET page == ListDocuments(limit, cursor)
            IN  IF left = 0 \/ page.next_cursor = None THEN page.records
                ELSE page.records \o from[left - 1, page.next_cursor]
    IN  from[Cardinality(Docs), None]

-----------------------------------------------------------------------------
(* A put of the text that listed the document's points just before: what   *)
(* the text no longer reaches is what it tombstones.                       *)
Orphans(doc, text) == IdsOf(PointsOf(doc)) \ IdsOf(Points(doc, text, config.sizes))

Init ==
    /\ config \in Initially
    /\ points = {}
    /\ records = [d \in Docs |-> None]

Next ==
    \/ \E c \in Configs : CreateCorpus(c)
    \/ DropCorpus
    \/ \E d \in Docs, t \in Texts :
          \/ config # None /\ UpsertSlices(Points(d, t, config.sizes), config.dim)
          \/ config # None /\ DeletePoints(Orphans(d, t))
          \/ PutDocumentMeta(d, t)
    \/ \E d \in Docs : DeleteDocument(d)

Spec == Init /\ [][Next]_store
=============================================================================
