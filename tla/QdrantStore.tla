----------------------------- MODULE QdrantStore -----------------------------
(***************************************************************************)
(* What a Qdrant server keeps for one corpus name, and the backend calls   *)
(* the adapter makes on it (stores/qdrant.py).  Each call is atomic on the *)
(* server (wait=True); an adapter method makes several of them, and        *)
(* anything may happen in between.                                         *)
(*                                                                         *)
(* Corpora of different names share no point, no collection and no         *)
(* registry entry, so one name is enough.  A point is identified by the    *)
(* coordinates of its slice (ids.py is injective) and carries a payload    *)
(* derived from the whole text, here that text itself.  The registry entry *)
(* of a document is represented by the text it was derived from.  All      *)
(* corpora share two registry collections, one of configs (meta) and one   *)
(* of documents, which has two payload indexes.                            *)
(***************************************************************************)
EXTENDS Slicing, FiniteSetsExt

CONSTANTS
    Docs,       \* the document ids
    None        \* nothing stored

VARIABLES
    meta,       \* the corpus config, or None: its point in the meta collection
    colls,      \* the slice collection of each size, or None
    docs,       \* the registry entry of each document, or None
    shared      \* the indexes of each registry collection, or None

store == <<meta, colls, docs, shared>>

(* The indexed fields of the document registry, numbered: the corpus and   *)
(* the document id.                                                        *)
DocFields == {1, 2}

-----------------------------------------------------------------------------
(* The points of a document sliced on a grid of those sizes.               *)
Points(doc, text, sizes) ==
    UNION {{[doc |-> doc, size |-> s, off |-> o, of |-> text] :
                o \in Offsets(0, Len(text), s)} : s \in sizes}

IdsOf(P) == {Ref(p) : p \in P}

(* Mutant: every point goes to every collection.                          *)
OfAnySize(P, size) == P

OfSize(P, size) == {p \in P : p.size = size}

(* What the collection of that size holds of the document.                 *)
Held(doc, size) == {p \in colls[size].points : p.doc = doc}

(* What searches over those sizes may return of it.                        *)
Stored(doc, sizes) == UNION {Held(doc, s) : s \in {z \in sizes : colls[z] # None}}

(* The server refuses vectors of another dimension than the collection's.  *)
Accepts(size, dim) == colls[size] # None /\ colls[size].dim = dim

-----------------------------------------------------------------------------
(* Mutant: each write draws new ids.                                       *)
UpsertPointsAnew(size, P) ==
    /\ colls' = [colls EXCEPT ![size].points = @ \cup P]
    /\ UNCHANGED <<meta, docs, shared>>

(* Deterministic ids: a point replaces the one at its coordinates.         *)
UpsertPoints(size, P) ==
    /\ colls' = [colls EXCEPT ![size].points =
                    {q \in @ : Ref(q) \notin IdsOf(P)} \cup P]
    /\ UNCHANGED <<meta, docs, shared>>

DeleteIds(size, ids) ==
    /\ colls' = [colls EXCEPT ![size].points = {q \in @ : Ref(q) \notin ids}]
    /\ UNCHANGED <<meta, docs, shared>>

(* Mutant: no filter on the document.                                      *)
DeleteByAnyDocument(size, doc) ==
    /\ colls' = [colls EXCEPT ![size].points = {}]
    /\ UNCHANGED <<meta, docs, shared>>

DeleteByDocument(size, doc) ==
    /\ colls' = [colls EXCEPT ![size].points = @ \ Held(doc, size)]
    /\ UNCHANGED <<meta, docs, shared>>

CreateCollection(size, dim) ==
    /\ colls' = [colls EXCEPT ![size] = [dim |-> dim, indexed |-> FALSE, points |-> {}]]
    /\ UNCHANGED <<meta, docs, shared>>

CreateIndex(size) ==
    /\ colls' = [colls EXCEPT ![size].indexed = TRUE]
    /\ UNCHANGED <<meta, docs, shared>>

DeleteCollection(size) ==
    /\ colls' = [colls EXCEPT ![size] = None]
    /\ UNCHANGED <<meta, docs, shared>>

PurgeRegistry ==
    /\ docs' = [d \in Docs |-> None]
    /\ UNCHANGED <<meta, colls, shared>>

WriteRecord(doc, record) ==
    /\ docs' = [docs EXCEPT ![doc] = record]
    /\ UNCHANGED <<meta, colls, shared>>

CreateRegistry(name) ==
    /\ shared' = [shared EXCEPT ![name] = {}]
    /\ UNCHANGED <<meta, colls, docs>>

IndexRegistry(name, field) ==
    /\ shared' = [shared EXCEPT ![name] = @ \cup {field}]
    /\ UNCHANGED <<meta, colls, docs>>

WriteMeta(config) == meta' = config /\ UNCHANGED <<colls, docs, shared>>

-----------------------------------------------------------------------------
(* verify_corpus finds nothing to report.                                  *)
Healthy == \A s \in meta.sizes : Accepts(s, meta.dim)

SlicePoints(texts) == [doc : Docs, size : Sizes, off : Nat, of : texts]

Collections(texts, configs) ==
    [dim : {c.dim : c \in configs}, indexed : BOOLEAN, points : SUBSET SlicePoints(texts)]

StoreTypeOK(texts, configs) ==
    /\ meta \in configs \cup {None}
    /\ colls \in [Sizes -> Collections(texts, configs) \cup {None}]
    /\ \A s \in Sizes : colls[s] # None =>
          \A p \in colls[s].points : p \in Points(p.doc, p.of, {s})
    /\ docs \in [Docs -> texts \cup {None}]
    /\ shared \in [{"meta", "docs"} -> {None} \cup SUBSET DocFields]
    /\ shared["meta"] \in {None, {}}
=============================================================================
