----------------------------- MODULE Conformance -----------------------------
(***************************************************************************)
(* The Qdrant adapter keeps the in-memory store's promise towards clients  *)
(* that do not disturb one another: its methods make several backend calls *)
(* each, other documents' requests come in between, and yet every method   *)
(* takes effect at once, at its first call that changes anything.          *)
(***************************************************************************)
EXTENDS Lifecycle

(* No request overlaps one on its document, nor a create or a drop.        *)
Polite == \A w \in Busy : reqs[w].alone

PoliteNext == Next /\ Polite'

PoliteSpec == InitService /\ [][PoliteNext]_vars

-----------------------------------------------------------------------------
(* What the method at which a request stands has still to do, once it has  *)
(* begun to change the store.                                              *)

(* delete_document has deleted the points of one size at least.            *)
Deleting(doc) == \E w \in Busy :
    /\ reqs[w].call.op = "delete" /\ reqs[w].call.doc = doc
    /\ \/ reqs[w].at = "purge" /\ reqs[w].todo # meta.sizes
       \/ reqs[w].at = "forget"

(* drop_corpus has deleted one collection at least.                        *)
Dropping == \E w \in Busy :
    /\ reqs[w].call.op = "drop"
    /\ \/ reqs[w].at \in {"present", "remove"} /\ reqs[w].todo # meta.sizes
       \/ reqs[w].at \in {"clear", "erase"}

(* upsert_slices has written some sizes, and these points are to follow.   *)
ToWrite == UNION {{p \in New(w) : p.size \in reqs[w].todo} :
    w \in {v \in Workers : At(v, "put", "write") /\ reqs[v].todo # reqs[v].config.sizes}}

(* delete_points has deleted those of some sizes, and these are to follow. *)
ToDelete ==
    UNION {{i \in Orphans(w, reqs[w].old) : i.size \in reqs[w].todo} :
        w \in {v \in Workers : /\ At(v, "put", "delete")
                               /\ reqs[v].todo # {i.size : i \in Orphans(v, reqs[v].old)}}}

-----------------------------------------------------------------------------
(* The store as it will be when these methods have returned.               *)
Exists == meta # None /\ ~ Dropping

PromisedPoints ==
    IF ~ Exists THEN {}
    ELSE LET kept == {p \in UNION {Stored(d, meta.sizes) : d \in {e \in Docs : ~ Deleting(e)}} :
                        Ref(p) \notin ToDelete \cup IdsOf(ToWrite)}
         IN  kept \cup ToWrite

PromisedRecords ==
    [d \in Docs |-> IF ~ Exists \/ Deleting(d) THEN None ELSE docs[d]]

(* No write looks at the order of the document ids.                        *)
Memory == INSTANCE MemoryStore WITH
    IdRank <- [d \in Docs |-> 0],
    config <- IF Exists THEN meta ELSE None,
    points <- PromisedPoints,
    records <- PromisedRecords

(* Every step of the adapter is one whole call of the in-memory store, or  *)
(* nothing at all to a caller of it.                                       *)
TakesEffectAtOnce == Memory!Spec
=============================================================================
