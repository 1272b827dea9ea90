------------------------------ MODULE Documents ------------------------------
(***************************************************************************)
(* The document service over the Qdrant adapter: put (add or replace) and  *)
(* delete (service/documents.py, stores/qdrant.py).                        *)
(*                                                                         *)
(* put      config, list, scroll*, embed, upsert, write*, tombstone,       *)
(*          delete*, register, record                                      *)
(* delete   config, find, lookup, read, purge*, forget                     *)
(* batch    config, then a put for each of its items (server/rest.py)      *)
(*                                                                         *)
(* A starred await is made once for each size.  list, upsert, tombstone,   *)
(* register, find and lookup are the reads of the corpus config with which *)
(* each adapter method starts.  A scroll takes the ids of one size at      *)
(* once, which is one page of it.                                          *)
(***************************************************************************)
EXTENDS Service

-----------------------------------------------------------------------------
(* The slices of the new text, cut on the grid the service read.           *)
New(w) == Points(reqs[w].call.doc, reqs[w].call.text, reqs[w].config.sizes)

(* Mutant: every old id is tombstoned, the rewritten ones too.             *)
OrphansAll(w, old) == {i \in old : i.size \in reqs[w].config.sizes}

(* Mutant: what the new text no longer reaches is left alone.              *)
OrphansNone(w, old) == {}

Orphans(w, old) == {i \in old \ IdsOf(New(w)) : i.size \in reqs[w].config.sizes}

AfterWrites(w, old) == IF Orphans(w, old) = {} THEN "register" ELSE "tombstone"

PutConfig(w) ==
    /\ At(w, "put", "config") /\ meta # None
    /\ reqs' = [reqs EXCEPT ![w].at = "list", ![w].config = meta]
    /\ UNCHANGED <<store, issued, faults, promised>>

ListIds(w) ==
    /\ At(w, "put", "list") /\ meta # None
    /\ Loop(w, "scroll", meta.sizes)
    /\ UNCHANGED <<store, issued, faults>>

Scroll(w) ==
    /\ At(w, "put", "scroll") /\ colls[Size(w)] # None
    /\ LET old == reqs[w].old \cup IdsOf(Held(reqs[w].call.doc, Size(w)))
           after == IF New(w) # {} THEN "embed" ELSE AfterWrites(w, old)
       IN  reqs' = [reqs EXCEPT ![w].at = IF Rest(w) = {} THEN after ELSE "scroll",
                                ![w].todo = Rest(w), ![w].old = old]
    /\ UNCHANGED <<store, issued, faults, promised>>

Embed(w) ==
    /\ At(w, "put", "embed")
    /\ Goto(w, "upsert")
    /\ UNCHANGED <<store, issued, faults>>

(* upsert_slices refuses another grid, and vectors of another dimension;   *)
(* it is not told which embedder they come from.                           *)
Matches(w) == meta.sizes = reqs[w].config.sizes /\ meta.dim = EmbedDim

UpsertSlices(w) ==
    /\ At(w, "put", "upsert") /\ meta # None /\ Matches(w)
    /\ Loop(w, "write", reqs[w].config.sizes)
    /\ UNCHANGED <<store, issued, faults>>

WriteSize(w) ==
    /\ At(w, "put", "write") /\ Accepts(Size(w), EmbedDim)
    /\ UpsertPoints(Size(w), OfSize(New(w), Size(w)))
    /\ Answered(w, NextSize(w, "write", AfterWrites(w, reqs[w].old)))

Tombstone(w) ==
    /\ At(w, "put", "tombstone") /\ meta # None
    /\ Loop(w, "delete", {i.size : i \in Orphans(w, reqs[w].old)})
    /\ UNCHANGED <<store, issued, faults>>

DeleteSize(w) ==
    /\ At(w, "put", "delete") /\ colls[Size(w)] # None
    /\ DeleteIds(Size(w), OfSize(Orphans(w, reqs[w].old), Size(w)))
    /\ Answered(w, NextSize(w, "delete", "register"))

Register(w) ==
    /\ At(w, "put", "register") /\ meta # None
    /\ Goto(w, "record")
    /\ UNCHANGED <<store, issued, faults>>

Record(w) ==
    /\ At(w, "put", "record")
    /\ WriteRecord(reqs[w].call.doc, reqs[w].call.text)
    /\ Answered(w, Return(w))

Put(w) ==
    \/ PutConfig(w) \/ ListIds(w) \/ Scroll(w) \/ Embed(w) \/ UpsertSlices(w)
    \/ WriteSize(w) \/ Tombstone(w) \/ DeleteSize(w) \/ Register(w) \/ Record(w)

-----------------------------------------------------------------------------
DeleteConfig(w) ==
    /\ At(w, "delete", "config") /\ meta # None
    /\ Goto(w, "find")
    /\ UNCHANGED <<store, issued, faults>>

FindDocument(w) ==
    /\ At(w, "delete", "find") /\ meta # None
    /\ Loop(w, "lookup", meta.sizes)
    /\ UNCHANGED <<store, issued, faults>>

Lookup(w) ==
    /\ At(w, "delete", "lookup") /\ meta # None
    /\ Goto(w, "read")
    /\ UNCHANGED <<store, issued, faults>>

ReadRecord(w) ==
    /\ At(w, "delete", "read") /\ docs[reqs[w].call.doc] # None
    /\ Goto(w, "purge")
    /\ UNCHANGED <<store, issued, faults>>

PurgeSize(w) ==
    /\ At(w, "delete", "purge") /\ colls[Size(w)] # None
    /\ DeleteByDocument(Size(w), reqs[w].call.doc)
    /\ Answered(w, NextSize(w, "purge", "forget"))

Forget(w) ==
    /\ At(w, "delete", "forget")
    /\ WriteRecord(reqs[w].call.doc, None)
    /\ Answered(w, Return(w))

Delete(w) ==
    \/ DeleteConfig(w) \/ FindDocument(w) \/ Lookup(w) \/ ReadRecord(w)
    \/ PurgeSize(w) \/ Forget(w)

-----------------------------------------------------------------------------
(* The inspect with which a batch begins has found the corpus.             *)
OpenBatch(w) ==
    /\ At(w, "batch", "config") /\ meta # None
    /\ LET items == reqs[w].call.items
       IN  Enter(w, Head(items), Tail(items), promised)
    /\ UNCHANGED <<store, issued, faults>>

(* A provider answers what is not JSON: no PhoropterError, so that it ends *)
(* a batch, where it would end one put as well (embed/ollama.py 112).      *)
StrayError(w) ==
    /\ At(w, "put", "embed") /\ reqs[w].rest # << >>
    /\ faults < MaxFaults /\ faults' = faults + 1
    /\ Abort(w)
    /\ UNCHANGED <<store, issued>>

-----------------------------------------------------------------------------
(* The calls that raise: no such corpus, no such document, a mismatch, or  *)
(* a collection the backend does not have.                                 *)
RefusedDocument(w) ==
    /\ w \in Busy /\ reqs[w].call.op \in {"put", "delete", "batch"}
    /\ LET at == reqs[w].at
       IN  \/ /\ at \in {"config", "list", "upsert", "tombstone", "register", "find", "lookup"}
              /\ meta = None
           \/ at = "upsert" /\ meta # None /\ ~ Matches(w)
           \/ at \in {"scroll", "delete", "purge"} /\ colls[Size(w)] = None
           \/ at = "write" /\ ~ Accepts(Size(w), EmbedDim)
           \/ at = "read" /\ docs[reqs[w].call.doc] = None
    /\ Raise(w)
    /\ UNCHANGED <<store, issued, faults>>
=============================================================================
