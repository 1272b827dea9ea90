------------------------------ MODULE Lifecycle ------------------------------
(***************************************************************************)
(* The life of one corpus: clients create and drop it, put and delete its  *)
(* documents, in any interleaving the event loop and the backend allow.    *)
(***************************************************************************)
EXTENDS Documents, Corpora

(* The request of a client goes on.                                        *)
Step(w) ==
    \/ Put(w) \/ Delete(w) \/ OpenBatch(w) \/ RefusedDocument(w)
    \/ Create(w) \/ Drop(w) \/ RefusedCorpus(w)
    \/ Health(w)

Next == Crash \/ \E w \in Workers : Begin(w) \/ Broken(w) \/ StrayError(w) \/ Step(w)

Spec == InitService /\ [][Next]_vars

(* The event loop runs every coroutine that is ready, and a call to the    *)
(* backend ends, by its answer or by a timeout of the client library.      *)
FairSpec == Spec /\ \A w \in Workers : WF_vars(Step(w))

-----------------------------------------------------------------------------
(* The variables hold what the code can put there.                         *)
TypeOK ==
    /\ StoreTypeOK(Texts, Configs)
    /\ issued \in [Workers -> 0 .. MaxCalls]
    /\ reqs \in [Workers -> Requests \cup {None}]
    /\ faults \in 0 .. MaxFaults
    /\ promised \in [Docs -> SUBSET (Texts \cup {None})]

(* Once a put, a delete or a drop returned that met no rival, the registry *)
(* and every collection hold exactly that content of the document, until a *)
(* next call writes it: whatever failed halfway before, whatever other     *)
(* documents' requests did meanwhile (documents.py put, qdrant.py delete). *)
PromiseKept == \A d \in Docs : \A c \in promised[d] :
    /\ docs[d] = c
    /\ Stored(d, Sizes) = IF c = None THEN {} ELSE Points(d, c, meta.sizes)

(* While a put without rivals replaces a document, a search finds a whole  *)
(* generation's coordinates, the old one's or the new one's, and points of *)
(* these two only: tombstones follow the writes, and spare what they wrote *)
(* (documents.py put).                                                     *)
NoGap == \A w \in Busy : \A old \in reqs[w].was \ {None} :
    (reqs[w].call.op = "put" /\ reqs[w].alone) =>
        LET doc == reqs[w].call.doc
            before == Points(doc, old, meta.sizes)
            after == Points(doc, reqs[w].call.text, meta.sizes)
            now == Stored(doc, meta.sizes)
        IN  /\ \E generation \in {before, after} : IdsOf(generation) \subseteq IdsOf(now)
            /\ now \subseteq before \cup after

(* A corpus's config is written once: it may go, but never change.         *)
ConfigFrozen == [][meta # None /\ meta' # None => meta' = meta]_vars

(* Where there is no corpus there is no document and no point left.        *)
NothingSurvivesDrop == meta = None => \A d \in Docs : docs[d] = None /\ Stored(d, Sizes) = {}

(* When a create without rivals returns, the corpus is healthy, whatever   *)
(* collections an earlier create had left (qdrant.py create_corpus): all   *)
(* embedders here have the dimension the server probes.                    *)
CreatedIsHealthy == [][meta' # meta /\ meta' # None => Healthy']_vars

(* Where there is a corpus, both registry collections are there, whatever  *)
(* bootstraps failed halfway or raced: no config is written before what    *)
(* every later put and drop relies on (qdrant.py bootstrap).               *)
RegistryStands == meta # None => \A n \in {"meta", "docs"} : shared[n] # None

(* When a health check is about to report, a store it calls in order has   *)
(* both registry collections, whatever earlier bootstraps left half done;  *)
(* and one that met no failure and no rival does call it so.  The document *)
(* registry has its indexes as well, unless a call ever failed: one that   *)
(* was left without them is found, and looked into no further              *)
(* (core.py startup, qdrant.py bootstrap).                                 *)
HealthHeals == \A w \in Busy :
    (reqs[w].call.op = "health" /\ reqs[w].at = "probe") =>
        /\ reqs[w].ok => \A n \in {"meta", "docs"} : shared[n] # None
        /\ reqs[w].alone /\ reqs[w].since = faults => reqs[w].ok
        /\ reqs[w].alone /\ faults = 0 => shared["docs"] = DocFields

(* Whatever befalls one document of a batch, the corpus dropped under it   *)
(* included, the others get their turn: only the end of the process, or an *)
(* error that is none of phoropter's own, cuts a batch short               *)
(* (rest.py batch_documents).                                              *)
BatchGoesOn == [][\A w \in Busy :
    (reqs[w].rest # << >> /\ reqs'[w] = None) =>
        Crash \/ StrayError(w)]_vars

-----------------------------------------------------------------------------
(* With no call under way and nothing failed, a document's points all come *)
(* from one text: only a query that races a replace sees both generations. *)
OneGenerationAtRest == (Busy = {} /\ faults = 0) =>
    \A d \in Docs : \E t \in Texts : \A p \in Stored(d, Sizes) : p.of = t

(* A corpus never takes vectors from an embedder other than the one it is  *)
(* pinned to: all that put writes are from the server's.                   *)
PinnedEmbedder == (meta # None /\ \E d \in Docs : Stored(d, meta.sizes) # {}) =>
    meta.embedder = ServerEmbedder
=============================================================================
