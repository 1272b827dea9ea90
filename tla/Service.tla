------------------------------- MODULE Service -------------------------------
(***************************************************************************)
(* Requests in flight.  Each request runs as a coroutine of one event loop *)
(* and gives way at every await; a step is what happens between two awaits *)
(* with the backend call that ends it.  No lock is taken anywhere, so the  *)
(* steps of different requests interleave freely.                          *)
(*                                                                         *)
(* at      the await the request stands at                                 *)
(* config  the CorpusConfig its service read                               *)
(* todo    the sizes its running loop has left, taken in ascending order   *)
(* old     the point ids it listed                                         *)
(* rest    the puts of a batch that are to follow                          *)
(* ok      whether a health check found the store in order so far          *)
(*                                                                         *)
(* alone, since and was, and the variable promised, are history: they say  *)
(* what a client may count on, and no step of the code reads them.         *)
(***************************************************************************)
EXTENDS QdrantStore

CONSTANTS
    Workers,    \* clients: each issues its calls one after the other
    Texts,      \* the texts they put
    Configs,    \* the configs they create the corpus with: [sizes, dim, embedder]
    Menu,       \* the calls each of them may issue
    MaxCalls,   \* bound: how many each of them issues
    Initially,  \* the corpus there is at the start: configs, or None
    Stock,      \* the texts its documents have been put with, or None
    EmbedDim,   \* the dimension of the vectors the server's embedder returns
    ServerEmbedder, \* the fingerprint of that embedder
    MaxFaults   \* bound: backend, embedder or connection failures

VARIABLES
    issued,     \* how many calls each client has issued
    reqs,       \* the request each client waits for, or None
    faults,     \* failures so far
    promised    \* per document: {}, or its content by the last undisturbed write

vars == <<store, issued, reqs, faults, promised>>

-----------------------------------------------------------------------------
(* What a client may call.  A batch has items (schemas.py 191).            *)
PutCalls == [op : {"put"}, doc : Docs, text : Texts]

ClientCalls ==
    PutCalls \cup [op : {"delete"}, doc : Docs] \cup [op : {"create"}, config : Configs]
    \cup [op : {"drop", "health"}] \cup [op : {"batch"}, items : Seq(PutCalls) \ {<< >>}]

(* The awaits at which a request may stand.                                *)
Places ==
    {"config", "list", "scroll", "embed", "upsert", "write", "tombstone", "delete",
     "register", "record", "find", "lookup", "read", "purge", "forget",
     "probe", "see meta", "make meta", "see docs", "make docs", "index docs",
     "check", "exists", "make", "index", "save",
     "reread", "present", "remove", "clear", "erase", "ping"}

Requests ==
    [call : ClientCalls, at : Places, rest : Seq(PutCalls), config : Configs \cup {None},
     todo : SUBSET (Sizes \cup DocFields), old : SUBSET [doc : Docs, size : Sizes, off : Nat],
     ok : BOOLEAN, alone : BOOLEAN, since : Nat, was : SUBSET (Texts \cup {None})]

ASSUME ServiceAssumption ==
    /\ \A t \in Texts : Len(t) \in Nat
    /\ \A c \in Configs : c.sizes \subseteq Sizes /\ c.sizes # {}
    /\ Initially \subseteq Configs \cup {None}
    /\ \A d \in Docs : Stock[d] \in Texts \cup {None}
    /\ \A w \in Workers : Menu[w] \subseteq ClientCalls
    /\ MaxCalls \in Nat /\ MaxFaults \in Nat

(* None is none of the values in whose place it stands.                    *)
ASSUME NoneAssumption ==
    /\ None \notin Texts /\ None \notin Configs
    /\ \A fields \in SUBSET DocFields : None # fields
    /\ None \notin Collections(Texts, Configs)
    /\ None \notin Requests

-----------------------------------------------------------------------------
Busy == {w \in Workers : reqs[w] # None}

At(w, op, at) == w \in Busy /\ reqs[w].call.op = op /\ reqs[w].at = at

(* Two calls that may disturb each other.                                  *)
Clash(c, d) ==
    LET ops == {c.op, d.op}
    IN  IF "batch" \in ops THEN FALSE
        ELSE IF "health" \in ops THEN ops \subseteq {"health", "create"}
        ELSE ops \cap {"create", "drop"} # {} \/ c.doc = d.doc

Writes(c, doc) == c.op = "drop" \/ (c.op \in {"put", "delete"} /\ c.doc = doc)

Entry(op) ==
    CASE op = "create" -> "probe" [] op = "health" -> "ping" [] OTHER -> "config"

(* Client w starts a call, with these puts to follow, at a moment when     *)
(* that much is promised of the documents.                                 *)
Enter(w, c, rest, kept) ==
    LET rivals == {v \in Busy \ {w} : Clash(reqs[v].call, c)}
    IN  /\ reqs' = [v \in Workers |->
              IF v = w THEN [call |-> c, at |-> Entry(c.op), rest |-> rest, config |-> None,
                             todo |-> {}, old |-> {}, ok |-> TRUE, alone |-> rivals = {},
                             since |-> IF c.op = "health" THEN faults ELSE 0,
                             was |-> IF c.op = "put" THEN kept[c.doc] ELSE {}]
              ELSE IF v \in rivals THEN [reqs[v] EXCEPT !.alone = FALSE]
              ELSE reqs[v]]
        /\ promised' = [d \in Docs |-> IF Writes(c, d) THEN {} ELSE kept[d]]

Begin(w) ==
    /\ w \notin Busy /\ issued[w] < MaxCalls
    /\ \E c \in Menu[w] : Enter(w, c, << >>, promised)
    /\ issued' = [issued EXCEPT ![w] = @ + 1]
    /\ UNCHANGED <<store, faults>>

-----------------------------------------------------------------------------
Goto(w, at) == reqs' = [reqs EXCEPT ![w].at = at] /\ UNCHANGED promised

Loop(w, at, sizes) ==
    reqs' = [reqs EXCEPT ![w].at = at, ![w].todo = sizes] /\ UNCHANGED promised

Size(w) == Min(reqs[w].todo)

Rest(w) == reqs[w].todo \ {Size(w)}

(* On to the next size at the head of the loop, or past the loop.          *)
NextSize(w, head, after) == Loop(w, IF Rest(w) = {} THEN after ELSE head, Rest(w))

(* The answers: the call is done, or it raised.  The loop of a batch takes *)
(* either as the status of one document and turns to the next.             *)
Content(c) == IF c.op = "put" THEN c.text ELSE None

Proceed(w, kept) ==
    IF reqs[w].rest = << >>
    THEN reqs' = [reqs EXCEPT ![w] = None] /\ promised' = kept
    ELSE Enter(w, Head(reqs[w].rest), Tail(reqs[w].rest), kept)

Return(w) ==
    Proceed(w, [d \in Docs |-> IF reqs[w].alone /\ Writes(reqs[w].call, d)
                               THEN {Content(reqs[w].call)} ELSE promised[d]])

Abort(w) == reqs' = [reqs EXCEPT ![w] = None] /\ UNCHANGED promised

(* Mutant: no exception is caught in the loop.                             *)
RaiseThrough(w) == Abort(w)

Raise(w) == Proceed(w, promised)

Fault(w) == faults < MaxFaults /\ faults' = faults + 1 /\ Raise(w)

(* A call that fails before it takes effect: StoreError, EmbedderError, or *)
(* a refusal before the first call.                                        *)
Broken(w) == w \in Busy /\ Fault(w) /\ UNCHANGED <<store, issued>>

(* The server is killed and started again: no request outlives that, and   *)
(* the store keeps what it was told.                                       *)
Crash ==
    /\ Busy # {} /\ faults < MaxFaults
    /\ faults' = faults + 1
    /\ reqs' = [w \in Workers |-> None]
    /\ UNCHANGED <<store, issued, promised>>

(* What follows a write: its answer arrives, or is lost.                   *)
Answered(w, next) ==
    /\ \/ next /\ UNCHANGED faults
       \/ Fault(w)
    /\ UNCHANGED issued

-----------------------------------------------------------------------------
InitService ==
    /\ meta \in Initially
    /\ docs = [d \in Docs |-> IF meta # None THEN Stock[d] ELSE None]
    /\ colls = [s \in Sizes |->
                  IF meta # None /\ s \in meta.sizes
                  THEN [dim |-> meta.dim, indexed |-> TRUE,
                        points |-> UNION {Points(d, docs[d], {s}) :
                                             d \in {e \in Docs : docs[e] # None}}]
                  ELSE None]
    /\ shared = [n \in {"meta", "docs"} |->
                   IF meta = None THEN None ELSE IF n = "docs" THEN DocFields ELSE {}]
    /\ issued = [w \in Workers |-> 0]
    /\ reqs = [w \in Workers |-> None]
    /\ faults = 0
    /\ promised = [d \in Docs |-> {docs[d]}]
=============================================================================
