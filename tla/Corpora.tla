------------------------------- MODULE Corpora -------------------------------
(***************************************************************************)
(* The corpus service over the Qdrant adapter: create and drop             *)
(* (service/corpora.py, stores/qdrant.py).                                 *)
(*                                                                         *)
(* create   probe, (bootstrap, see Startup), check, (exists, make, index)*,*)
(*          save                                                           *)
(* drop     config, reread, (present, remove)*, clear, erase               *)
(*                                                                         *)
(* A starred group is run for each size of the grid.                       *)
(***************************************************************************)
EXTENDS Startup

-----------------------------------------------------------------------------
Free == meta = None

ProbeDimension(w) ==
    /\ At(w, "create", "probe")
    /\ Goto(w, "see meta")
    /\ UNCHANGED <<store, issued, faults>>

CheckName(w) ==
    /\ At(w, "create", "check") /\ Free
    /\ Loop(w, "exists", reqs[w].call.config.sizes)
    /\ UNCHANGED <<store, issued, faults>>

(* Mutant: the loop ends at the first collection there is.                 *)
CollectionExistsStops(w) ==
    /\ At(w, "create", "exists")
    /\ IF colls[Size(w)] = None THEN Goto(w, "make") ELSE Loop(w, "save", {})
    /\ UNCHANGED <<store, issued, faults>>

CollectionExists(w) ==
    /\ At(w, "create", "exists")
    /\ IF colls[Size(w)] = None THEN Goto(w, "make") ELSE NextSize(w, "exists", "save")
    /\ UNCHANGED <<store, issued, faults>>

MakeCollection(w) ==
    /\ At(w, "create", "make") /\ colls[Size(w)] = None
    /\ CreateCollection(Size(w), reqs[w].call.config.dim)
    /\ Answered(w, Goto(w, "index"))

IndexCollection(w) ==
    /\ At(w, "create", "index") /\ colls[Size(w)] # None
    /\ CreateIndex(Size(w))
    /\ Answered(w, NextSize(w, "exists", "save"))

SaveConfig(w) ==
    /\ At(w, "create", "save")
    /\ WriteMeta(reqs[w].call.config)
    /\ Answered(w, Return(w))

Create(w) ==
    \/ ProbeDimension(w) \/ Bootstrap(w) \/ CheckName(w) \/ CollectionExists(w)
    \/ MakeCollection(w) \/ IndexCollection(w) \/ SaveConfig(w)

-----------------------------------------------------------------------------
DropConfig(w) ==
    /\ At(w, "drop", "config") /\ meta # None
    /\ Goto(w, "reread")
    /\ UNCHANGED <<store, issued, faults>>

DropCorpus(w) ==
    /\ At(w, "drop", "reread") /\ meta # None
    /\ Loop(w, "present", meta.sizes)
    /\ UNCHANGED <<store, issued, faults>>

CollectionPresent(w) ==
    /\ At(w, "drop", "present")
    /\ IF colls[Size(w)] # None THEN Goto(w, "remove") ELSE NextSize(w, "present", "clear")
    /\ UNCHANGED <<store, issued, faults>>

RemoveCollection(w) ==
    /\ At(w, "drop", "remove")
    /\ DeleteCollection(Size(w))
    /\ Answered(w, NextSize(w, "present", "clear"))

ClearRegistry(w) ==
    /\ At(w, "drop", "clear")
    /\ PurgeRegistry
    /\ Answered(w, Goto(w, "erase"))

EraseConfig(w) ==
    /\ At(w, "drop", "erase")
    /\ WriteMeta(None)
    /\ Answered(w, Return(w))

Drop(w) ==
    \/ DropConfig(w) \/ DropCorpus(w) \/ CollectionPresent(w)
    \/ RemoveCollection(w) \/ ClearRegistry(w) \/ EraseConfig(w)

-----------------------------------------------------------------------------
(* The calls that raise: the name is taken, a rival made or removed the    *)
(* collection in between, no such corpus.                                  *)
RefusedCorpus(w) ==
    /\ w \in Busy /\ reqs[w].call.op \in {"create", "drop"}
    /\ LET at == reqs[w].at
       IN  \/ at = "check" /\ ~ Free
           \/ at = "make" /\ colls[Size(w)] # None
           \/ at = "index" /\ colls[Size(w)] = None
           \/ at \in {"config", "reread"} /\ meta = None
    /\ Raise(w)
    /\ UNCHANGED <<store, issued, faults>>
=============================================================================
