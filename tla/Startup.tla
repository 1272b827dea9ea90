------------------------------- MODULE Startup -------------------------------
(***************************************************************************)
(* What makes a deployment ready (service/core.py startup, which also      *)
(* answers every readiness request, and bootstrap of stores/qdrant.py,     *)
(* with which every create begins).                                        *)
(*                                                                         *)
(* health      ping, bootstrap, probe                                      *)
(* bootstrap   see meta, make meta, see docs, make docs, index*            *)
(*                                                                         *)
(* A create gives up when its bootstrap fails; a health check only notes   *)
(* it, and asks the embedder next.                                         *)
(***************************************************************************)
EXTENDS Service

-----------------------------------------------------------------------------
Booting(w, at) == w \in Busy /\ reqs[w].call.op \in {"create", "health"} /\ reqs[w].at = at

Booted(w) == IF reqs[w].call.op = "create" THEN "check" ELSE "probe"

(* Mutant: the ping has answered, so the store is up.                      *)
StoreIsDownUnsaid(w) ==
    /\ reqs' = [reqs EXCEPT ![w].at = "probe", ![w].todo = {}]
    /\ UNCHANGED promised

StoreIsDown(w) ==
    /\ reqs' = [reqs EXCEPT ![w].at = "probe", ![w].ok = FALSE, ![w].todo = {}]
    /\ UNCHANGED promised

BootFails(w) == IF reqs[w].call.op = "create" THEN Raise(w) ELSE StoreIsDown(w)

(* A change to the registry: its answer arrives, or is lost.               *)
Confirmed(w, next) ==
    /\ \/ next /\ UNCHANGED faults
       \/ faults < MaxFaults /\ faults' = faults + 1 /\ BootFails(w)
    /\ UNCHANGED issued

(* Mutant: a registry of configs means that the bootstrap has been done.   *)
SeeMetaOnly(w) ==
    /\ Booting(w, "see meta")
    /\ Goto(w, IF shared["meta"] # None THEN Booted(w) ELSE "make meta")
    /\ UNCHANGED <<store, issued, faults>>

SeeMeta(w) ==
    /\ Booting(w, "see meta")
    /\ Goto(w, IF shared["meta"] # None THEN "see docs" ELSE "make meta")
    /\ UNCHANGED <<store, issued, faults>>

MakeMeta(w) ==
    /\ Booting(w, "make meta") /\ shared["meta"] = None
    /\ CreateRegistry("meta")
    /\ Confirmed(w, Goto(w, "see docs"))

(* A collection that is there is looked into no further: what a bootstrap  *)
(* that was cut short left without its indexes stays without them.         *)
SeeDocs(w) ==
    /\ Booting(w, "see docs")
    /\ Goto(w, IF shared["docs"] # None THEN Booted(w) ELSE "make docs")
    /\ UNCHANGED <<store, issued, faults>>

MakeDocs(w) ==
    /\ Booting(w, "make docs") /\ shared["docs"] = None
    /\ CreateRegistry("docs")
    /\ Confirmed(w, Loop(w, "index docs", DocFields))

IndexDocs(w) ==
    /\ Booting(w, "index docs")
    /\ IndexRegistry("docs", Size(w))
    /\ Confirmed(w, NextSize(w, "index docs", Booted(w)))

(* A rival made the collection in between.                                 *)
BootRefused(w) ==
    /\ \/ Booting(w, "make meta") /\ shared["meta"] # None
       \/ Booting(w, "make docs") /\ shared["docs"] # None
    /\ BootFails(w)
    /\ UNCHANGED <<store, issued, faults>>

Bootstrap(w) ==
    \/ SeeMeta(w) \/ MakeMeta(w) \/ SeeDocs(w) \/ MakeDocs(w) \/ IndexDocs(w)
    \/ BootRefused(w)

-----------------------------------------------------------------------------
Ping(w) ==
    /\ At(w, "health", "ping")
    /\ Goto(w, "see meta")
    /\ UNCHANGED <<store, issued, faults>>

(* The ping, or a call of the bootstrap, fails before it takes effect.     *)
StoreFails(w) ==
    /\ w \in Busy /\ reqs[w].call.op = "health" /\ reqs[w].at # "probe"
    /\ faults < MaxFaults /\ faults' = faults + 1
    /\ StoreIsDown(w)
    /\ UNCHANGED <<store, issued>>

(* The embedder has answered, now or when it was asked before; the report  *)
(* says ok if the store was found in order too.                            *)
Report(w) ==
    /\ At(w, "health", "probe")
    /\ Return(w)
    /\ UNCHANGED <<store, issued, faults>>

Health(w) ==
    \/ Ping(w) \/ StoreFails(w) \/ Report(w)
    \/ w \in Busy /\ reqs[w].call.op = "health" /\ Bootstrap(w)
=============================================================================
