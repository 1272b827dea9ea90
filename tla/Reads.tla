--------------------------------- MODULE Reads ---------------------------------
(***************************************************************************)
(* Requests that only read, while the clients of Lifecycle write.  As      *)
(* there, a step ends with an await, and the writers' steps come between.  *)
(*                                                                         *)
(* at       the await the request stands at, or how it ended: answered,    *)
(*          refused (no such corpus), unavailable (a dependency failed)    *)
(* config   the CorpusConfig its service read                              *)
(* waiting  the sizes whose search is under way                            *)
(* found    the hits of each size that answered, best first                *)
(* todo     the sizes its running loop has left, in ascending order        *)
(* source   the points it has fetched by id                                *)
(* counts   the points of each size it has counted                         *)
(* total    the registered documents it has counted                        *)
(* faulty   the sizes it was told are missing or of another dimension      *)
(* record   the registry entry it has read                                 *)
(* listed   the documents it has listed, in order                          *)
(* cursor   where its next page starts, or None                            *)
(*                                                                         *)
(* steady, findable and lost are history: the content of each document no  *)
(* write has touched since the request began, the documents that had text  *)
(* all along, and whether a fetch failed.                                  *)
(***************************************************************************)
EXTENDS Lifecycle, Fusion

CONSTANTS
    Readers,    \* clients that read
    Asks,       \* what they ask: [op, ...]
    MaxReads    \* bound: how often each of them asks

ASSUME ReadsAssumption ==
    /\ IsFiniteSet(Docs)
    /\ \A t \in Texts : Len(t) = 0 => t = << >>
    /\ \A a \in Asks : (a.op = "query" => a.k \in Nat) /\ (a.op = "get" => a.doc \in Docs)

VARIABLES
    asked,      \* how many requests each reader has issued
    reads       \* its request, under way or ended, or None

readVars == <<asked, reads>>

allVars == <<vars, asked, reads>>

-----------------------------------------------------------------------------
Ended == {"answered", "refused", "unavailable"}

Reading == {r \in Readers : reads[r] # None /\ reads[r].at \notin Ended}

Stands(r, op, at) == r \in Reading /\ reads[r].ask.op = op /\ reads[r].at = at

Done(r, op) == reads[r] # None /\ reads[r].ask.op = op /\ reads[r].at = "answered"

HasText(c) == c \notin {None, << >>}

(* The document has text, and at most an undisturbed put replaces it.      *)
Findable ==
    {d \in Docs :
        \/ \E c \in promised[d] : HasText(c)
        \/ \E w \in Busy : /\ reqs[w].call.op = "put" /\ reqs[w].call.doc = d
                           /\ reqs[w].alone /\ HasText(reqs[w].call.text)
                           /\ \E c \in reqs[w].was : HasText(c)}

Ask(r) ==
    /\ r \notin Reading /\ asked[r] < MaxReads
    /\ \E a \in Asks :
       reads' = [reads EXCEPT ![r] =
           [ask |-> a, at |-> "config", config |-> None, waiting |-> {}, found |-> << >>,
            todo |-> {}, source |-> {}, counts |-> << >>, total |-> 0,
            faulty |-> {}, record |-> None, listed |-> << >>, cursor |-> None,
            steady |-> promised, findable |-> Findable, lost |-> FALSE]]
    /\ asked' = [asked EXCEPT ![r] = @ + 1]
    /\ UNCHANGED vars

(* A step of a writer, and what the readers' history makes of it.          *)
Write ==
    /\ Next
    /\ reads' = [r \in Readers |->
          IF r \in Reading
          THEN [reads[r] EXCEPT !.findable = @ \cap Findable',
                                !.steady = [d \in Docs |-> @[d] \cap promised'[d]]]
          ELSE reads[r]]
    /\ UNCHANGED asked

-----------------------------------------------------------------------------
Becomes(r, read) == reads' = [reads EXCEPT ![r] = read] /\ UNCHANGED asked

MoveTo(r, at) == Becomes(r, [reads[r] EXCEPT !.at = at])

(* The corpus config is read, and an unknown corpus refused.               *)
ReadConfig(r, next) ==
    /\ IF meta = None THEN MoveTo(r, "refused") ELSE next
    /\ UNCHANGED vars

(* A dictionary with one key set.                                          *)
Assign(f, key, value) == [k \in DOMAIN f \cup {key} |-> IF k = key THEN value ELSE f[k]]

Smallest(r) == Min(reads[r].todo)

Others(r) == reads[r].todo \ {Smallest(r)}

(* A backend call or the embedder fails: StoreError, EmbedderError.        *)
Fails(next) ==
    /\ faults < MaxFaults
    /\ faults' = faults + 1
    /\ next
    /\ UNCHANGED <<store, issued, reqs, promised>>

InitReads ==
    /\ InitService
    /\ asked = [r \in Readers |-> 0]
    /\ reads = [r \in Readers |-> None]
=============================================================================
