------------------------------- MODULE Providers -------------------------------
(***************************************************************************)
(* The two HTTP embedders (embed/ollama.py, embed/openai_compat.py).       *)
(*                                                                         *)
(* Ollama has a batch endpoint, which old servers answer with 404; at any  *)
(* 404 the embedder asks the legacy endpoint, prompt by prompt, and does   *)
(* so for every later request of every call.  An OpenAI-compatible server  *)
(* may answer the items of a batch in any order, with their places.        *)
(***************************************************************************)
EXTENDS Batching

VARIABLES
    provider,   \* which embedder the server runs, and against what
    legacy,     \* _use_legacy_endpoint
    misses      \* history: the 404s each call has met

vars == <<batching, provider, legacy, misses>>

-----------------------------------------------------------------------------
(* One attempt begins, with nothing left of an earlier one.                *)
Post(c, b) ==
    /\ Ready(c, b)
    /\ Moved(c, b, [tasks[c][b] EXCEPT !.at = IF legacy THEN "prompt" ELSE "posted",
                                       !.got = << >>])
    /\ UNCHANGED <<calls, vectors, faults, provider, legacy, misses>>

Finished(c, b, got) ==
    /\ Moved(c, b, [tasks[c][b] EXCEPT !.at = "done", !.got = got])
    /\ UNCHANGED <<calls, vectors, faults, provider, legacy, misses>>

(* A current Ollama server answers the batch as it was sent.               *)
OllamaAnswers(c, b) ==
    /\ provider = "ollama" /\ tasks[c][b].at = "posted"
    /\ Finished(c, b, Batch(c, b))

(* A 404: an old one does not know the endpoint, or a current one has not  *)
(* got the model, and is then asked at the legacy endpoint all the same.   *)
(* Mutant: that is not remembered.                                         *)
NotFoundForgotten(c, b) ==
    /\ provider # "openai_compat" /\ tasks[c][b].at = "posted"
    /\ Moved(c, b, [tasks[c][b] EXCEPT !.at = "prompt"])
    /\ misses' = [misses EXCEPT ![c] = @ + 1]
    /\ UNCHANGED <<calls, vectors, faults, provider, legacy>>

NotFound(c, b) ==
    /\ provider # "openai_compat" /\ tasks[c][b].at = "posted"
    /\ Moved(c, b, [tasks[c][b] EXCEPT !.at = "prompt"])
    /\ legacy' = TRUE
    /\ misses' = [misses EXCEPT ![c] = @ + 1]
    /\ UNCHANGED <<calls, vectors, faults, provider>>

PromptAnswered(c, b) ==
    /\ tasks[c][b].at = "prompt"
    /\ LET n == Len(tasks[c][b].got) + 1
           got == Append(tasks[c][b].got, Batch(c, b)[n])
       IN  IF n = Len(Batch(c, b)) THEN Finished(c, b, got)
           ELSE /\ Moved(c, b, [tasks[c][b] EXCEPT !.got = got])
                /\ UNCHANGED <<calls, vectors, faults, provider, legacy, misses>>

(* The orders in which a list of n items can be.                           *)
Orders(n) == Bijection(1 .. n, 1 .. n)

(* The order that sorts these by their index.                              *)
Sorting(items) ==
    CHOOSE p \in Orders(Len(items)) :
        \A i, j \in DOMAIN items : i < j => items[p[i]].index < items[p[j]].index

(* _extract: the items sorted by their index.  Mutant: as they came.       *)
ExtractUnsorted(items) == [i \in DOMAIN items |-> items[i].vector]

Extract(items) == [i \in DOMAIN items |-> items[Sorting(items)[i]].vector]

OpenAIAnswers(c, b) ==
    /\ provider = "openai_compat" /\ tasks[c][b].at = "posted"
    /\ \E order \in Orders(Len(Batch(c, b))) :
          Finished(c, b, Extract([i \in DOMAIN Batch(c, b) |->
              [index |-> order[i], vector |-> Batch(c, b)[order[i]]]]))

Refused(c, b) ==
    /\ FailsInPassing(c, b) \/ FailsForGood(c, b) \/ Undecodable(c, b)
    /\ UNCHANGED <<provider, legacy, misses>>

-----------------------------------------------------------------------------
TaskStep(c, b) ==
    \/ Post(c, b) \/ OllamaAnswers(c, b) \/ NotFound(c, b) \/ PromptAnswered(c, b)
    \/ OpenAIAnswers(c, b) \/ Refused(c, b)

CallStep(c) == (Start(c) \/ Return(c)) /\ UNCHANGED <<provider, legacy, misses>>

Next == \E c \in Calls :
    \/ CallStep(c)
    \/ \E b \in Batches(c) : TaskStep(c, b)

Init ==
    /\ InitBatching
    /\ provider \in {"ollama", "old ollama", "openai_compat"}
    /\ legacy = FALSE
    /\ misses = [c \in Calls |-> 0]

Spec == Init /\ [][Next]_vars

(* Every request is answered or times out (httpx, timeout_s), a backoff    *)
(* ends, and the event loop runs what is ready.                            *)
FairSpec ==
    /\ Spec
    /\ \A c \in Calls :
          /\ WF_vars(CallStep(c))
          /\ \A b \in Batches(c) : WF_vars(TaskStep(c, b))

-----------------------------------------------------------------------------
(* A call that returns gives one vector for each text, in input order,     *)
(* whatever order batches and items came back in, through which endpoint   *)
(* and at which attempt (embed/__init__.py Embedder.embed).                *)
InputOrder == \A c \in Calls :
    calls[c] = "returned" => vectors[c] = [i \in 1 .. TextCount[c] |-> i]

(* A call fails only if one answer was beyond repair or as many attempts   *)
(* as retry_attempts failed: a server that lacks the batch endpoint is no  *)
(* failure, nor is a 404 met halfway (ollama.py _request_batch).           *)
FailsForAReason == (\E c \in Calls : calls[c] = "failed") =>
    faults["lasting"] > 0 \/ faults["passing"] >= Attempts

(* The downgrade is remembered: a call meets no more 404s than it has      *)
(* requests under way at a time, however many batches it has.              *)
FewMisses == \A c \in Calls : misses[c] <= MaxConcurrency

(* Every call ends, and so does every batch, also those of a call that     *)
(* has failed already: no permit is lost (embed/__init__.py _map_batches). *)
Drains == \A c \in Calls :
    /\ calls[c] = "running" ~> calls[c] # "running"
    /\ \A b \in Batches(c) : tasks[c][b].at = "queued"
                                ~> tasks[c][b].at \in {"done", "failed", "stray"}
=============================================================================
