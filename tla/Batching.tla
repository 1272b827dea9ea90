------------------------------- MODULE Batching -------------------------------
(***************************************************************************)
(* What the HTTP embedders share (embed/__init__.py): a call cuts its      *)
(* texts into batches, runs them as tasks under a semaphore of its own,    *)
(* repeats a batch that failed for a passing reason, and gathers the       *)
(* results.  Calls of one embedder run side by side.  gather lets a call   *)
(* fail with its first batch and does not stop the others, which go on     *)
(* for nobody.                                                             *)
(*                                                                         *)
(* A text is the number of its place in its call, and so is its vector.    *)
(* A batch is new, queued, posted (or at a prompt of the legacy endpoint,  *)
(* see Providers), maybe in backoff and posted again, and in the end done, *)
(* failed (EmbedderError) or stray (any other exception).                  *)
(***************************************************************************)
EXTENDS Integers, Sequences, FiniteSets, SequencesExt

CONSTANTS
    Calls,          \* calls of embed
    TextCount,      \* the number of texts of each
    BatchSize,      \* batch_size
    MaxConcurrency, \* max_concurrency
    Attempts,       \* retry_attempts
    MaxFaults       \* bound: how many requests fail

(* What the configuration of an embedder asks for.                         *)
ASSUME BatchingAssumption ==
    /\ TextCount \in [Calls -> Nat]
    /\ {BatchSize, MaxConcurrency, Attempts} \subseteq Nat \ {0}
    /\ MaxFaults \in Nat

VARIABLES
    calls,      \* idle, running, returned, failed or stray
    tasks,      \* the batches of each call: [at, attempts left, vectors got]
    vectors,    \* what it returned
    faults      \* history: how many requests failed for each reason

batching == <<calls, tasks, vectors, faults>>

-----------------------------------------------------------------------------
Batches(c) == 1 .. ((TextCount[c] + BatchSize - 1) \div BatchSize)

(* The texts of one batch, in order.                                       *)
Batch(c, b) ==
    LET first == (b - 1) * BatchSize
        rest == TextCount[c] - first
    IN  [i \in 1 .. (IF rest < BatchSize THEN rest ELSE BatchSize) |-> first + i]

Start(c) ==
    /\ calls[c] = "idle"
    /\ calls' = [calls EXCEPT ![c] = "running"]
    /\ tasks' = [tasks EXCEPT ![c] =
          [b \in Batches(c) |-> [tasks[c][b] EXCEPT !.at = "queued"]]]
    /\ UNCHANGED <<vectors, faults>>

Waiting == {"posted", "prompt"}

(* The batches that hold a permit of the semaphore, through their backoff  *)
(* too.  Mutant: a batch that fails never gives its permit back.           *)
HoldersForGood(c) == {b \in Batches(c) : tasks[c][b].at \notin {"queued", "done"}}

Holders(c) == {b \in Batches(c) : tasks[c][b].at \in Waiting \cup {"backoff"}}

(* A permit is free, and the batches before this one have had theirs.      *)
Admitted(c, b) ==
    /\ Cardinality(Holders(c)) < MaxConcurrency
    /\ \A a \in Batches(c) : a < b => tasks[c][a].at # "queued"

Moved(c, b, task) == tasks' = [tasks EXCEPT ![c][b] = task]

Ready(c, b) ==
    \/ tasks[c][b].at = "queued" /\ Admitted(c, b)
    \/ tasks[c][b].at = "backoff"

(* A batch ends with an exception: its call does, if it is the first.      *)
Throws(c, b, how) ==
    /\ Moved(c, b, [tasks[c][b] EXCEPT !.at = how])
    /\ calls' = [calls EXCEPT ![c] = IF @ = "running" THEN how ELSE @]

Counts(why) ==
    /\ faults["passing"] + faults["lasting"] + faults["stray"] < MaxFaults
    /\ faults' = [faults EXCEPT ![why] = @ + 1]
    /\ UNCHANGED vectors

(* A connection error, a timeout, a 429 or a 5xx.  Mutant: it gives up one *)
(* attempt early.                                                          *)
FailsInPassingEarly(c, b) ==
    /\ tasks[c][b].at \in Waiting
    /\ Counts("passing")
    /\ LET left == tasks[c][b].left - 1
       IN  \/ left <= 1 /\ Throws(c, b, "failed")
           \/ /\ left > 1 /\ UNCHANGED calls
              /\ Moved(c, b, [tasks[c][b] EXCEPT !.at = "backoff", !.left = left])

FailsInPassing(c, b) ==
    /\ tasks[c][b].at \in Waiting
    /\ Counts("passing")
    /\ LET left == tasks[c][b].left - 1
       IN  \/ left = 0 /\ Throws(c, b, "failed")
           \/ /\ left > 0 /\ UNCHANGED calls
              /\ Moved(c, b, [tasks[c][b] EXCEPT !.at = "backoff", !.left = left])

(* Any other status, or an answer that is not what was asked for.          *)
FailsForGood(c, b) ==
    /\ tasks[c][b].at \in Waiting
    /\ Counts("lasting")
    /\ Throws(c, b, "failed")

(* An answer that cannot be decoded: response.json and float raise what    *)
(* neither the retries nor the except clause around them know.             *)
Undecodable(c, b) ==
    /\ tasks[c][b].at \in Waiting
    /\ Counts("stray")
    /\ Throws(c, b, "stray")

(* The batches' vectors by the batches' places, whichever ended first.     *)
(* Mutant: the last batch first.                                           *)
InOrderBackwards(c) ==
    FlattenSeq(Reverse([b \in Batches(c) |-> tasks[c][b].got]))

InOrder(c) == FlattenSeq([b \in Batches(c) |-> tasks[c][b].got])

Return(c) ==
    /\ calls[c] = "running"
    /\ \A b \in Batches(c) : tasks[c][b].at = "done"
    /\ calls' = [calls EXCEPT ![c] = "returned"]
    /\ vectors' = [vectors EXCEPT ![c] = InOrder(c)]
    /\ UNCHANGED <<tasks, faults>>

InitBatching ==
    /\ calls = [c \in Calls |-> "idle"]
    /\ tasks = [c \in Calls |->
          [b \in Batches(c) |-> [at |-> "new", left |-> Attempts, got |-> << >>]]]
    /\ vectors = [c \in Calls |-> << >>]
    /\ faults = [why \in {"passing", "lasting", "stray"} |-> 0]
=============================================================================
