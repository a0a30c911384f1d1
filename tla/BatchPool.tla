----------------------------- MODULE BatchPool -----------------------------
(***************************************************************************)
(* processObjects (internal/lfs/handler.go:223-242): the goroutine of the  *)
(* Batch request hands the indices of the objects to workers over an       *)
(* unbuffered channel, closes it, waits for the workers and returns.  The  *)
(* workers write disjoint slots of one shared slice without a lock.        *)
(*                                                                         *)
(* An object is its index.  What becomes of it (processObject) depends on  *)
(* what the bucket and the presigner answer for it; Transfer models that   *)
(* decision, here it is Verdict.  A panic in a worker ends the process,    *)
(* since Middleware recovers those of its own goroutine only; the deferred *)
(* Done runs before, so that Wait may still return meanwhile.              *)
(***************************************************************************)
EXTENDS Integers, FiniteSets

CONSTANTS
  MaxObjects,    \* bound on a batch (config.MaximumBatchObjects)
  Concurrency,   \* h.concurrency
  Unset          \* a slot still holding its zero value

ASSUME MaxObjectsAssumption == MaxObjects \in Nat
\* New (handler.go:70-73) replaces every other value by a positive default.
ASSUME ConcurrencyAssumption == Concurrency \in Nat \ {0}

Answer == {"found", "not found", "unavailable"}

VARIABLES
  count,     \* len(input)
  sender,    \* the request's goroutine: "send", "wait", "returned", or
             \* "crashed" with the whole process
  next,      \* index it offers next; count + 1 when the loop is over
  closed,    \* close(jobs) was called
  worker,    \* worker[w]: "receive", "head", "finish", "exited", "panicked"
  item,      \* item[w]: the index w took from the channel
  head,      \* head[i]: the answer to the HEAD of object i, once it came
  output,    \* the shared slice
  observed   \* how often observeObject was called

vars == <<count, sender, next, closed, worker, item, head, output, observed>>

MinOf(a, b) == IF a < b THEN a ELSE b
MaxOf(a, b) == IF a > b THEN a ELSE b

\* min(h.concurrency, max(1, len(input))): at least one, if only to exit.
WorkerCount(n) == MinOf(Concurrency, MaxOf(1, n))

Worker == 1..WorkerCount(count)

\* Distinguishes the objects: each result carries the object it belongs to.
Verdict(i, a) == [object |-> i, answer |-> a]
Result == [object : 1..MaxObjects, answer : Answer]

\* A result names its object (processObject), which the zero value does not.
ASSUME UnsetAssumption == Unset \notin Answer \cup Result

Init ==
  /\ count \in 0..MaxObjects
  /\ sender = "send"
  /\ next = 1
  /\ closed = FALSE
  /\ worker = [w \in Worker |-> "receive"]
  /\ item = [w \in Worker |-> 0]
  /\ head = [i \in 1..count |-> Unset]
  /\ output = [i \in 1..count |-> Unset]
  /\ observed = 0

-----------------------------------------------------------------------------
\* (mutant) The last index is offered, then one more.
RemainingOneMore == next <= count + 1

\* The sender's range over input is not over.
Remaining == next <= count

\* (mutant) An index may be offered twice.
HandOverAgain(w) ==
  /\ sender = "send"
  /\ Remaining
  /\ worker[w] = "receive"
  /\ item' = [item EXCEPT ![w] = next]
  /\ worker' = [worker EXCEPT ![w] = "head"]
  /\ next' \in {next, next + 1}
  /\ UNCHANGED <<count, sender, closed, head, output, observed>>

\* jobs <- job: sender and receiver meet, the channel holds nothing.
HandOver(w) ==
  /\ sender = "send"
  /\ Remaining
  /\ worker[w] = "receive"
  /\ item' = [item EXCEPT ![w] = next]
  /\ worker' = [worker EXCEPT ![w] = "head"]
  /\ next' = next + 1
  /\ UNCHANGED <<count, sender, closed, head, output, observed>>

\* (mutant) The channel is left open.
CloseForgotten ==
  /\ sender = "send"
  /\ ~Remaining
  /\ sender' = "wait"
  /\ UNCHANGED <<count, next, closed, worker, item, head, output, observed>>

Close ==
  /\ sender = "send"
  /\ ~Remaining
  /\ closed' = TRUE
  /\ sender' = "wait"
  /\ UNCHANGED <<count, next, worker, item, head, output, observed>>

\* workers.Wait()
Return ==
  /\ sender = "wait"
  /\ \A w \in Worker : worker[w] \in {"exited", "panicked"}
  /\ sender' = "returned"
  /\ UNCHANGED <<count, next, closed, worker, item, head, output, observed>>

Running == sender # "crashed"

\* processObject's HEAD returns: any answer, in any order among the workers.
HeadReturns(w) ==
  /\ Running
  /\ worker[w] = "head"
  /\ \E a \in Answer : head' = [head EXCEPT ![item[w]] = a]
  /\ worker' = [worker EXCEPT ![w] = "finish"]
  /\ UNCHANGED <<count, sender, next, closed, item, output, observed>>

\* (mutant) The index last handed out, shared by all workers.
SlotShared(w) == next - 1

Slot(w) == item[w]

\* The rest of processObject, and the assignment to output.
Finish(w) ==
  /\ Running
  /\ worker[w] = "finish"
  /\ output' = [output EXCEPT ![Slot(w)] = Verdict(item[w], head[item[w]])]
  /\ observed' = observed + 1
  /\ worker' = [worker EXCEPT ![w] = "receive"]
  /\ UNCHANGED <<count, sender, next, closed, item, head>>

\* The range loop ends when the channel is closed and drained.
Exit(w) ==
  /\ Running
  /\ worker[w] = "receive"
  /\ closed
  /\ worker' = [worker EXCEPT ![w] = "exited"]
  /\ UNCHANGED <<count, sender, next, closed, item, head, output, observed>>

\* (mutant) The worker recovers its panic, and its slot stays as it is.
PanicRecovered(w) ==
  /\ Running
  /\ worker[w] \in {"head", "finish"}
  /\ worker' = [worker EXCEPT ![w] = "exited"]
  /\ UNCHANGED <<count, sender, next, closed, item, head, output, observed>>

\* processObject panics, and the deferred Done runs.
Panic(w) ==
  /\ Running
  /\ worker[w] \in {"head", "finish"}
  /\ worker' = [worker EXCEPT ![w] = "panicked"]
  /\ UNCHANGED <<count, sender, next, closed, item, head, output, observed>>

\* The runtime ends the process.
Die ==
  /\ Running
  /\ \E w \in Worker : worker[w] = "panicked"
  /\ sender' = "crashed"
  /\ UNCHANGED <<count, next, closed, worker, item, head, output, observed>>

Next ==
  \/ Close \/ Return \/ Die
  \/ \E w \in Worker : \/ HandOver(w) \/ HeadReturns(w) \/ Finish(w) \/ Exit(w)
                       \/ Panic(w)

(***************************************************************************)
(* The Go scheduler runs every goroutine that can run.  That a HEAD        *)
(* returns is an assumption about the network and S3, which the code does  *)
(* not secure: the client towards S3 has no timeout (s3store.go:64), and   *)
(* the server's WriteTimeout does not end the request's context.           *)
(***************************************************************************)
Fairness ==
  /\ WF_vars(Close)
  /\ WF_vars(Return)
  /\ WF_vars(Die)
  /\ WF_vars(\E w \in Worker : HandOver(w))
  /\ \A w \in 1..Concurrency :
       WF_vars(w \in Worker /\ (HeadReturns(w) \/ Finish(w) \/ Exit(w)))

Spec == Init /\ [][Next]_vars
LiveSpec == Spec /\ Fairness

-----------------------------------------------------------------------------
TypeOK ==
  /\ count \in 0..MaxObjects
  /\ sender \in {"send", "wait", "returned", "crashed"}
  /\ next \in 1..(count + 1)
  /\ closed \in BOOLEAN
  /\ worker \in [Worker -> {"receive", "head", "finish", "exited", "panicked"}]
  /\ item \in [Worker -> 0..count]
  /\ head \in [1..count -> Answer \cup {Unset}]
  /\ output \in [1..count -> Result \cup {Unset}]
  /\ observed \in Nat

(***************************************************************************)
(* Every filled slot holds the verdict on its own object, from that        *)
(* object's own HEAD: a failing neighbour or a faster worker cannot leak   *)
(* into it (handler.go:232; architecture.md:42, "returned as per-object    *)
(* errors so successful objects are preserved").                           *)
(***************************************************************************)
OwnVerdict ==
  \A i \in 1..count :
    output[i] # Unset => /\ head[i] # Unset
                         /\ output[i] = Verdict(i, head[i])

(***************************************************************************)
(* No two workers hold the same object, and none holds one that has its    *)
(* verdict: the unsynchronised writes to output and each metric increment  *)
(* happen once per object.                                                 *)
(***************************************************************************)
Busy(w) == worker[w] \in {"head", "finish"}

OneWorkerPerObject ==
  /\ \A v, w \in Worker : Busy(v) /\ Busy(w) /\ item[v] = item[w] => v = w
  /\ \A w \in Worker : Busy(w) => output[item[w]] = Unset
  /\ observed = Cardinality({i \in 1..count : output[i] # Unset})

(***************************************************************************)
(* The pool does all the objects, each once, none after it has returned,   *)
(* and does return: no send to a channel nobody receives from, no worker   *)
(* waited for that cannot exit, even for an empty batch (handler.go:227).  *)
(* Only in a process that is about to end, of a worker's panic, may it     *)
(* return with a slot that has no verdict: no panic is survived that left  *)
(* one (handler.go:230).                                                   *)
(***************************************************************************)
Outcome ==
  IF \E w \in Worker : worker[w] = "panicked" THEN "crashed"
  ELSE IF sender = "returned" THEN sender ELSE "none"

Contract == INSTANCE BatchContract WITH outcome <- Outcome

ImplementsBatchContract == Contract!Spec
=============================================================================
