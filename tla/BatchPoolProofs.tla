-------------------------- MODULE BatchPoolProofs --------------------------
(***************************************************************************)
(* The worker pool for batches of any length, any number of workers and    *)
(* any order of the bucket's answers: every object has its own verdict,    *)
(* and processObjects returns with all of them, or the process ends of a   *)
(* worker's panic.                                                         *)
(***************************************************************************)
EXTENDS BatchPool, FiniteSetTheorems, TLAPS

\* What a worker holds was handed out, and is answered when it finishes.
HeldItems ==
  \A w \in Worker :
    /\ Busy(w) => item[w] \in 1..(next - 1)
    /\ worker[w] = "finish" => head[item[w]] \in Answer

\* Of the objects handed out none is lost but with a panic, and no other is
\* touched.
Holds(w) == Busy(w) \/ worker[w] = "panicked"

NoneLost ==
  \A i \in 1..count :
    /\ i < next => output[i] # Unset \/ \E w \in Worker : Holds(w) /\ item[w] = i
    /\ i >= next => output[i] = Unset

\* The channel is closed after the last index, and drained before Return.
Closing ==
  /\ sender = "send" => ~closed
  /\ sender \in {"wait", "returned"} => closed
  /\ closed => next = count + 1
  /\ \A w \in Worker : worker[w] = "exited" => closed
  /\ sender = "returned" => \A w \in Worker : worker[w] \in {"exited", "panicked"}

IInv ==
  /\ TypeOK
  /\ OwnVerdict
  /\ OneWorkerPerObject
  /\ HeldItems
  /\ NoneLost
  /\ Closing

Filled == {i \in 1..count : output[i] # Unset}

\* The pool of n workers, of which there is at least one.
LEMMA WorkersLemma ==
  ASSUME count \in Nat
  PROVE  /\ WorkerCount(count) \in Nat \ {0}
         /\ Worker # {}
  BY ConcurrencyAssumption DEF WorkerCount, MinOf, MaxOf, Worker

LEMMA FilledFinite ==
  ASSUME count \in Nat
  PROVE  IsFiniteSet(Filled) /\ Cardinality(Filled) \in Nat
<1>1. IsFiniteSet(1..count)
  BY FS_Interval
<1>2. IsFiniteSet(Filled)
  BY <1>1, FS_Subset DEF Filled
<1> QED BY <1>2, FS_CardinalityType

\* No worker has anything at first.
LEMMA InitIInv == Init => IInv
<1> SUFFICES ASSUME Init PROVE IInv
  OBVIOUS
<1>1. TypeOK
  <2>1. count \in Nat /\ 0 \in 0..count /\ 1 \in 1..(count + 1)
    BY MaxObjectsAssumption DEF Init
  <2>2. /\ worker \in [Worker -> {"receive", "head", "finish", "exited", "panicked"}]
        /\ item \in [Worker -> 0..count]
    BY <2>1 DEF Init
  <2>3. /\ head \in [1..count -> Answer \cup {Unset}]
        /\ output \in [1..count -> Result \cup {Unset}]
    BY DEF Init
  <2> QED BY <2>1, <2>2, <2>3 DEF Init, TypeOK
<1>3. OwnVerdict /\ HeldItems /\ NoneLost
  BY MaxObjectsAssumption DEF Init, OwnVerdict, HeldItems, NoneLost, Holds, Busy
<1>4. Closing
  BY DEF Init, Closing
<1>2. OneWorkerPerObject
  <2>1. {i \in 1..count : output[i] # Unset} = {}
    BY DEF Init
  <2> QED BY <2>1, FS_EmptySet DEF Init, OneWorkerPerObject, Busy
<1> QED BY <1>1, <1>2, <1>3, <1>4 DEF IInv

-----------------------------------------------------------------------------
(* The steps                                                               *)

LEMMA HandOverKeeps ==
  ASSUME IInv, NEW w \in Worker, HandOver(w)
  PROVE  IInv'
<1> USE DEF IInv, TypeOK
<1>0. Worker' = Worker /\ count \in Nat /\ next \in 1..count /\ worker[w] = "receive"
  BY MaxObjectsAssumption DEF HandOver, Remaining, Worker
<1>1. TypeOK'
  BY <1>0 DEF HandOver
<1>2. OwnVerdict'
  BY DEF HandOver, OwnVerdict
<1>3. OneWorkerPerObject'
  <2>1. \A v \in Worker : Busy(v)' => v = w \/ (Busy(v) /\ item'[v] = item[v])
    BY <1>0 DEF HandOver, Busy
  <2>2. \A v \in Worker : Busy(v) => item[v] # next
    BY <1>0 DEF HeldItems
  <2>3. item'[w] = next /\ output' = output /\ count' = count /\ observed' = observed
    BY <1>0 DEF HandOver
  <2>4. output[next] = Unset
    BY <1>0 DEF NoneLost
  <2>5. \A u, v \in Worker : Busy(u)' /\ Busy(v)' /\ item'[u] = item'[v] => u = v
    BY <2>1, <2>2, <2>3 DEF OneWorkerPerObject
  <2>6. \A v \in Worker : Busy(v)' => output[item'[v]] = Unset
    BY <2>1, <2>3, <2>4 DEF OneWorkerPerObject
  <2>7. observed = Cardinality(Filled) /\ Filled' = Filled
    BY <2>3 DEF OneWorkerPerObject, Filled
  <2> QED BY <1>0, <2>3, <2>5, <2>6, <2>7 DEF OneWorkerPerObject, Filled
<1>4. HeldItems'
  BY <1>0 DEF HandOver, HeldItems, Busy
<1>5. NoneLost'
  <2> SUFFICES ASSUME NEW i \in 1..count
               PROVE  /\ i < next' => \/ output[i] # Unset
                                      \/ \E v \in Worker : Holds(v)' /\ item'[v] = i
                      /\ i >= next' => output[i] = Unset
    BY <1>0 DEF NoneLost, HandOver
  <2>1. next' = next + 1 /\ item'[w] = next /\ Holds(w)' /\ ~Holds(w)
    BY <1>0 DEF HandOver, Holds, Busy
  <2>2. \A v \in Worker : Holds(v) => Holds(v)' /\ item'[v] = item[v]
    BY <1>0, <2>1 DEF HandOver, Holds, Busy
  <2> QED BY <1>0, <2>1, <2>2 DEF NoneLost
<1>6. Closing'
  BY <1>0 DEF HandOver, Closing
<1> QED BY <1>1, <1>2, <1>3, <1>4, <1>5, <1>6

LEMMA HeadReturnsKeeps ==
  ASSUME IInv, NEW w \in Worker, HeadReturns(w)
  PROVE  IInv'
<1> USE DEF IInv, TypeOK
<1>0. /\ Worker' = Worker /\ count \in Nat
      /\ Busy(w) /\ item[w] \in 1..count /\ output[item[w]] = Unset
  BY MaxObjectsAssumption DEF HeadReturns, Worker, Busy, HeldItems, OneWorkerPerObject
<1>1. PICK a \in Answer : head' = [head EXCEPT ![item[w]] = a]
  BY DEF HeadReturns
<1>2. \A v \in Worker : (Busy(v)' <=> Busy(v)) /\ (Holds(v)' <=> Holds(v))
  BY <1>0 DEF HeadReturns, Holds, Busy
<1>3. TypeOK'
  BY <1>0, <1>1 DEF HeadReturns
<1>4. OwnVerdict'
  BY <1>0, <1>1 DEF HeadReturns, OwnVerdict
<1>5. OneWorkerPerObject'
  BY <1>0, <1>2 DEF HeadReturns, OneWorkerPerObject
<1>6. HeldItems'
  BY <1>0, <1>1, <1>2 DEF HeadReturns, HeldItems, Busy
<1>7. NoneLost'
  BY <1>0, <1>2 DEF HeadReturns, NoneLost
<1>8. Closing'
  BY <1>0 DEF HeadReturns, Closing
<1> QED BY <1>3, <1>4, <1>5, <1>6, <1>7, <1>8

\* What Finish writes, and where.
LEMMA FinishShape ==
  ASSUME IInv, NEW w \in Worker, Finish(w)
  PROVE  /\ Worker' = Worker /\ count' = count /\ count \in 0..MaxObjects
         /\ item[w] \in 1..count /\ output[item[w]] = Unset
         /\ head[item[w]] \in Answer
         /\ Verdict(item[w], head[item[w]]) \in Result
         /\ Verdict(item[w], head[item[w]]) # Unset
         /\ output' = [output EXCEPT ![item[w]] = Verdict(item[w], head[item[w]])]
<1>1. Busy(w) /\ count \in 0..MaxObjects /\ next \in 1..(count + 1)
  BY DEF Finish, Busy, IInv, TypeOK
<1>2. item[w] \in 1..count /\ item[w] \in 1..MaxObjects
  BY <1>1, MaxObjectsAssumption DEF IInv, HeldItems
<1>3. output[item[w]] = Unset /\ head[item[w]] \in Answer
  BY <1>1 DEF IInv, HeldItems, OneWorkerPerObject, Finish
<1>4. Verdict(item[w], head[item[w]]) \in Result
  BY <1>2, <1>3 DEF Verdict, Result
<1> QED BY <1>1, <1>2, <1>3, <1>4, UnsetAssumption DEF Finish, Slot, Worker

LEMMA FinishKeeps ==
  ASSUME IInv, NEW w \in Worker, Finish(w)
  PROVE  IInv'
<1> DEFINE v0 == Verdict(item[w], head[item[w]])
<1> USE DEF IInv, TypeOK
<1>0. /\ Worker' = Worker /\ count' = count /\ count \in Nat
      /\ item[w] \in 1..count /\ output[item[w]] = Unset
      /\ v0 \in Result /\ v0 # Unset
      /\ output' = [output EXCEPT ![item[w]] = v0]
      /\ output \in [1..count -> Result \cup {Unset}]
  BY FinishShape, MaxObjectsAssumption
<1> HIDE DEF v0
<1>1. \A v \in Worker : /\ Busy(v)' <=> Busy(v) /\ v # w
                        /\ Holds(v)' <=> Holds(v) /\ v # w
  BY <1>0 DEF Finish, Holds, Busy
<1>2. \A v \in Worker : Busy(v) /\ v # w => item[v] # item[w]
  BY DEF Finish, Busy, OneWorkerPerObject
<1>3. TypeOK'
  BY <1>0 DEF Finish
<1>4. OwnVerdict'
  <2>1. head' = head /\ head[item[w]] # Unset
    BY FinishShape, UnsetAssumption DEF Finish
  <2>2. \A i \in 1..count : output'[i] = IF i = item[w] THEN v0 ELSE output[i]
    BY <1>0
  <2> QED BY <1>0, <2>1, <2>2 DEF OwnVerdict, v0, Verdict
<1>5. OneWorkerPerObject'
  <2>1. Filled' = Filled \cup {item[w]} /\ item[w] \notin Filled
    BY <1>0 DEF Filled
  <2>2. Cardinality(Filled') = Cardinality(Filled) + 1
    BY <1>0, <2>1, FilledFinite, FS_AddElement
  <2>3. observed' = Cardinality(Filled')
    BY <2>2 DEF Finish, OneWorkerPerObject, Filled
  <2>4. \A u, v \in Worker : Busy(u)' /\ Busy(v)' /\ item'[u] = item'[v] => u = v
    BY <1>1 DEF Finish, OneWorkerPerObject
  <2>5. \A v \in Worker : Busy(v)' => output'[item'[v]] = Unset
    BY <1>0, <1>1, <1>2 DEF Finish, OneWorkerPerObject, HeldItems
  <2> QED BY <1>0, <2>3, <2>4, <2>5 DEF OneWorkerPerObject, Filled
<1>6. HeldItems'
  BY <1>0, <1>1 DEF Finish, HeldItems, Busy
<1>7. NoneLost'
  <2> SUFFICES ASSUME NEW i \in 1..count
               PROVE  /\ i < next => \/ output'[i] # Unset
                                     \/ \E v \in Worker : Holds(v)' /\ item[v] = i
                      /\ i >= next => output'[i] = Unset
    BY <1>0 DEF NoneLost, Finish
  <2>1. CASE i = item[w]
    BY <1>0, <2>1 DEF HeldItems, Finish, Busy
  <2>2. CASE i # item[w]
    BY <1>0, <1>1, <2>2 DEF NoneLost
  <2> QED BY <2>1, <2>2
<1>8. Closing'
  BY <1>0 DEF Finish, Closing
<1> QED BY <1>3, <1>4, <1>5, <1>6, <1>7, <1>8

LEMMA ExitKeeps ==
  ASSUME IInv, NEW w \in Worker, Exit(w)
  PROVE  IInv'
<1> USE DEF IInv, TypeOK
<1>0. Worker' = Worker
  BY DEF Exit, Worker
<1>1. \A v \in Worker : (Busy(v)' <=> Busy(v)) /\ (Holds(v)' <=> Holds(v))
  BY <1>0 DEF Exit, Holds, Busy
<1>2. TypeOK' /\ OwnVerdict' /\ Closing'
  BY <1>0 DEF Exit, OwnVerdict, Closing
<1>3. OneWorkerPerObject' /\ NoneLost'
  BY <1>0, <1>1 DEF Exit, OneWorkerPerObject, NoneLost
<1>4. HeldItems'
  BY <1>0, <1>1 DEF Exit, HeldItems
<1> QED BY <1>2, <1>3, <1>4

LEMMA PanicKeeps ==
  ASSUME IInv, NEW w \in Worker, Panic(w)
  PROVE  IInv'
<1> USE DEF IInv, TypeOK
<1>0. Worker' = Worker
  BY DEF Panic, Worker
<1>1. \A v \in Worker : (Busy(v)' => Busy(v)) /\ (Holds(v)' <=> Holds(v))
  BY <1>0 DEF Panic, Holds, Busy
<1>2. TypeOK' /\ OwnVerdict'
  BY <1>0 DEF Panic, OwnVerdict
<1>3. OneWorkerPerObject' /\ NoneLost'
  BY <1>0, <1>1 DEF Panic, OneWorkerPerObject, NoneLost
<1>4. HeldItems'
  BY <1>0, <1>1 DEF Panic, HeldItems
<1>5. Closing'
  BY <1>0 DEF Panic, Closing
<1> QED BY <1>2, <1>3, <1>4, <1>5

\* The request's goroutine closes the channel and returns, or dies.
LEMMA SenderKeeps ==
  ASSUME IInv, Close \/ Return \/ Die
  PROVE  IInv'
<1>0. Worker' = Worker /\ UNCHANGED <<count, next, worker, item, head, output, observed>>
  BY DEF Close, Return, Die, Worker
<1>1. TypeOK'
  BY <1>0 DEF IInv, TypeOK, Close, Return, Die
<1>2. OwnVerdict' /\ OneWorkerPerObject' /\ HeldItems' /\ NoneLost'
  BY <1>0 DEF IInv, OwnVerdict, OneWorkerPerObject, HeldItems, NoneLost, Holds, Busy
<1>3. Closing'
  BY <1>0, MaxObjectsAssumption DEF IInv, TypeOK, Closing, Close, Return, Die, Remaining
<1> QED BY <1>1, <1>2, <1>3 DEF IInv

LEMMA StepIInv == IInv /\ [Next]_vars => IInv'
<1> SUFFICES ASSUME IInv, [Next]_vars PROVE IInv'
  OBVIOUS
<1>1. CASE UNCHANGED vars
  BY <1>1 DEF vars, IInv, TypeOK, OwnVerdict, OneWorkerPerObject, HeldItems,
              NoneLost, Closing, Holds, Busy, Worker
<1>2. CASE Close \/ Return \/ Die
  BY <1>2, SenderKeeps
<1>3. ASSUME NEW w \in Worker,
             HandOver(w) \/ HeadReturns(w) \/ Finish(w) \/ Exit(w) \/ Panic(w)
      PROVE  IInv'
  BY <1>3, HandOverKeeps, HeadReturnsKeeps, FinishKeeps, ExitKeeps, PanicKeeps
<1> QED BY <1>1, <1>2, <1>3 DEF Next

-----------------------------------------------------------------------------
(***************************************************************************)
(* Items, answers and verdicts stay within the batch: the slice is never   *)
(* indexed outside its length (processObjects, handler.go:223-242).        *)
(***************************************************************************)
THEOREM PoolType == Spec => []TypeOK
<1>1. IInv => TypeOK
  BY DEF IInv
<1> QED BY <1>1, InitIInv, StepIInv, PTL DEF Spec

(***************************************************************************)
(* A slot of the shared slice holds the verdict on its own object and that *)
(* object's own answer (handler.go:233).                                   *)
(***************************************************************************)
THEOREM VerdictsAreOwn == Spec => []OwnVerdict
<1>1. IInv => OwnVerdict
  BY DEF IInv
<1> QED BY <1>1, InitIInv, StepIInv, PTL DEF Spec

(***************************************************************************)
(* The unsynchronised writes do not meet: one worker for each object, one  *)
(* write, one observation (handler.go:230-239).                            *)
(***************************************************************************)
THEOREM WorkersNeverMeet == Spec => []OneWorkerPerObject
<1>1. IInv => OneWorkerPerObject
  BY DEF IInv
<1> QED BY <1>1, InitIInv, StepIInv, PTL DEF Spec

Panicked == \E w \in Worker : worker[w] = "panicked"

\* When processObjects returns every object has its verdict.
LEMMA ReturnIsComplete ==
  ASSUME IInv, Return, ~Panicked
  PROVE  \A i \in 1..count : output[i] # Unset
<1>1. closed /\ \A w \in Worker : ~Holds(w)
  BY DEF IInv, Closing, Return, Holds, Busy, Panicked
<1>2. \A i \in 1..count : i < next
  BY <1>1, MaxObjectsAssumption DEF IInv, Closing, TypeOK
<1> QED BY <1>1, <1>2 DEF IInv, NoneLost

(***************************************************************************)
(* The safety part of ImplementsBatchContract: every object is answered    *)
(* once, in any order, none after the return, which comes with the last,   *)
(* unless a worker has panicked (handler.go:223-242).                      *)
(***************************************************************************)
THEOREM PoolImplementsContract ==
  Spec => Contract!Init /\ [][Contract!Next]_(Contract!vars)
<1>0. \/ Panicked /\ Outcome = "crashed"
      \/ ~Panicked /\ sender = "returned" /\ Outcome = "returned"
      \/ ~Panicked /\ sender # "returned" /\ Outcome = "none"
  BY DEF Outcome, Panicked
<1>1. Init => Contract!Init
  BY <1>0 DEF Init, Contract!Init, Panicked
<1>2. ASSUME IInv, [Next]_vars PROVE [Contract!Next]_(Contract!vars)
  <2>0. /\ UNCHANGED <<worker, Worker>> => (Panicked' <=> Panicked)
        /\ (Panicked' <=> Panicked) /\ (sender' = "returned" <=> sender = "returned")
             => Outcome' = Outcome
    BY DEF Panicked, Outcome
  <2>1. CASE UNCHANGED vars
    BY <2>0, <2>1 DEF vars, Contract!vars, Worker
  <2>2. CASE Close
    BY <2>0, <2>2 DEF Close, Contract!vars, Worker
  <2>3. CASE Return
    <3>1. Panicked' <=> Panicked
      BY <2>0, <2>3 DEF Return, Worker
    <3>2. sender = "wait" /\ sender' = "returned" /\ UNCHANGED <<count, output>>
      BY <2>3 DEF Return
    <3>3. CASE Panicked
      <4>1. Outcome' = Outcome
        BY <3>1, <3>3 DEF Outcome, Panicked
      <4> QED BY <3>2, <4>1 DEF Contract!vars
    <3>4. CASE ~Panicked
      <4>1. Outcome = "none" /\ Outcome' = "returned"
        BY <3>1, <3>2, <3>4 DEF Outcome, Panicked
      <4> QED BY <1>2, <2>3, <3>2, <3>4, <4>1, ReturnIsComplete
              DEF Contract!Next, Contract!Return
    <3> QED BY <3>3, <3>4
  <2>4. CASE Die
    <3>1. Panicked /\ Panicked' /\ UNCHANGED <<count, output>>
      BY <2>4 DEF Die, Panicked, Worker
    <3>2. Outcome' = Outcome
      BY <3>1 DEF Outcome, Panicked
    <3> QED BY <3>1, <3>2 DEF Contract!vars
  <2>5. ASSUME NEW w \in Worker, Finish(w) PROVE Contract!Next
    <3>1. sender # "returned" /\ UNCHANGED <<count, sender>> /\ Worker' = Worker
      BY <1>2, <2>5 DEF IInv, Closing, Finish, Worker
    <3>2. Panicked' <=> Panicked
      BY <1>2, <2>5, <3>1 DEF Finish, Panicked, IInv, TypeOK
    <3>3. Outcome' = Outcome /\ Outcome # "returned"
      BY <1>0, <2>0, <3>1, <3>2
    <3> QED BY <1>2, <2>5, <3>1, <3>3, FinishShape DEF Contract!Next, Contract!Answer
  <2>6. ASSUME NEW w \in Worker, HandOver(w) \/ HeadReturns(w) \/ Exit(w)
        PROVE  UNCHANGED Contract!vars
    <3>1. UNCHANGED <<count, output, sender>> /\ Worker' = Worker
      BY <2>6 DEF HandOver, HeadReturns, Exit, Worker
    <3>2. Panicked' <=> Panicked
      BY <1>2, <2>6, <3>1 DEF HandOver, HeadReturns, Exit, Panicked, IInv, TypeOK
    <3> QED BY <2>0, <3>1, <3>2 DEF Contract!vars
  <2>7. ASSUME NEW w \in Worker, Panic(w)
        PROVE  [Contract!Next]_(Contract!vars)
    <3>1. /\ UNCHANGED <<count, output>> /\ Worker' = Worker
          /\ worker'[w] = "panicked" /\ sender # "returned" /\ Busy(w)
      BY <1>2, <2>7 DEF Panic, IInv, TypeOK, Closing, Busy, Worker
    <3>2. Outcome' = "crashed" /\ Outcome \in {"none", "crashed"}
      BY <3>1 DEF Outcome
    <3>3. item[w] \in 1..count /\ output[item[w]] = Unset
      BY <1>2, <3>1, MaxObjectsAssumption DEF IInv, TypeOK, HeldItems, OneWorkerPerObject
    <3>4. CASE Outcome = "crashed"
      BY <3>1, <3>2, <3>4 DEF Contract!vars
    <3>5. CASE Outcome = "none"
      BY <3>1, <3>2, <3>3, <3>5 DEF Contract!Next, Contract!Crash
    <3> QED BY <3>2, <3>4, <3>5
  <2> QED BY <1>2, <2>1, <2>2, <2>3, <2>4, <2>5, <2>6, <2>7 DEF Next
<1> QED BY <1>1, <1>2, InitIInv, StepIInv, PTL DEF Spec

-----------------------------------------------------------------------------
(* Termination                                                             *)

\* The statements a worker is away from its exit, and the sender from its
\* return, after which the process may still end.
ToExit == [receive |-> 1, finish |-> 2, head |-> 3, exited |-> 0, panicked |-> 0]
ToReturn == [send |-> 3, wait |-> 2, returned |-> 1, crashed |-> 0]

Steps == {s \in Worker \X (1..3) : s[2] <= ToExit[worker[s[1]]]}

\* What is left to do: three steps for each object not handed out, and so on.
Work == 3 * (count + 1 - next) + Cardinality(Steps) + ToReturn[sender]

\* The guard of some step of the pool holds.
SomeoneCanMove ==
  \/ sender = "send" /\ ~Remaining
  \/ sender = "send" /\ Remaining /\ \E w \in Worker : worker[w] = "receive"
  \/ sender = "wait" /\ \A w \in Worker : worker[w] \in {"exited", "panicked"}
  \/ \E w \in Worker : worker[w] \in {"head", "finish", "panicked"}
  \/ \E w \in Worker : worker[w] = "receive" /\ closed

NeverStuck == sender \notin {"returned", "crashed"} => SomeoneCanMove

WorkDecreases == [][{Work, Work'} \subseteq Nat /\ Work' < Work]_vars

LEMMA ToExitLemma ==
  /\ ToExit["receive"] = 1 /\ ToExit["finish"] = 2
  /\ ToExit["head"] = 3 /\ ToExit["exited"] = 0 /\ ToExit["panicked"] = 0
  /\ ToReturn["send"] = 3 /\ ToReturn["wait"] = 2 /\ ToReturn["returned"] = 1
  /\ ToReturn["crashed"] = 0
  BY DEF ToExit, ToReturn

LEMMA StepsFinite ==
  ASSUME TypeOK
  PROVE  IsFiniteSet(Steps) /\ Cardinality(Steps) \in Nat
<1>1. WorkerCount(count) \in Nat
  BY WorkersLemma, MaxObjectsAssumption DEF TypeOK
<1>2. IsFiniteSet(1..WorkerCount(count))
  BY <1>1, FS_Interval
<1>3. IsFiniteSet(Worker \X (1..3))
  <2>1. IsFiniteSet(1..3)
    <3>1. \A n \in Int : IsFiniteSet(1..n)
      BY FS_Interval
    <3>2. 3 \in Int
      OBVIOUS
    <3> QED BY <3>1, <3>2, Zenon
  <2> QED BY <1>2, <2>1, FS_Product DEF Worker
<1>4. IsFiniteSet(Steps)
  BY <1>3, FS_Subset DEF Steps
<1> QED BY <1>4, FS_CardinalityType

\* A worker that comes one statement nearer to its exit.
LEMMA OneStepLess ==
  ASSUME TypeOK, NEW w \in Worker, NEW k \in 1..3, NEW p,
         ToExit[worker[w]] = k, ToExit[p] = k - 1,
         worker' = [worker EXCEPT ![w] = p], Worker' = Worker
  PROVE  Cardinality(Steps') = Cardinality(Steps) - 1
<1>1. \A v \in Worker : worker'[v] = IF v = w THEN p ELSE worker[v]
  BY DEF TypeOK
<1>2. <<w, k>> \in Steps
  BY DEF Steps
<1>3. Steps' = Steps \ {<<w, k>>}
  <2>1. ASSUME NEW v \in Worker, NEW j \in 1..3
        PROVE  <<v, j>> \in Steps' <=> <<v, j>> \in Steps /\ <<v, j>> # <<w, k>>
    <3>1. <<v, j>> \in Steps' <=> j <= ToExit[worker'[v]]
      BY DEF Steps
    <3>2. <<v, j>> \in Steps <=> j <= ToExit[worker[v]]
      BY DEF Steps
    <3>3. CASE v = w
      BY <1>1, <3>1, <3>2, <3>3
    <3>4. CASE v # w
      BY <1>1, <3>1, <3>2, <3>4
    <3> QED BY <3>3, <3>4
  <2>2. Steps \subseteq Worker \X (1..3) /\ Steps' \subseteq Worker \X (1..3)
    BY DEF Steps
  <2>3. ASSUME NEW s \in Worker \X (1..3)
        PROVE  s \in Steps' <=> s \in Steps \ {<<w, k>>}
    <3>1. PICK v \in Worker, j \in 1..3 : s = <<v, j>>
      OBVIOUS
    <3>2. <<v, j>> \in Steps' <=> <<v, j>> \in Steps /\ <<v, j>> # <<w, k>>
      BY <2>1
    <3> QED BY <3>1, <3>2, Zenon
  <2> QED BY <2>2, <2>3
<1> QED BY <1>2, <1>3, StepsFinite, FS_RemoveElement

\* A worker that takes an object has two statements more before it.
LEMMA TwoStepsMore ==
  ASSUME TypeOK, NEW w \in Worker, worker[w] = "receive",
         worker' = [worker EXCEPT ![w] = "head"], Worker' = Worker
  PROVE  Cardinality(Steps') = Cardinality(Steps) + 2
<1>1. \A v \in Worker : worker'[v] = IF v = w THEN "head" ELSE worker[v]
  BY DEF TypeOK
<1> DEFINE S2 == Steps \cup {<<w, 2>>}
<1>2. <<w, 2>> \notin Steps /\ <<w, 3>> \notin S2
  BY ToExitLemma DEF Steps
<1>3. Steps' = S2 \cup {<<w, 3>>}
  <2>1. ASSUME NEW v \in Worker, NEW j \in 1..3
        PROVE  <<v, j>> \in Steps' <=> <<v, j>> \in S2 \cup {<<w, 3>>}
    <3>1. <<v, j>> \in Steps' <=> j <= ToExit[worker'[v]]
      BY DEF Steps
    <3>2. <<v, j>> \in Steps <=> j <= ToExit[worker[v]]
      BY DEF Steps
    <3>3. CASE v = w
      BY <1>1, <3>1, <3>2, <3>3, ToExitLemma
    <3>4. CASE v # w
      BY <1>1, <3>1, <3>2, <3>4
    <3> QED BY <3>3, <3>4
  <2>2. S2 \cup {<<w, 3>>} \subseteq Worker \X (1..3) /\ Steps' \subseteq Worker \X (1..3)
    BY DEF Steps
  <2>3. ASSUME NEW s \in Worker \X (1..3)
        PROVE  s \in Steps' <=> s \in S2 \cup {<<w, 3>>}
    <3>1. PICK v \in Worker, j \in 1..3 : s = <<v, j>>
      OBVIOUS
    <3>2. <<v, j>> \in Steps' <=> <<v, j>> \in S2 \cup {<<w, 3>>}
      BY <2>1
    <3> HIDE DEF S2
    <3> QED BY <3>1, <3>2, Zenon
  <2> QED BY <2>2, <2>3
<1>4. IsFiniteSet(Steps) /\ Cardinality(Steps) \in Nat
  BY StepsFinite
<1>5. IsFiniteSet(S2) /\ Cardinality(S2) = Cardinality(Steps) + 1
  BY <1>2, <1>4, FS_AddElement
<1> HIDE DEF S2
<1>6. Cardinality(Steps') = Cardinality(S2) + 1
  BY <1>2, <1>3, <1>5, FS_AddElement
<1> QED BY <1>4, <1>5, <1>6

\* A worker that panics has nothing more before it.
LEMMA NoStepLeft ==
  ASSUME TypeOK, NEW w \in Worker, worker[w] \in {"head", "finish"},
         worker' = [worker EXCEPT ![w] = "panicked"], Worker' = Worker
  PROVE  Cardinality(Steps') < Cardinality(Steps) /\ Cardinality(Steps') \in Nat
<1>1. \A v \in Worker : worker'[v] = IF v = w THEN "panicked" ELSE worker[v]
  BY DEF TypeOK
<1>2. Steps' \subseteq Steps
  <2>1. ASSUME NEW s \in Worker \X (1..3), s \in Steps' PROVE s \in Steps
    <3>1. PICK v \in Worker, j \in 1..3 : s = <<v, j>>
      OBVIOUS
    <3>2. j <= ToExit[worker'[v]]
      BY <2>1, <3>1 DEF Steps
    <3>3. v # w
      BY <1>1, <3>2, ToExitLemma
    <3>4. j <= ToExit[worker[v]]
      BY <1>1, <3>2, <3>3
    <3> QED BY <3>1, <3>4 DEF Steps
  <2> QED BY <2>1 DEF Steps
<1>3. <<w, 1>> \in Steps /\ <<w, 1>> \notin Steps'
  BY <1>1, ToExitLemma DEF Steps
<1>4. IsFiniteSet(Steps) /\ Cardinality(Steps) \in Nat
  BY StepsFinite
<1>5. IsFiniteSet(Steps') /\ Cardinality(Steps') <= Cardinality(Steps)
      /\ (Cardinality(Steps') = Cardinality(Steps) => Steps' = Steps)
  BY <1>2, <1>4, FS_Subset
<1>6. Cardinality(Steps') \in Nat
  BY <1>5, FS_CardinalityType
<1> QED BY <1>3, <1>4, <1>5, <1>6

LEMMA WorkIsNat == TypeOK => Work \in Nat
<1> SUFFICES ASSUME TypeOK PROVE Work \in Nat
  OBVIOUS
<1>1. count \in Nat /\ next \in 1..(count + 1)
  BY MaxObjectsAssumption DEF TypeOK
<1>2. ToReturn[sender] \in Nat
  BY ToExitLemma DEF TypeOK
<1> QED BY <1>1, <1>2, StepsFinite DEF Work

LEMMA WorkStep ==
  ASSUME IInv, Next
  PROVE  Work' < Work
<1>1. /\ TypeOK /\ count \in Nat /\ next \in Nat
      /\ Cardinality(Steps) \in Nat /\ ToReturn[sender] \in Nat
  BY StepsFinite, MaxObjectsAssumption, ToExitLemma DEF IInv, TypeOK
<1>2. CASE Close \/ Return \/ Die
  <2>1. Cardinality(Steps)' = Cardinality(Steps)
    BY <1>2 DEF Close, Return, Die, Steps, Worker
  <2>2. /\ count' = count /\ next' = next
        /\ ToReturn[sender'] \in Nat /\ ToReturn[sender'] < ToReturn[sender]
    BY <1>1, <1>2, ToExitLemma DEF Close, Return, Die, Running, TypeOK
  <2> QED BY <1>1, <2>1, <2>2 DEF Work
<1>3. ASSUME NEW w \in Worker, HandOver(w)
      PROVE  Work' < Work
  <2>1. Worker' = Worker
    BY <1>3 DEF HandOver, Worker
  <2>2. Cardinality(Steps)' = Cardinality(Steps) + 2
    BY <1>1, <1>3, <2>1, TwoStepsMore DEF HandOver
  <2>3. count' = count /\ next' = next + 1 /\ sender' = sender
    BY <1>3 DEF HandOver
  <2> QED BY <1>1, <2>2, <2>3 DEF Work
<1>4. ASSUME NEW w \in Worker, HeadReturns(w) \/ Finish(w) \/ Exit(w)
      PROVE  Work' < Work
  <2>1. Worker' = Worker /\ count' = count /\ next' = next /\ sender' = sender
    BY <1>4 DEF HeadReturns, Finish, Exit, Worker
  <2>2. \E k \in 1..3 : \E p :
          /\ ToExit[worker[w]] = k /\ ToExit[p] = k - 1
          /\ worker' = [worker EXCEPT ![w] = p]
    BY <1>4, ToExitLemma DEF HeadReturns, Finish, Exit
  <2>3. Cardinality(Steps)' = Cardinality(Steps) - 1
    BY <1>1, <2>1, <2>2, OneStepLess
  <2> QED BY <1>1, <2>1, <2>3 DEF Work
<1>5. ASSUME NEW w \in Worker, Panic(w)
      PROVE  Work' < Work
  <2>1. Worker' = Worker /\ count' = count /\ next' = next /\ sender' = sender
    BY <1>5 DEF Panic, Worker
  <2>2. Cardinality(Steps)' < Cardinality(Steps) /\ Cardinality(Steps)' \in Nat
    BY <1>1, <1>5, <2>1, NoStepLeft DEF Panic
  <2> QED BY <1>1, <2>1, <2>2 DEF Work
<1> QED BY <1>2, <1>3, <1>4, <1>5 DEF Next

(***************************************************************************)
(* Every step of the sender or of a worker leaves less to do, whichever is *)
(* scheduled and whatever the bucket answers: processObjects cannot go on  *)
(* for ever (handler.go:223-242).                                          *)
(***************************************************************************)
THEOREM PoolComesToAnEnd == Spec => WorkDecreases
<1>1. (TypeOK => Work \in Nat)'
  BY WorkIsNat, PTL
<1>2. IInv /\ IInv' /\ [Next]_vars => [{Work, Work'} \subseteq Nat /\ Work' < Work]_vars
  <2> SUFFICES ASSUME IInv, IInv', Next
               PROVE  Work \in Nat /\ Work' \in Nat /\ Work' < Work
    OBVIOUS
  <2>1. Work \in Nat
    BY WorkIsNat DEF IInv
  <2>2. Work' < Work
    BY WorkStep
  <2>3. Work' \in Nat
    BY <1>1 DEF IInv
  <2> QED BY <2>1, <2>2, <2>3
<1> QED BY <1>2, InitIInv, StepIInv, PTL DEF Spec, WorkDecreases

(***************************************************************************)
(* Nor can it stop before it returns: the sender finds a worker to receive *)
(* or one that is busy, and waits for none that cannot exit, even if there *)
(* are no objects; with a worker that panicked the process can end         *)
(* (handler.go:227-241).                                                   *)
(***************************************************************************)
THEOREM PoolNeverStuck == Spec => []NeverStuck
<1>1. IInv => NeverStuck
  <2> SUFFICES ASSUME IInv, sender \notin {"returned", "crashed"} PROVE SomeoneCanMove
    BY DEF NeverStuck
  <2>1. PICK w \in Worker : TRUE
    BY WorkersLemma, MaxObjectsAssumption DEF IInv, TypeOK
  <2>2. CASE sender = "send"
    <3>1. worker[w] # "exited"
      BY <2>2 DEF IInv, Closing
    <3>2. worker[w] \in {"receive", "head", "finish", "panicked"}
      BY <3>1 DEF IInv, TypeOK
    <3> QED BY <2>2, <3>2 DEF SomeoneCanMove
  <2>3. CASE sender = "wait"
    <3>1. closed
      BY <2>3 DEF IInv, Closing
    <3>2. \A v \in Worker : worker[v] \in {"receive", "head", "finish", "exited", "panicked"}
      BY DEF IInv, TypeOK
    <3> QED BY <2>3, <3>1, <3>2 DEF SomeoneCanMove
  <2> QED BY <2>2, <2>3 DEF IInv, TypeOK
<1> QED BY <1>1, InitIInv, StepIInv, PTL DEF Spec
=============================================================================
