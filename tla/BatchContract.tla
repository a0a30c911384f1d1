--------------------------- MODULE BatchContract ---------------------------
(***************************************************************************)
(* What the Batch handler relies on of processObjects: every object of the *)
(* request is answered exactly once, in any order, and nothing is answered *)
(* after the call has returned; it returns when all are answered, and only *)
(* then.  It may crash before, which is the end of the process: nothing is *)
(* relied on from there on.                                                *)
(***************************************************************************)
EXTENDS Naturals

CONSTANTS MaxObjects, Result, Unset

VARIABLES
  count, output,
  outcome       \* "none" yet, "returned" or "crashed"

vars == <<count, output, outcome>>

Init ==
  /\ count \in 0..MaxObjects
  /\ output = [i \in 1..count |-> Unset]
  /\ outcome = "none"

Answer(i) ==
  /\ outcome # "returned"
  /\ output[i] = Unset
  /\ \E r \in Result : output' = [output EXCEPT ![i] = r]
  /\ UNCHANGED <<count, outcome>>

Return ==
  /\ outcome = "none"
  /\ \A i \in 1..count : output[i] # Unset
  /\ outcome' = "returned"
  /\ UNCHANGED <<count, output>>

\* Some object has no answer yet: it is the one that is worked on.
Crash ==
  /\ outcome = "none"
  /\ \E i \in 1..count : output[i] = Unset
  /\ outcome' = "crashed"
  /\ UNCHANGED <<count, output>>

Next == (\E i \in 1..count : Answer(i)) \/ Return \/ Crash

Spec == Init /\ [][Next]_vars /\ WF_vars(outcome = "none" /\ Next)
=============================================================================
