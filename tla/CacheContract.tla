--------------------------- MODULE CacheContract ---------------------------
(***************************************************************************)
(* What the rest of the program may rely on of the authorization cache,    *)
(* with no map, list or eviction in sight.                                 *)
(*                                                                         *)
(*   Freshness.  A hit returns the value of the LAST Put of the key, less  *)
(*               than TTL after that Put, however often it was hit since.  *)
(*   Retention.  A key misses only for a reason: never put, TTL over, or   *)
(*               at least Capacity other keys used since its own last use. *)
(***************************************************************************)
EXTENDS Integers, FiniteSets

CONSTANTS Key, Value, Capacity, TTL

VARIABLES
  last,    \* last[k]: the last Put of k, as a set of at most one record
  newer,   \* newer[k]: the keys put or hit since k was last put or hit
  now,
  reply    \* what the latest operation returned

vars == <<last, newer, now, reply>>

NoReply == [hit |-> FALSE]
Hit(k, v) == [hit |-> TRUE, key |-> k, value |-> v]
Miss(k) == [hit |-> FALSE, key |-> k]

Init ==
  /\ last = [k \in Key |-> {}]
  /\ newer = [k \in Key |-> {}]
  /\ now = 0
  /\ reply = NoReply

Use(k) == newer' = [j \in Key |-> IF j = k THEN {} ELSE newer[j] \cup {k}]

Live(k) == \E p \in last[k] : now < p.at + TTL

MayForget(k) == ~Live(k) \/ Cardinality(newer[k]) >= Capacity

GetHit(k) ==
  /\ Live(k)
  /\ \E p \in last[k] : reply' = Hit(k, p.value)
  /\ Use(k)
  /\ UNCHANGED <<last, now>>

GetMiss(k) ==
  /\ MayForget(k)
  /\ reply' = Miss(k)
  /\ UNCHANGED <<last, newer, now>>

Put(k, v) ==
  /\ last' = [last EXCEPT ![k] = {[value |-> v, at |-> now]}]
  /\ Use(k)
  /\ reply' = NoReply
  /\ UNCHANGED now

Advance == now' \in Nat /\ now' > now /\ UNCHANGED <<last, newer, reply>>

Next ==
  \/ \E k \in Key : GetHit(k) \/ GetMiss(k)
  \/ \E k \in Key, v \in Value : Put(k, v)
  \/ Advance

Spec == Init /\ [][Next]_vars
=============================================================================
