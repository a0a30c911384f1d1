--------------------------- MODULE AuthCacheData ---------------------------
(***************************************************************************)
(* The data structure of internal/authcache/cache.go: a map from the HMAC  *)
(* of (token, owner, repository) to an entry, and a doubly linked list of  *)
(* the same keys, most recently used first.  Get and Put hold c.mu from    *)
(* their first access to the end, so each is one step for its callers and  *)
(* is described here by what it makes of the whole structure.              *)
(*                                                                         *)
(* A cache is a record: items is the map (a function on the cached keys),  *)
(* lru the list (a sequence of keys, front first).  Nothing in this        *)
(* representation keeps the two in step; the code has to.                  *)
(***************************************************************************)
EXTENDS Integers, SequencesExt

CONSTANTS
  Key,        \* cache keys; c.key maps (token, owner, repository) to one
  Value,      \* what is cached: a forge.Authorization
  Capacity,   \* the bound on the number of entries
  TTL         \* lifetime of an entry, in clock units

\* New (cache.go:54) refuses any other value.
ASSUME CapacityAssumption == Capacity \in Nat \ {0}
ASSUME TTLAssumption == TTL \in Nat \ {0}

Entry == [value : Value, expiresAt : Nat]

IsCache(c) ==
  /\ c = [items |-> c.items, lru |-> c.lru]
  /\ DOMAIN c.items \subseteq Key
  /\ c.items \in [DOMAIN c.items -> Entry]
  /\ c.lru \in Seq(Key)

EmptyCache == [items |-> [k \in {} |-> 0], lru |-> << >>]

\* The map and the list hold the same keys, the list each of them once.
Linked(c) ==
  /\ IsInjective(c.lru)
  /\ ToSet(c.lru) = DOMAIN c.items

-----------------------------------------------------------------------------
Holds(c, k) == k \in DOMAIN c.items

\* (mutant) Not yet after expiresAt.
FreshAtExpiry(c, k, t) == Holds(c, k) /\ t <= c.items[k].expiresAt

\* clock().Before(expiresAt): an entry is already dead at its expiry instant.
Fresh(c, k, t) == Holds(c, k) /\ t < c.items[k].expiresAt

\* The list element that items[k] points to.
Position(s, k) == CHOOSE i \in 1..Len(s) : s[i] = k

Unlinked(s, k) == RemoveAt(s, Position(s, k))

MovedToFront(s, k) == <<k>> \o Unlinked(s, k)

\* Both of remove's statements: delete from the map, unlink from the list.
RemoveEntry(c, k) ==
  [items |-> [j \in DOMAIN c.items \ {k} |-> c.items[j]],
   lru   |-> Unlinked(c.lru, k)]

-----------------------------------------------------------------------------
\* (mutant) A hit without MoveToFront: first in, first out.
AfterHitUnmoved(c, k) == c

\* A hit moves the entry to the front and leaves its expiry alone.
AfterHit(c, k) == [items |-> c.items, lru |-> MovedToFront(c.lru, k)]

\* A miss drops the entry it found, if there was one: it has expired.
AfterMiss(c, k) == IF Holds(c, k) THEN RemoveEntry(c, k) ELSE c

Written(items, k, v, t) ==
  [j \in DOMAIN items \cup {k} |->
     IF j = k THEN [value |-> v, expiresAt |-> t + TTL] ELSE items[j]]

Refreshed(c, k, v, t) ==
  [items |-> Written(c.items, k, v, t), lru |-> MovedToFront(c.lru, k)]

Inserted(c, k, v, t) ==
  [items |-> Written(c.items, k, v, t), lru |-> <<k>> \o c.lru]

\* (mutant) Eviction starts one entry late.
TrimmedLate(c) ==
  IF Len(c.lru) > Capacity + 1 THEN RemoveEntry(c, Last(c.lru)) ELSE c

Trimmed(c) ==
  IF Len(c.lru) > Capacity THEN RemoveEntry(c, Last(c.lru)) ELSE c

AfterPut(c, k, v, t) ==
  IF Holds(c, k) THEN Refreshed(c, k, v, t) ELSE Trimmed(Inserted(c, k, v, t))
=============================================================================
