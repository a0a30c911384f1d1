----------------------------- MODULE AuthCache -----------------------------
(***************************************************************************)
(* internal/authcache/cache.go as its callers see it: any number of        *)
(* goroutines call Get and Put, each under c.mu, while time passes.        *)
(*                                                                         *)
(* last and newer are history variables: no action reads them.  They are   *)
(* the state of CacheContract, which the cache is shown to implement.      *)
(***************************************************************************)
EXTENDS AuthCacheData

CONSTANT MaxTime    \* bound on the clock

ASSUME MaxTimeAssumption == MaxTime \in Nat

VARIABLES cache, now, reply, last, newer

vars == <<cache, now, reply, last, newer>>

Contract == INSTANCE CacheContract

Init ==
  /\ cache = EmptyCache
  /\ Contract!Init

\* Get, return at line 87.
GetHit(k) ==
  /\ Fresh(cache, k, now)
  /\ cache' = AfterHit(cache, k)
  /\ reply' = Contract!Hit(k, cache.items[k].value)
  /\ Contract!Use(k)
  /\ UNCHANGED <<now, last>>

\* Get, returns at lines 79 (no entry) and 84 (entry expired and removed).
GetMiss(k) ==
  /\ ~Fresh(cache, k, now)
  /\ cache' = AfterMiss(cache, k)
  /\ reply' = Contract!Miss(k)
  /\ UNCHANGED <<now, last, newer>>

Put(k, v) ==
  /\ cache' = AfterPut(cache, k, v, now)
  /\ reply' = Contract!NoReply
  /\ last' = [last EXCEPT ![k] = {[value |-> v, at |-> now]}]
  /\ Contract!Use(k)
  /\ UNCHANGED now

Tick ==
  /\ now < MaxTime
  /\ now' = now + 1
  /\ UNCHANGED <<cache, reply, last, newer>>

Next ==
  \/ \E k \in Key : GetHit(k) \/ GetMiss(k)
  \/ \E k \in Key, v \in Value : Put(k, v)
  \/ Tick

Spec == Init /\ [][Next]_vars

-----------------------------------------------------------------------------
TypeOK ==
  /\ IsCache(cache)
  /\ now \in Nat
  /\ last \in [Key -> SUBSET [value : Value, at : Nat]]
  /\ newer \in [Key -> SUBSET Key]

(***************************************************************************)
(* The map and the list hold exactly the same keys, each once, and never   *)
(* more than Capacity of them: Put's insertion, Put's eviction and the     *)
(* removal of an expired entry each change both (cache.go:103-107,         *)
(* 120-126).  If they drift apart, evictions stop bounding the map.        *)
(***************************************************************************)
ListMatchesMap ==
  /\ Linked(cache)
  /\ Len(cache.lru) <= Capacity

(***************************************************************************)
(* The list is in the order of last use (MoveToFront at lines 86 and 100,  *)
(* PushFront at 103), over any sequence of hits, refreshes, expiries and   *)
(* evictions: the key at the back really is the least recently used one.   *)
(***************************************************************************)
RecencyOrder ==
  \A i, j \in 1..Len(cache.lru) :
    i < j => cache.lru[i] \in newer[cache.lru[j]]

(***************************************************************************)
(* Every entry is the last Put of its key, with the expiry that Put gave   *)
(* it: a hit extends nothing, a refresh leaves nothing of the old entry    *)
(* (lines 96-99).                                                          *)
(***************************************************************************)
EntriesAreLastPuts ==
  \A k \in DOMAIN cache.items :
    last[k] = {[value |-> cache.items[k].value,
                at |-> cache.items[k].expiresAt - TTL]}

\* A key that was Put and is not in the map was forgotten for a reason.
ForgottenWithReason ==
  \A k \in Key \ DOMAIN cache.items : Contract!MayForget(k)

FiniteUse == \A k \in Key : IsFiniteSet(newer[k])

\* The inductive invariant behind the theorems of AuthCacheProofs.
Inv ==
  /\ TypeOK
  /\ ListMatchesMap
  /\ RecencyOrder
  /\ EntriesAreLastPuts
  /\ ForgottenWithReason
  /\ FiniteUse

(***************************************************************************)
(* The cache keeps its contract: a hit returns the last Put within TTL of  *)
(* that Put (a hit extends nothing), a live key is forgotten only after    *)
(* Capacity other keys were used.                                          *)
(***************************************************************************)
ImplementsContract == Contract!Spec
=============================================================================
