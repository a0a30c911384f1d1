-------------------------- MODULE AuthCacheProofs --------------------------
(***************************************************************************)
(* For every set of keys and values, capacity, TTL and length of run, the  *)
(* cache of AuthCache keeps its list and map in step and in order of use,  *)
(* and implements CacheContract.                                           *)
(***************************************************************************)
EXTENDS AuthCache, SequenceTheorems, FiniteSetTheorems, TLAPS

-----------------------------------------------------------------------------
(* What the operations of AuthCacheData make of a well-formed cache        *)

\* Unlinking a key keeps the other keys, each once and in their order: this
\* is list.Remove, and the first half of list.MoveToFront.
LEMMA UnlinkedLemma ==
  ASSUME NEW s \in Seq(Key), IsInjective(s), NEW k \in ToSet(s)
  PROVE  LET p == Position(s, k)
             u == Unlinked(s, k)
         IN  /\ p \in 1..Len(s) /\ s[p] = k
             /\ u \in Seq(Key)
             /\ Len(u) = Len(s) - 1
             /\ \A i \in 1..Len(u) : u[i] = IF i < p THEN s[i] ELSE s[i + 1]
             /\ IsInjective(u)
             /\ ToSet(u) = ToSet(s) \ {k}
<1> DEFINE p == Position(s, k)
           u == Unlinked(s, k)
           a == SubSeq(s, 1, p - 1)
           b == SubSeq(s, p + 1, Len(s))
<1>1. Len(s) \in Nat /\ DOMAIN s = 1..Len(s) /\ \A i \in 1..Len(s) : s[i] \in Key
  BY LenProperties, ElementOfSeq
<1>2. p \in 1..Len(s) /\ s[p] = k
  <2>1. \E i \in 1..Len(s) : s[i] = k
    BY <1>1 DEF ToSet
  <2> QED BY <2>1 DEF Position
<1>3. /\ a \in Seq(Key) /\ Len(a) = p - 1
      /\ \A i \in 1..(p - 1) : a[i] = s[i]
  <2>1. p - 1 \in 0..Len(s) /\ p - 1 \in Int
    BY <1>1, <1>2
  <2> HIDE DEF p
  <2> QED BY <1>1, <1>2, <2>1, SubSeqProperties
<1>4. /\ b \in Seq(Key) /\ Len(b) = Len(s) - p
      /\ \A i \in 1..(Len(s) - p) : b[i] = s[p + i]
  <2>1. p + 1 \in 1..(Len(s) + 1) /\ Len(s) \in (p + 1 - 1)..Len(s)
    BY <1>1, <1>2
  <2>2. /\ Len(b) = Len(s) - (p + 1) + 1
        /\ b \in Seq(Key)
        /\ \A i \in 1..(Len(s) - (p + 1) + 1) : b[i] = s[(p + 1) + i - 1]
    <3> HIDE DEF p
    <3> QED BY <2>1, SubSeqProperties
  <2>3. p \in Int
    BY <1>1, <1>2
  <2> HIDE DEF p, b
  <2> QED BY <1>1, <2>2, <2>3
<1>5. u = a \o b
  BY DEF Unlinked, RemoveAt
<1> HIDE DEF p, a, b, u
<1>6. u \in Seq(Key) /\ Len(u) = Len(s) - 1
  <2>1. u \in Seq(Key) /\ Len(u) = Len(a) + Len(b)
    BY <1>3, <1>4, <1>5, ConcatProperties
  <2> QED BY <1>1, <1>2, <1>3, <1>4, <2>1
<1>7. ASSUME NEW i \in 1..Len(u)
      PROVE  u[i] = IF i < p THEN s[i] ELSE s[i + 1]
  <2>1. u[i] = IF i <= Len(a) THEN a[i] ELSE b[i - Len(a)]
    BY <1>1, <1>2, <1>3, <1>4, <1>5, <1>6, ConcatProperties
  <2>2. CASE i < p
    BY <1>1, <1>2, <1>3, <1>6, <2>1, <2>2
  <2>3. CASE ~(i < p)
    <3>1. i - Len(a) \in 1..(Len(s) - p) /\ p + (i - Len(a)) = i + 1
      BY <1>1, <1>2, <1>3, <1>6, <2>3
    <3> QED BY <1>1, <1>2, <1>3, <1>4, <1>6, <2>1, <2>3, <3>1
  <2> QED BY <2>2, <2>3
<1>8. DOMAIN u = 1..Len(u)
  BY <1>6, LenProperties
<1>9. IsInjective(u)
  <2> SUFFICES ASSUME NEW i \in 1..Len(u), NEW j \in 1..Len(u), u[i] = u[j]
               PROVE  i = j
    BY <1>8 DEF IsInjective
  <2> DEFINE Src(x) == IF x < p THEN x ELSE x + 1
  <2>1. Src(i) \in 1..Len(s) /\ Src(j) \in 1..Len(s) /\ s[Src(i)] = s[Src(j)]
    BY <1>1, <1>2, <1>6, <1>7
  <2>2. Src(i) = Src(j)
    BY <1>1, <2>1 DEF IsInjective
  <2> QED BY <1>1, <1>2, <1>6, <2>2
<1>10. ToSet(u) = ToSet(s) \ {k}
  <2>1. ASSUME NEW x \in ToSet(u) PROVE x \in ToSet(s) \ {k}
    <3>1. PICK i \in 1..Len(u) : x = u[i]
      BY <1>8 DEF ToSet
    <3> DEFINE n == IF i < p THEN i ELSE i + 1
    <3>2. n \in 1..Len(s) /\ n # p /\ x = s[n]
      BY <1>1, <1>2, <1>6, <1>7, <3>1
    <3>3. s[n] # k
      BY <1>1, <1>2, <3>2 DEF IsInjective
    <3> QED BY <1>1, <3>2, <3>3 DEF ToSet
  <2>2. ASSUME NEW x \in ToSet(s) \ {k} PROVE x \in ToSet(u)
    <3>1. PICK i \in 1..Len(s) : x = s[i]
      BY <1>1 DEF ToSet
    <3> DEFINE n == IF i < p THEN i ELSE i - 1
    <3>2. i # p
      BY <1>2, <3>1
    <3>3. n \in 1..Len(u) /\ u[n] = x
      BY <1>1, <1>2, <1>6, <1>7, <3>1, <3>2
    <3> QED BY <1>8, <3>3 DEF ToSet
  <2> QED BY <2>1, <2>2
<1> QED BY <1>2, <1>6, <1>7, <1>9, <1>10 DEF p, u

\* Pushing a new key to the front: list.PushFront.
LEMMA PushFrontLemma ==
  ASSUME NEW s \in Seq(Key), IsInjective(s), NEW k \in Key, k \notin ToSet(s)
  PROVE  LET f == <<k>> \o s
         IN  /\ f \in Seq(Key)
             /\ Len(f) = Len(s) + 1
             /\ f[1] = k
             /\ \A i \in 2..Len(f) : f[i] = s[i - 1] /\ f[i] # k
             /\ IsInjective(f)
             /\ ToSet(f) = ToSet(s) \cup {k}
<1> DEFINE f == <<k>> \o s
<1>1. Len(s) \in Nat /\ DOMAIN s = 1..Len(s)
  BY LenProperties
<1>2. <<k>> \in Seq(Key) /\ Len(<<k>>) = 1 /\ <<k>>[1] = k
  OBVIOUS
<1>3. /\ f \in Seq(Key)
      /\ Len(f) = 1 + Len(s)
      /\ \A i \in 1..(1 + Len(s)) : f[i] = IF i <= 1 THEN <<k>>[i] ELSE s[i - 1]
  <2> DEFINE e == <<k>>
  <2>1. e \in Seq(Key) /\ Len(e) = 1
    BY <1>2
  <2> HIDE DEF e
  <2>2. /\ e \o s \in Seq(Key)
        /\ Len(e \o s) = Len(e) + Len(s)
        /\ \A i \in 1..(Len(e) + Len(s)) :
             (e \o s)[i] = IF i <= Len(e) THEN e[i] ELSE s[i - Len(e)]
    BY <2>1, ConcatProperties
  <2> QED BY <2>1, <2>2 DEF e
<1> HIDE DEF f
<1>4. DOMAIN f = 1..Len(f)
  BY <1>3, LenProperties
<1>5. f[1] = k /\ \A i \in 2..Len(f) : f[i] = s[i - 1]
  BY <1>1, <1>2, <1>3
<1>6. \A i \in 2..Len(f) : f[i] \in ToSet(s) /\ f[i] # k
  BY <1>1, <1>3, <1>5 DEF ToSet
<1>7. IsInjective(f)
  <2> SUFFICES ASSUME NEW i \in 1..Len(f), NEW j \in 1..Len(f), f[i] = f[j]
               PROVE  i = j
    BY <1>4 DEF IsInjective
  <2>1. CASE i = 1 \/ j = 1
    BY <1>1, <1>3, <1>5, <1>6, <2>1
  <2>2. CASE i # 1 /\ j # 1
    <3>1. /\ i \in 2..Len(f) /\ j \in 2..Len(f)
          /\ i - 1 \in DOMAIN s /\ j - 1 \in DOMAIN s
      BY <1>1, <1>3, <2>2
    <3>2. s[i - 1] = s[j - 1]
      BY <1>5, <3>1
    <3> QED BY <3>1, <3>2 DEF IsInjective
  <2> QED BY <2>1, <2>2
<1>8. ToSet(f) = ToSet(s) \cup {k}
  <2>1. \A x \in ToSet(f) : x \in ToSet(s) \cup {k}
    BY <1>1, <1>3, <1>4, <1>5, <1>6 DEF ToSet
  <2>2. k \in ToSet(f)
    BY <1>1, <1>3, <1>4, <1>5 DEF ToSet
  <2>3. ASSUME NEW x \in ToSet(s) PROVE x \in ToSet(f)
    <3>1. PICK i \in 1..Len(s) : x = s[i]
      BY <1>1 DEF ToSet
    <3>2. i + 1 \in 2..Len(f) /\ f[i + 1] = x
      BY <1>1, <1>3, <1>5, <3>1
    <3>3. i + 1 \in DOMAIN f
      BY <1>1, <1>3, <1>4
    <3> QED BY <3>2, <3>3 DEF ToSet
  <2> QED BY <2>1, <2>2, <2>3
<1> QED BY <1>1, <1>3, <1>5, <1>6, <1>7, <1>8 DEF f

-----------------------------------------------------------------------------
WellFormed(c) == IsCache(c) /\ Linked(c)

\* remove takes one key out of both the map and the list.
LEMMA RemoveEntryLemma ==
  ASSUME NEW c, WellFormed(c), NEW k \in DOMAIN c.items
  PROVE  LET r == RemoveEntry(c, k)
         IN  /\ WellFormed(r)
             /\ DOMAIN r.items = DOMAIN c.items \ {k}
             /\ \A j \in DOMAIN r.items : r.items[j] = c.items[j]
             /\ r.lru = Unlinked(c.lru, k)
             /\ Len(r.lru) = Len(c.lru) - 1
<1>1. c.lru \in Seq(Key) /\ IsInjective(c.lru) /\ k \in ToSet(c.lru)
  BY DEF WellFormed, IsCache, Linked
<1>2. /\ Unlinked(c.lru, k) \in Seq(Key)
      /\ Len(Unlinked(c.lru, k)) = Len(c.lru) - 1
      /\ IsInjective(Unlinked(c.lru, k))
      /\ ToSet(Unlinked(c.lru, k)) = ToSet(c.lru) \ {k}
  BY <1>1, UnlinkedLemma
<1> QED BY <1>2 DEF RemoveEntry, WellFormed, IsCache, Linked

\* A hit reorders the list and changes nothing else.
LEMMA AfterHitLemma ==
  ASSUME NEW c, WellFormed(c), NEW k \in DOMAIN c.items
  PROVE  LET h == AfterHit(c, k)
         IN  /\ WellFormed(h)
             /\ h.items = c.items
             /\ h.lru = <<k>> \o Unlinked(c.lru, k)
             /\ Len(h.lru) = Len(c.lru)
<1>1. /\ c.lru \in Seq(Key) /\ IsInjective(c.lru)
      /\ k \in ToSet(c.lru) /\ k \in Key
  BY DEF WellFormed, IsCache, Linked
<1>2. /\ Unlinked(c.lru, k) \in Seq(Key)
      /\ Len(Unlinked(c.lru, k)) = Len(c.lru) - 1
      /\ IsInjective(Unlinked(c.lru, k))
      /\ ToSet(Unlinked(c.lru, k)) = ToSet(c.lru) \ {k}
  BY <1>1, UnlinkedLemma
<1> DEFINE f == <<k>> \o Unlinked(c.lru, k)
<1>3. /\ f \in Seq(Key)
      /\ Len(f) = Len(c.lru) - 1 + 1
      /\ IsInjective(f)
      /\ ToSet(f) = (ToSet(c.lru) \ {k}) \cup {k}
  <2>1. k \notin ToSet(Unlinked(c.lru, k))
    BY <1>2
  <2> QED BY <1>1, <1>2, <2>1, PushFrontLemma
<1>4. Len(c.lru) \in Nat
  BY <1>1, LenProperties
<1> HIDE DEF f
<1>5. AfterHit(c, k) = [items |-> c.items, lru |-> f]
  BY DEF AfterHit, MovedToFront, f
<1>6. Len(f) = Len(c.lru) /\ ToSet(f) = DOMAIN c.items
  BY <1>1, <1>3, <1>4 DEF WellFormed, Linked
<1>7. WellFormed(AfterHit(c, k))
  BY <1>3, <1>5, <1>6 DEF WellFormed, IsCache, Linked
<1> QED BY <1>5, <1>6, <1>7 DEF f

WrittenFacts(c, k, v, t) ==
  LET w == Written(c.items, k, v, t)
  IN  /\ DOMAIN w = DOMAIN c.items \cup {k}
      /\ DOMAIN w \subseteq Key
      /\ w \in [DOMAIN w -> Entry]
      /\ w[k] = [value |-> v, expiresAt |-> t + TTL]
      /\ \A j \in DOMAIN c.items \ {k} : w[j] = c.items[j]

\* What Put writes into the map.
LEMMA WrittenLemma ==
  ASSUME NEW c, IsCache(c), NEW k \in Key, NEW v \in Value, NEW t \in Nat
  PROVE  WrittenFacts(c, k, v, t)
<1>1. [value |-> v, expiresAt |-> t + TTL] \in Entry
  BY TTLAssumption DEF Entry
<1> QED BY <1>1 DEF Written, IsCache, WrittenFacts

\* Put on a cached key: new value, new expiry, most recently used.
LEMMA RefreshedLemma ==
  ASSUME NEW c, WellFormed(c), NEW k \in DOMAIN c.items,
         NEW v \in Value, NEW t \in Nat
  PROVE  LET r == Refreshed(c, k, v, t)
         IN  /\ WellFormed(r)
             /\ r.items = Written(c.items, k, v, t)
             /\ r.lru = <<k>> \o Unlinked(c.lru, k)
             /\ Len(r.lru) = Len(c.lru)
<1> DEFINE w == Written(c.items, k, v, t)
           h == AfterHit(c, k)
<1>1. k \in Key /\ IsCache(c)
  BY DEF WellFormed, IsCache
<1>2. /\ DOMAIN w = DOMAIN c.items \cup {k}
      /\ DOMAIN w \subseteq Key
      /\ w \in [DOMAIN w -> Entry]
  <2> HIDE DEF w
  <2>1. \A x \in Key : WrittenFacts(c, x, v, t)
    BY <1>1, WrittenLemma
  <2> QED BY <1>1, <2>1 DEF w, WrittenFacts
<1>3. /\ WellFormed(h)
      /\ h.items = c.items
      /\ h.lru = <<k>> \o Unlinked(c.lru, k)
      /\ Len(h.lru) = Len(c.lru)
  BY AfterHitLemma
<1> HIDE DEF w, h
<1>4. Refreshed(c, k, v, t) = [items |-> w, lru |-> h.lru]
  BY <1>3 DEF Refreshed, MovedToFront, w
<1>5. DOMAIN w = DOMAIN h.items
  BY <1>2, <1>3
<1> QED BY <1>2, <1>3, <1>4, <1>5 DEF WellFormed, IsCache, Linked, w

\* Put of a new key, before the capacity is looked at.
LEMMA InsertedLemma ==
  ASSUME NEW c, WellFormed(c), NEW k \in Key \ DOMAIN c.items,
         NEW v \in Value, NEW t \in Nat
  PROVE  LET r == Inserted(c, k, v, t)
         IN  /\ WellFormed(r)
             /\ r.items = Written(c.items, k, v, t)
             /\ r.lru = <<k>> \o c.lru
             /\ Len(r.lru) = Len(c.lru) + 1
<1> DEFINE w == Written(c.items, k, v, t)
           f == <<k>> \o c.lru
<1>1. /\ IsCache(c) /\ c.lru \in Seq(Key) /\ IsInjective(c.lru)
      /\ k \notin ToSet(c.lru)
  BY DEF WellFormed, IsCache, Linked
<1>2. /\ DOMAIN w = DOMAIN c.items \cup {k}
      /\ DOMAIN w \subseteq Key
      /\ w \in [DOMAIN w -> Entry]
  <2> HIDE DEF w
  <2>1. \A x \in Key : WrittenFacts(c, x, v, t)
    BY <1>1, WrittenLemma
  <2> QED BY <1>1, <2>1 DEF w, WrittenFacts
<1>3. /\ f \in Seq(Key)
      /\ Len(f) = Len(c.lru) + 1
      /\ IsInjective(f)
      /\ ToSet(f) = ToSet(c.lru) \cup {k}
  BY <1>1, PushFrontLemma
<1> HIDE DEF w, f
<1>4. Inserted(c, k, v, t) = [items |-> w, lru |-> f]
  BY DEF Inserted, w, f
<1>5. ToSet(f) = DOMAIN w
  BY <1>2, <1>3 DEF WellFormed, Linked
<1>6. WellFormed(Inserted(c, k, v, t))
  BY <1>2, <1>3, <1>4, <1>5 DEF WellFormed, IsCache, Linked
<1> QED BY <1>3, <1>4, <1>6 DEF w, f

\* Put's eviction: over capacity, the back of the list goes.
LEMMA TrimmedLemma ==
  ASSUME NEW c, WellFormed(c), Len(c.lru) = Capacity + 1
  PROVE  LET e == c.lru[Capacity + 1]
         IN  /\ e \in DOMAIN c.items
             /\ Trimmed(c) = RemoveEntry(c, e)
             /\ Len(Trimmed(c).lru) = Capacity
<1>1. c.lru \in Seq(Key) /\ Len(c.lru) \in Nat /\ DOMAIN c.lru = 1..Len(c.lru)
  BY LenProperties DEF WellFormed, IsCache
<1>2. Last(c.lru) = c.lru[Capacity + 1] /\ Len(c.lru) > Capacity
  BY CapacityAssumption DEF Last
<1>3. c.lru[Capacity + 1] \in ToSet(c.lru)
  BY <1>1, CapacityAssumption DEF ToSet
<1>4. c.lru[Capacity + 1] \in DOMAIN c.items
  BY <1>3 DEF WellFormed, Linked
<1>5. Trimmed(c) = RemoveEntry(c, c.lru[Capacity + 1])
  BY <1>2 DEF Trimmed
<1>6. Len(RemoveEntry(c, c.lru[Capacity + 1]).lru) = Len(c.lru) - 1
  BY <1>4, RemoveEntryLemma
<1> QED BY <1>4, <1>5, <1>6, CapacityAssumption

-----------------------------------------------------------------------------
(* The operations as their callers see them                                *)

LEMMA EmptyCacheLemma == WellFormed(EmptyCache)
<1>1. << >> \in Seq(Key) /\ Len(<< >>) = 0 /\ DOMAIN << >> = {}
  OBVIOUS
<1> QED
  BY <1>1 DEF EmptyCache, WellFormed, IsCache, Linked, IsInjective, ToSet, Entry

\* A miss leaves the entries it does not drop as they were.
LEMMA AfterMissLemma ==
  ASSUME NEW c, WellFormed(c), NEW k
  PROVE  LET m == AfterMiss(c, k)
         IN  /\ WellFormed(m)
             /\ DOMAIN m.items \subseteq DOMAIN c.items
             /\ \A j \in DOMAIN m.items : m.items[j] = c.items[j]
<1>1. CASE Holds(c, k)
  BY <1>1, RemoveEntryLemma DEF AfterMiss, Holds
<1>2. CASE ~Holds(c, k)
  BY <1>2 DEF AfterMiss
<1> QED BY <1>1, <1>2

\* After a Put there are the entry it wrote and, perhaps, those of before.
LEMMA AfterPutLemma ==
  ASSUME NEW c, WellFormed(c), NEW k \in Key, NEW v \in Value, NEW t \in Nat
  PROVE  LET d == AfterPut(c, k, v, t)
         IN  /\ WellFormed(d)
             /\ \A j \in DOMAIN d.items :
                  \/ j = k /\ d.items[j] = [value |-> v, expiresAt |-> t + TTL]
                  \/ j \in DOMAIN c.items /\ d.items[j] = c.items[j]
<1> DEFINE w == Written(c.items, k, v, t)
           e == [value |-> v, expiresAt |-> t + TTL]
           d == AfterPut(c, k, v, t)
<1>1. \A j \in DOMAIN w : \/ j = k /\ w[j] = e
                          \/ j \in DOMAIN c.items /\ w[j] = c.items[j]
  BY DEF Written
<1> HIDE DEF w, e
<1>2. CASE Holds(c, k)
  <2>1. d = Refreshed(c, k, v, t) /\ k \in DOMAIN c.items
    BY <1>2 DEF AfterPut, Holds
  <2>2. WellFormed(d) /\ d.items = w
    BY <2>1, RefreshedLemma DEF w
  <2> QED BY <1>1, <2>2 DEF e
<1>3. CASE ~Holds(c, k)
  <2> DEFINE i == Inserted(c, k, v, t)
  <2>1. d = Trimmed(i) /\ k \in Key \ DOMAIN c.items
    BY <1>3 DEF AfterPut, Holds
  <2>2. WellFormed(i) /\ i.items = w /\ Len(i.lru) = Len(c.lru) + 1
    BY <2>1, InsertedLemma DEF w
  <2>3. c.lru \in Seq(Key) /\ i.lru \in Seq(Key) /\ ToSet(i.lru) = DOMAIN w
    BY <2>2 DEF WellFormed, IsCache, Linked
  <2> HIDE DEF i
  <2>4. Last(i.lru) \in DOMAIN w
    <3>1. Len(i.lru) \in Nat \ {0} /\ DOMAIN i.lru = 1..Len(i.lru)
      BY <2>2, <2>3, LenProperties
    <3> QED BY <2>3, <3>1 DEF Last, ToSet
  <2>5. CASE Len(i.lru) > Capacity
    BY <1>1, <2>1, <2>2, <2>4, <2>5, RemoveEntryLemma DEF Trimmed, e
  <2>6. CASE ~(Len(i.lru) > Capacity)
    BY <1>1, <2>1, <2>2, <2>6 DEF Trimmed, e
  <2> QED BY <2>5, <2>6
<1> QED BY <1>2, <1>3

-----------------------------------------------------------------------------
(* The cache                                                               *)

Ordered(s, nw) == \A i, j \in 1..Len(s) : i < j => s[i] \in nw[s[j]]

Used(nw, k) == [j \in Key |-> IF j = k THEN {} ELSE nw[j] \cup {k}]

\* Unlinking an element keeps the order of the others.
LEMMA OrderedUnlinked ==
  ASSUME NEW s \in Seq(Key), IsInjective(s), NEW k \in ToSet(s),
         NEW nw, Ordered(s, nw)
  PROVE  Ordered(Unlinked(s, k), nw)
<1> DEFINE p == Position(s, k)
           u == Unlinked(s, k)
<1>1. /\ p \in 1..Len(s)
      /\ Len(u) = Len(s) - 1
      /\ \A i \in 1..Len(u) : u[i] = IF i < p THEN s[i] ELSE s[i + 1]
  BY UnlinkedLemma
<1>2. Len(s) \in Nat
  BY LenProperties
<1> HIDE DEF p, u
<1> SUFFICES ASSUME NEW i \in 1..Len(u), NEW j \in 1..Len(u), i < j
             PROVE  u[i] \in nw[u[j]]
  BY DEF Ordered, u
<1> DEFINE Src(x) == IF x < p THEN x ELSE x + 1
<1>3. /\ Src(i) \in 1..Len(s) /\ Src(j) \in 1..Len(s) /\ Src(i) < Src(j)
      /\ u[i] = s[Src(i)] /\ u[j] = s[Src(j)]
  BY <1>1, <1>2
<1> QED BY <1>3 DEF Ordered

\* The key just used goes to the front, and becomes newer than all others.
LEMMA OrderedFront ==
  ASSUME NEW s \in Seq(Key), IsInjective(s), NEW k \in Key, k \notin ToSet(s),
         NEW nw \in [Key -> SUBSET Key], Ordered(s, nw)
  PROVE  Ordered(<<k>> \o s, Used(nw, k))
<1> DEFINE f == <<k>> \o s
<1>1. /\ f \in Seq(Key)
      /\ Len(f) = Len(s) + 1
      /\ f[1] = k
      /\ \A i \in 2..Len(f) : f[i] = s[i - 1] /\ f[i] # k
  BY PushFrontLemma
<1>2. Len(s) \in Nat
  BY LenProperties
<1> HIDE DEF f
<1> SUFFICES ASSUME NEW i \in 1..Len(f), NEW j \in 1..Len(f), i < j
             PROVE  f[i] \in Used(nw, k)[f[j]]
  BY DEF Ordered, f
<1>3. j \in 2..Len(f)
  BY <1>1, <1>2
<1>4. f[j] = s[j - 1] /\ f[j] # k /\ f[j] \in Key
  BY <1>1, <1>3, ElementOfSeq
<1>5. Used(nw, k)[f[j]] = nw[f[j]] \cup {k}
  BY <1>4 DEF Used
<1>6. CASE i = 1
  BY <1>1, <1>5, <1>6
<1>7. CASE i # 1
  <2>1. i \in 2..Len(f) /\ i - 1 \in 1..Len(s) /\ j - 1 \in 1..Len(s) /\ i - 1 < j - 1
    BY <1>1, <1>2, <1>3, <1>7
  <2>2. s[i - 1] \in nw[s[j - 1]]
    BY <2>1 DEF Ordered
  <2> QED BY <1>1, <1>4, <1>5, <2>1, <2>2
<1> QED BY <1>6, <1>7

\* Behind the back of a full list stand Capacity keys used more recently.
LEMMA BackIsOld ==
  ASSUME NEW s \in Seq(Key), IsInjective(s), Len(s) = Capacity + 1,
         NEW nw, Ordered(s, nw), IsFiniteSet(nw[s[Capacity + 1]])
  PROVE  Cardinality(nw[s[Capacity + 1]]) >= Capacity
<1> DEFINE N == nw[s[Capacity + 1]]
           f == [i \in 1..Capacity |-> s[i]]
<1>1. \A i \in 1..Capacity : s[i] \in N
  BY CapacityAssumption DEF Ordered
<1>2. f \in [1..Capacity -> N]
  BY <1>1
<1>3. \A i, j \in 1..Capacity : f[i] = f[j] => i = j
  <2>1. DOMAIN s = 1..(Capacity + 1)
    BY LenProperties
  <2> QED BY <2>1, CapacityAssumption DEF IsInjective
<1>4. IsFiniteSet(1..Capacity) /\ Cardinality(1..Capacity) = Capacity
  BY FS_Interval, CapacityAssumption
<1>5. Cardinality(N) \in Nat
  BY FS_CardinalityType
<1>6. IsFiniteSet(N)
  OBVIOUS
<1> HIDE DEF N, f
<1>7. ASSUME Cardinality(N) < Cardinality(1..Capacity) PROVE FALSE
  <2>1. \E x, y \in 1..Capacity : x # y /\ f[x] = f[y]
    BY <1>2, <1>4, <1>6, <1>7, FS_PigeonHole
  <2> QED BY <1>3, <2>1
<1> QED BY <1>4, <1>5, <1>7, CapacityAssumption DEF N

-----------------------------------------------------------------------------
\* CacheContract's Cardinality is the one of the theorems on finite sets.
LEMMA SameCardinality == \A S : Contract!Cardinality(S) = Cardinality(S)
  BY DEF Contract!Cardinality, Cardinality

\* Using a key only ever adds to what is newer than the others.
LEMMA UseLemma ==
  ASSUME newer \in [Key -> SUBSET Key], FiniteUse,
         NEW k \in Key, Contract!Use(k)
  PROVE  /\ newer' = Used(newer, k)
         /\ newer' \in [Key -> SUBSET Key]
         /\ FiniteUse'
         /\ \A j \in Key \ {k} : Cardinality(newer[j]) >= Capacity
                                 => Cardinality(newer'[j]) >= Capacity
<1>1. newer' = Used(newer, k)
  BY DEF Contract!Use, Used
<1>2. newer' \in [Key -> SUBSET Key]
  BY <1>1 DEF Used
<1>3. ASSUME NEW j \in Key PROVE IsFiniteSet(newer'[j])
  BY <1>1, FS_EmptySet, FS_AddElement DEF Used, FiniteUse
<1>4. ASSUME NEW j \in Key \ {k}, Cardinality(newer[j]) >= Capacity
      PROVE  Cardinality(newer'[j]) >= Capacity
  <2>1. newer'[j] = newer[j] \cup {k} /\ IsFiniteSet(newer[j])
    BY <1>1 DEF Used, FiniteUse
  <2>2. /\ Cardinality(newer[j]) \in Nat
        /\ Cardinality(newer'[j]) = IF k \in newer[j] THEN Cardinality(newer[j])
                                    ELSE Cardinality(newer[j]) + 1
    BY <2>1, FS_CardinalityType, FS_AddElement
  <2> QED BY <1>4, <2>2, CapacityAssumption
<1> QED BY <1>1, <1>2, <1>3, <1>4 DEF FiniteUse

LEMMA InitStep == Init => Inv /\ Contract!Init
<1> SUFFICES ASSUME Init PROVE Inv /\ Contract!Init
  OBVIOUS
<1> USE DEF Init, EmptyCache, Contract!Init
<1>1. TypeOK
  BY DEF TypeOK, IsCache
<1>2. cache.lru = << >> /\ Len(cache.lru) = 0 /\ DOMAIN cache.items = {}
  OBVIOUS
<1>3. ListMatchesMap
  BY <1>2, CapacityAssumption DEF ListMatchesMap, Linked, IsInjective, ToSet
<1>4. RecencyOrder
  BY <1>2 DEF RecencyOrder
<1>5. EntriesAreLastPuts
  BY <1>2 DEF EntriesAreLastPuts
<1>6. ForgottenWithReason
  BY DEF ForgottenWithReason, Contract!MayForget, Contract!Live
<1>7. FiniteUse
  BY FS_EmptySet DEF FiniteUse
<1> QED BY <1>1, <1>3, <1>4, <1>5, <1>6, <1>7 DEF Inv

\* A hit keeps the invariant and is the contract's hit.
LEMMA HitStep ==
  ASSUME Inv, NEW k \in Key, GetHit(k)
  PROVE  Inv' /\ Contract!GetHit(k)
<1> USE DEF Inv, TypeOK, ListMatchesMap
<1>1. WellFormed(cache) /\ Holds(cache, k) /\ now < cache.items[k].expiresAt
  BY DEF GetHit, Fresh, WellFormed
<1>2. /\ WellFormed(cache')
      /\ cache'.items = cache.items
      /\ cache'.lru = <<k>> \o Unlinked(cache.lru, k)
      /\ Len(cache'.lru) = Len(cache.lru)
  BY <1>1, AfterHitLemma DEF GetHit, Holds
<1>3. /\ newer' = Used(newer, k)
      /\ newer' \in [Key -> SUBSET Key]
      /\ FiniteUse'
      /\ \A j \in Key \ {k} : Cardinality(newer[j]) >= Capacity
                              => Cardinality(newer'[j]) >= Capacity
  BY UseLemma DEF GetHit
<1>4. now' = now /\ last' = last /\ Contract!Use(k)
      /\ reply' = Contract!Hit(k, cache.items[k].value)
  BY DEF GetHit
<1>5. TypeOK'
  BY <1>2, <1>3, <1>4 DEF WellFormed
<1>6. ListMatchesMap'
  BY <1>2 DEF WellFormed
<1>7. RecencyOrder'
  <2>1. cache.lru \in Seq(Key) /\ IsInjective(cache.lru) /\ k \in ToSet(cache.lru)
    BY <1>1 DEF WellFormed, IsCache, Linked, Holds
  <2>2. /\ Unlinked(cache.lru, k) \in Seq(Key)
        /\ IsInjective(Unlinked(cache.lru, k))
        /\ ToSet(Unlinked(cache.lru, k)) = ToSet(cache.lru) \ {k}
    BY <2>1, UnlinkedLemma
  <2>3. Ordered(Unlinked(cache.lru, k), newer)
    BY <2>1, OrderedUnlinked DEF RecencyOrder, Ordered
  <2>4. Ordered(<<k>> \o Unlinked(cache.lru, k), Used(newer, k))
    BY <2>2, <2>3, OrderedFront
  <2> QED BY <1>2, <1>3, <2>4 DEF RecencyOrder, Ordered
<1>8. EntriesAreLastPuts'
  BY <1>2, <1>4 DEF EntriesAreLastPuts
<1>9. ForgottenWithReason'
  <2>1. \A j \in Key \ DOMAIN cache.items : j # k
    BY <1>1 DEF Holds
  <2>2. ASSUME NEW j \in Key \ DOMAIN cache.items
        PROVE  ~Contract!Live(j) \/ Cardinality(newer[j]) >= Capacity
    BY SameCardinality DEF ForgottenWithReason, Contract!MayForget
  <2>3. ASSUME NEW j \in Key \ DOMAIN cache.items
        PROVE  ~Contract!Live(j)' \/ Cardinality(newer'[j]) >= Capacity
    BY <1>3, <1>4, <2>1, <2>2 DEF Contract!Live
  <2> QED BY <1>2, <2>3, SameCardinality
          DEF ForgottenWithReason, Contract!MayForget
<1>10. Contract!GetHit(k)
  <2> DEFINE p == [value |-> cache.items[k].value,
                   at |-> cache.items[k].expiresAt - TTL]
  <2>1. last[k] = {p} /\ cache.items[k].expiresAt \in Nat
    BY <1>1 DEF EntriesAreLastPuts, Holds, WellFormed, IsCache, Entry
  <2>2. now < p.at + TTL
    BY <1>1, <2>1, TTLAssumption
  <2> QED BY <1>4, <2>1, <2>2 DEF Contract!GetHit, Contract!Live
<1> QED BY <1>3, <1>5, <1>6, <1>7, <1>8, <1>9, <1>10

\* A miss, with or without the removal of an expired entry.
LEMMA MissStep ==
  ASSUME Inv, NEW k \in Key, GetMiss(k)
  PROVE  Inv' /\ Contract!GetMiss(k)
<1> USE DEF Inv, TypeOK, ListMatchesMap
<1>1. WellFormed(cache)
  BY DEF WellFormed
<1>2. /\ cache' = AfterMiss(cache, k)
      /\ now' = now /\ last' = last /\ newer' = newer
      /\ reply' = Contract!Miss(k)
  BY DEF GetMiss
<1>3. Contract!MayForget(k)
  <2>1. CASE ~Holds(cache, k)
    BY <2>1 DEF Holds, ForgottenWithReason
  <2>2. CASE Holds(cache, k)
    <3>1. ~(now < cache.items[k].expiresAt) /\ cache.items[k].expiresAt \in Nat
      BY <1>1, <2>2 DEF GetMiss, Fresh, Holds, WellFormed, IsCache, Entry
    <3>2. last[k] = {[value |-> cache.items[k].value,
                      at |-> cache.items[k].expiresAt - TTL]}
      BY <2>2 DEF Holds, EntriesAreLastPuts
    <3>3. ~Contract!Live(k)
      BY <3>1, <3>2, TTLAssumption DEF Contract!Live
    <3> QED BY <3>3 DEF Contract!MayForget
  <2> QED BY <2>1, <2>2
<1>4. CASE ~Holds(cache, k)
  <2>1. cache' = cache
    BY <1>2, <1>4 DEF AfterMiss
  <2> QED BY <1>2, <1>3, <2>1
          DEF RecencyOrder, EntriesAreLastPuts, ForgottenWithReason, FiniteUse,
              Contract!MayForget, Contract!Live, Contract!GetMiss
<1>5. CASE Holds(cache, k)
  <2>1. /\ WellFormed(cache')
        /\ DOMAIN cache'.items = DOMAIN cache.items \ {k}
        /\ \A j \in DOMAIN cache'.items : cache'.items[j] = cache.items[j]
        /\ cache'.lru = Unlinked(cache.lru, k)
        /\ Len(cache'.lru) = Len(cache.lru) - 1
    BY <1>1, <1>2, <1>5, RemoveEntryLemma DEF AfterMiss, Holds
  <2>2. ListMatchesMap'
    <3>1. Len(cache.lru) \in Nat
      BY <1>1, LenProperties DEF WellFormed, IsCache
    <3> QED BY <2>1, <3>1, CapacityAssumption DEF WellFormed
  <2>3. RecencyOrder'
    <3>1. cache.lru \in Seq(Key) /\ IsInjective(cache.lru) /\ k \in ToSet(cache.lru)
      BY <1>1, <1>5 DEF WellFormed, IsCache, Linked, Holds
    <3>2. Ordered(Unlinked(cache.lru, k), newer)
      BY <3>1, OrderedUnlinked DEF RecencyOrder, Ordered
    <3> QED BY <1>2, <2>1, <3>2 DEF RecencyOrder, Ordered
  <2>4. TypeOK'
    BY <1>2, <2>1 DEF WellFormed
  <2>5. EntriesAreLastPuts'
    BY <1>2, <2>1 DEF EntriesAreLastPuts
  <2>6. ForgottenWithReason'
    BY <1>2, <1>3, <2>1
       DEF ForgottenWithReason, Contract!MayForget, Contract!Live
  <2>7. FiniteUse'
    BY <1>2 DEF FiniteUse
  <2> QED BY <1>2, <1>3, <2>2, <2>3, <2>4, <2>5, <2>6, <2>7
          DEF Contract!GetMiss
<1> QED BY <1>4, <1>5

\* A Put of a cached key, of a new key with room left, or of a new key that
\* pushes the back of the list out.
LEMMA PutStep ==
  ASSUME Inv, NEW k \in Key, NEW v \in Value, Put(k, v)
  PROVE  Inv' /\ Contract!Put(k, v)
<1> USE DEF Inv, TypeOK, ListMatchesMap
<1> DEFINE entry == [value |-> v, expiresAt |-> now + TTL]
           lastPut == [value |-> v, at |-> now]
<1>1. /\ WellFormed(cache) /\ IsCache(cache)
      /\ cache.lru \in Seq(Key) /\ IsInjective(cache.lru)
      /\ ToSet(cache.lru) = DOMAIN cache.items
      /\ Len(cache.lru) \in Nat /\ Len(cache.lru) <= Capacity
  BY LenProperties DEF WellFormed, IsCache, Linked
<1>2. /\ cache' = AfterPut(cache, k, v, now)
      /\ now' = now /\ Contract!Use(k) /\ reply' = Contract!NoReply
      /\ last' = [last EXCEPT ![k] = {lastPut}]
  BY DEF Put
<1>3. /\ newer' = Used(newer, k)
      /\ newer' \in [Key -> SUBSET Key]
      /\ FiniteUse'
      /\ \A j \in Key \ {k} : Cardinality(newer[j]) >= Capacity
                              => Cardinality(newer'[j]) >= Capacity
  BY <1>2, UseLemma
<1>4. /\ last' \in [Key -> SUBSET [value : Value, at : Nat]]
      /\ last'[k] = {lastPut}
      /\ \A j \in Key \ {k} : last'[j] = last[j]
  BY <1>2
<1>5. Contract!Put(k, v)
  BY <1>2 DEF Contract!Put
<1>6. LET w == Written(cache.items, k, v, now)
      IN  /\ DOMAIN w = DOMAIN cache.items \cup {k}
          /\ w[k] = entry
          /\ \A j \in DOMAIN cache.items \ {k} : w[j] = cache.items[j]
  <2>1. now \in Nat
    OBVIOUS
  <2>2. WrittenFacts(cache, k, v, now)
    BY <1>1, <2>1, WrittenLemma
  <2> QED BY <2>2 DEF WrittenFacts
<1> DEFINE Entries(c) ==
             \A j \in DOMAIN c.items :
               last'[j] = {[value |-> c.items[j].value,
                            at |-> c.items[j].expiresAt - TTL]}
           Forgotten(c) ==
             \A j \in Key \ DOMAIN c.items :
               ~Contract!Live(j)' \/ Cardinality(newer'[j]) >= Capacity
           Good(c) == /\ WellFormed(c) /\ Ordered(c.lru, newer')
                      /\ Entries(c) /\ Forgotten(c)
<1>7. ASSUME NEW c, Good(c), Len(c.lru) <= Capacity, cache' = c
      PROVE  Inv'
  <2>1. TypeOK' /\ ListMatchesMap'
    BY <1>2, <1>3, <1>4, <1>7 DEF WellFormed
  <2>2. RecencyOrder' /\ EntriesAreLastPuts'
    BY <1>7 DEF Ordered, RecencyOrder, EntriesAreLastPuts
  <2>3. ForgottenWithReason'
    BY <1>7, SameCardinality DEF ForgottenWithReason, Contract!MayForget
  <2> QED BY <1>3, <2>1, <2>2, <2>3
\* Whatever Put does to the list, what it wrote matches the last Puts.
<1>8. ASSUME NEW c, c.items = Written(cache.items, k, v, now)
      PROVE  Entries(c) /\ Forgotten(c)
  <2>1. Entries(c)
    <3> SUFFICES ASSUME NEW j \in DOMAIN c.items
                 PROVE  last'[j] = {[value |-> c.items[j].value,
                                     at |-> c.items[j].expiresAt - TTL]}
      OBVIOUS
    <3>1. CASE j = k
      BY <1>4, <1>6, <1>8, <3>1, TTLAssumption
    <3>2. CASE j # k
      <4>1. j \in DOMAIN cache.items /\ c.items[j] = cache.items[j] /\ j \in Key
        BY <1>1, <1>6, <1>8, <3>2 DEF IsCache
      <4> QED BY <1>4, <3>2, <4>1 DEF EntriesAreLastPuts
    <3> QED BY <3>1, <3>2
  <2>2. Forgotten(c)
    <3> SUFFICES ASSUME NEW j \in Key \ DOMAIN c.items
                 PROVE  ~Contract!Live(j)' \/ Cardinality(newer'[j]) >= Capacity
      OBVIOUS
    <3>1. j \in (Key \ DOMAIN cache.items) \ {k}
      BY <1>6, <1>8
    <3>2. ~Contract!Live(j) \/ Cardinality(newer[j]) >= Capacity
      BY <3>1, SameCardinality DEF ForgottenWithReason, Contract!MayForget
    <3> QED BY <1>2, <1>3, <1>4, <3>1, <3>2 DEF Contract!Live
  <2> QED BY <2>1, <2>2
<1>9. CASE Holds(cache, k)
  <2> DEFINE c == Refreshed(cache, k, v, now)
  <2>1. /\ WellFormed(c)
        /\ c.items = Written(cache.items, k, v, now)
        /\ c.lru = <<k>> \o Unlinked(cache.lru, k)
        /\ Len(c.lru) = Len(cache.lru)
    BY <1>1, <1>9, RefreshedLemma DEF Holds
  <2>2. cache' = c
    BY <1>2, <1>9 DEF AfterPut
  <2>3. Ordered(c.lru, newer')
    <3>1. k \in ToSet(cache.lru)
      BY <1>1, <1>9 DEF Holds
    <3>2. /\ Unlinked(cache.lru, k) \in Seq(Key)
          /\ IsInjective(Unlinked(cache.lru, k))
          /\ ToSet(Unlinked(cache.lru, k)) = ToSet(cache.lru) \ {k}
      BY <1>1, <3>1, UnlinkedLemma
    <3>3. Ordered(Unlinked(cache.lru, k), newer)
      BY <1>1, <3>1, OrderedUnlinked DEF RecencyOrder, Ordered
    <3>4. Ordered(<<k>> \o Unlinked(cache.lru, k), Used(newer, k))
      BY <3>2, <3>3, OrderedFront
    <3> QED BY <1>3, <2>1, <3>4
  <2>4. Entries(c) /\ Forgotten(c)
    BY <1>8, <2>1
  <2> HIDE DEF c, Entries, Forgotten
  <2> QED BY <1>1, <1>5, <1>7, <2>1, <2>2, <2>3, <2>4
<1>10. CASE ~Holds(cache, k)
  <2> DEFINE c == Inserted(cache, k, v, now)
  <2>1. /\ WellFormed(c)
        /\ c.items = Written(cache.items, k, v, now)
        /\ c.lru = <<k>> \o cache.lru
        /\ Len(c.lru) = Len(cache.lru) + 1
    BY <1>1, <1>10, InsertedLemma DEF Holds
  <2>2. cache' = Trimmed(c)
    BY <1>2, <1>10 DEF AfterPut
  <2>3. Ordered(c.lru, newer')
    <3>1. k \notin ToSet(cache.lru) /\ Ordered(cache.lru, newer)
      BY <1>1, <1>10 DEF Holds, RecencyOrder, Ordered
    <3>2. Ordered(<<k>> \o cache.lru, Used(newer, k))
      BY <1>1, <3>1, OrderedFront
    <3> QED BY <1>3, <2>1, <3>2
  <2>4. Entries(c) /\ Forgotten(c)
    BY <1>8, <2>1
  <2> HIDE DEF c
  <2>5. CASE Len(cache.lru) < Capacity
    <3>1. Trimmed(c) = c /\ Len(c.lru) <= Capacity
      BY <1>1, <2>1, <2>5, CapacityAssumption DEF Trimmed
    <3> HIDE DEF Entries, Forgotten
    <3> QED BY <1>5, <1>7, <2>1, <2>2, <2>3, <2>4, <3>1
  <2>6. CASE Len(cache.lru) = Capacity
    <3> DEFINE e == c.lru[Capacity + 1]
               d == RemoveEntry(c, e)
    <3>1. e \in DOMAIN c.items /\ Trimmed(c) = d /\ Len(d.lru) = Capacity
      BY <2>1, <2>6, TrimmedLemma
    <3>2. /\ WellFormed(d)
          /\ DOMAIN d.items = DOMAIN c.items \ {e}
          /\ \A j \in DOMAIN d.items : d.items[j] = c.items[j]
          /\ d.lru = Unlinked(c.lru, e)
      <4>1. WellFormed(c) /\ e \in DOMAIN c.items
        BY <2>1, <3>1
      <4> HIDE DEF e
      <4> QED BY <4>1, RemoveEntryLemma
    <3>3. /\ c.lru \in Seq(Key) /\ IsInjective(c.lru)
          /\ e \in ToSet(c.lru) /\ e \in Key
      BY <2>1, <3>1 DEF WellFormed, IsCache, Linked
    <3>4. Ordered(d.lru, newer')
      BY <2>3, <3>2, <3>3, OrderedUnlinked
    <3>5. Entries(d)
      BY <2>4, <3>2
    <3>6. Cardinality(newer'[e]) >= Capacity
      <4>1. IsFiniteSet(newer'[e])
        BY <1>3, <3>3 DEF FiniteUse
      <4> QED BY <2>1, <2>3, <2>6, <3>3, <4>1, BackIsOld
    <3>7. Forgotten(d)
      BY <2>4, <3>2, <3>6
    <3> HIDE DEF d, e, Entries, Forgotten
    <3> QED BY <1>5, <1>7, <2>2, <3>1, <3>2, <3>4, <3>5, <3>7, CapacityAssumption
  <2> QED BY <1>1, <2>5, <2>6, CapacityAssumption
<1> QED BY <1>5, <1>9, <1>10

\* Time passing only makes entries die.
LEMMA TickStep ==
  ASSUME Inv, Tick
  PROVE  Inv' /\ Contract!Advance
<1> USE DEF Inv, TypeOK, Tick
<1>1. Contract!Advance
  BY DEF Contract!Advance
<1>2. TypeOK' /\ ListMatchesMap' /\ RecencyOrder' /\ EntriesAreLastPuts'
      /\ FiniteUse'
  BY DEF ListMatchesMap, RecencyOrder, EntriesAreLastPuts, FiniteUse
<1>3. ForgottenWithReason'
  <2>1. ASSUME NEW j \in Key, ~Contract!Live(j) PROVE ~Contract!Live(j)'
    <3>1. \A p \in last[j] : p.at \in Nat
      OBVIOUS
    <3> QED BY <2>1, <3>1, TTLAssumption DEF Contract!Live
  <2> QED BY <2>1 DEF ForgottenWithReason, Contract!MayForget
<1> QED BY <1>1, <1>2, <1>3

-----------------------------------------------------------------------------
\* Every step keeps the invariant, and is a step of the contract or none.
LEMMA NextStep == Inv /\ [Next]_vars => Inv' /\ [Contract!Next]_(Contract!vars)
<1> SUFFICES ASSUME Inv, [Next]_vars
             PROVE  Inv' /\ [Contract!Next]_(Contract!vars)
  OBVIOUS
<1>1. ASSUME NEW k \in Key, GetHit(k)
      PROVE  Inv' /\ [Contract!Next]_(Contract!vars)
  BY <1>1, HitStep DEF Contract!Next
<1>2. ASSUME NEW k \in Key, GetMiss(k)
      PROVE  Inv' /\ [Contract!Next]_(Contract!vars)
  BY <1>2, MissStep DEF Contract!Next
<1>3. ASSUME NEW k \in Key, NEW v \in Value, Put(k, v)
      PROVE  Inv' /\ [Contract!Next]_(Contract!vars)
  BY <1>3, PutStep DEF Contract!Next
<1>4. CASE Tick
  BY <1>4, TickStep DEF Contract!Next
<1>5. CASE UNCHANGED vars
  BY <1>5 DEF vars, Inv, TypeOK, ListMatchesMap, RecencyOrder,
              EntriesAreLastPuts, ForgottenWithReason, FiniteUse,
              Contract!MayForget, Contract!Live, Contract!vars
<1> QED BY <1>1, <1>2, <1>3, <1>4, <1>5 DEF Next

(***************************************************************************)
(* The invariant of cache.go, for every capacity, TTL and set of keys.     *)
(***************************************************************************)
THEOREM Invariance == Spec => []Inv
<1>1. Init => Inv
  BY InitStep
<1>2. Inv /\ [Next]_vars => Inv'
  BY NextStep
<1> QED BY <1>1, <1>2, PTL DEF Spec

(***************************************************************************)
(* The state of the cache stays well typed.                                *)
(***************************************************************************)
THEOREM TypeCorrect == Spec => []TypeOK
<1>1. Inv => TypeOK
  BY DEF Inv
<1> QED BY <1>1, Invariance, PTL

(***************************************************************************)
(* The map and the list of cache.go always hold the same keys, at most     *)
(* Capacity of them: Put's eviction (cache.go:105) really bounds the map.  *)
(***************************************************************************)
THEOREM ListAlwaysMatchesMap == Spec => []ListMatchesMap
<1>1. Inv => ListMatchesMap
  BY DEF Inv
<1> QED BY <1>1, Invariance, PTL

(***************************************************************************)
(* The list of cache.go is always in the order of last use.                *)
(***************************************************************************)
THEOREM ListAlwaysInOrder == Spec => []RecencyOrder
<1>1. Inv => RecencyOrder
  BY DEF Inv
<1> QED BY <1>1, Invariance, PTL

(***************************************************************************)
(* Get and Put of cache.go keep the contract of CacheContract: freshness   *)
(* of every hit and a reason for every miss.                               *)
(***************************************************************************)
THEOREM CacheKeepsContract == Spec => ImplementsContract
<1>1. Init => Contract!Init
  BY InitStep
<1>2. Inv /\ [Next]_vars => [Contract!Next]_(Contract!vars)
  BY NextStep
<1> QED BY <1>1, <1>2, Invariance, PTL DEF Spec, ImplementsContract, Contract!Spec
=============================================================================
