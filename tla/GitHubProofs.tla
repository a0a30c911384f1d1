---------------------------- MODULE GitHubProofs ----------------------------
(***************************************************************************)
(* What GOLFS makes of GitHub's answers: the search through the user's     *)
(* installations, for any lists and any size of the pages, and the delay   *)
(* told when requests are limited, for any limits, headers and Durations   *)
(* and a clock of GOLFS's at most a minute ahead.  The two are             *)
(* independent of each other.                                              *)
(***************************************************************************)
EXTENDS UserInstallations, RateLimit, SequenceTheorems, TLAPS


-----------------------------------------------------------------------------
(* The list                                                                *)

LEMMA InsertLemma ==
  ASSUME NEW s, IsList(s), NEW n \in 1..(Len(s) + 1),
         NEW i \in Installation, ~Contains(s, i)
  PROVE  LET t == InsertAt(s, n, i)
         IN  /\ IsList(t)
             /\ Len(t) = Len(s) + 1
             /\ \A k \in 1..Len(t) : t[k] = IF k < n THEN s[k] ELSE IF k = n THEN i ELSE s[k - 1]
<1> DEFINE t == InsertAt(s, n, i)
           a == SubSeq(s, 1, n - 1)
           e == <<i>>
           b == SubSeq(s, n, Len(s))
<1>1. Len(s) \in Nat /\ DOMAIN s = 1..Len(s) /\ \A k \in 1..Len(s) : s[k] \in Installation
  BY LenProperties, ElementOfSeq DEF IsList
<1>2. a \in Seq(Installation) /\ Len(a) = n - 1 /\ \A k \in 1..(n - 1) : a[k] = s[k]
  <2>1. n - 1 \in 0..Len(s) /\ n - 1 \in Int /\ 1 \in Int
    BY <1>1
  <2> QED BY <1>1, <2>1, SubSeqProperties
<1>3. /\ b \in Seq(Installation) /\ Len(b) = Len(s) - n + 1
      /\ \A k \in 1..(Len(s) - n + 1) : b[k] = s[n + k - 1]
  <2>1. n \in Int /\ Len(s) \in Int /\ \A k \in n..Len(s) : s[k] \in Installation
    BY <1>1
  <2> QED BY <1>1, <2>1, SubSeqProperties
<1>4. e \in Seq(Installation) /\ Len(e) = 1 /\ e[1] = i
  OBVIOUS
<1>5. t = (a \o e) \o b
  BY DEF InsertAt
<1> HIDE DEF a, b, e, t
<1>6. /\ a \o e \in Seq(Installation) /\ Len(a \o e) = n
      /\ \A k \in 1..n : (a \o e)[k] = IF k < n THEN s[k] ELSE i
  <2>1. /\ a \o e \in Seq(Installation) /\ Len(a \o e) = Len(a) + Len(e)
        /\ \A k \in 1..(Len(a) + Len(e)) :
             (a \o e)[k] = IF k <= Len(a) THEN a[k] ELSE e[k - Len(a)]
    BY <1>2, <1>4, ConcatProperties
  <2> QED BY <1>1, <1>2, <1>4, <2>1
<1>7. /\ t \in Seq(Installation) /\ Len(t) = Len(s) + 1
      /\ \A k \in 1..Len(t) : t[k] = IF k <= n THEN (a \o e)[k] ELSE b[k - n]
  <2> DEFINE c == a \o e
  <2>1. c \in Seq(Installation) /\ Len(c) = n /\ t = c \o b
    BY <1>5, <1>6
  <2> HIDE DEF c
  <2>2. /\ t \in Seq(Installation) /\ Len(t) = Len(c) + Len(b)
        /\ \A k \in 1..(Len(c) + Len(b)) :
             t[k] = IF k <= Len(c) THEN c[k] ELSE b[k - Len(c)]
    BY <1>3, <2>1, ConcatProperties
  <2>3. Len(c) + Len(b) = Len(s) + 1
    BY <1>1, <1>3, <2>1
  <2>4. \A k \in 1..(Len(s) + 1) : t[k] = IF k <= n THEN c[k] ELSE b[k - n]
    BY <2>1, <2>2, <2>3
  <2> QED BY <2>2, <2>3, <2>4 DEF c
<1>8. \A k \in 1..Len(t) : t[k] = IF k < n THEN s[k] ELSE IF k = n THEN i ELSE s[k - 1]
  <2> SUFFICES ASSUME NEW k \in 1..Len(t)
               PROVE  t[k] = IF k < n THEN s[k] ELSE IF k = n THEN i ELSE s[k - 1]
    OBVIOUS
  <2>1. CASE k <= n
    <3>1. k \in 1..n /\ n \in Int
      BY <1>1, <1>7, <2>1
    <3>2. t[k] = IF k < n THEN s[k] ELSE i
      BY <1>6, <1>7, <2>1, <3>1
    <3> QED BY <2>1, <3>1, <3>2
  <2>2. CASE ~(k <= n)
    <3>1. k - n \in 1..(Len(s) - n + 1) /\ n + (k - n) - 1 = k - 1
      BY <1>1, <1>7, <2>2
    <3>2. t[k] = b[k - n] /\ b[k - n] = s[k - 1]
      BY <1>3, <1>7, <2>2, <3>1
    <3>3. k # n /\ ~(k < n)
      BY <1>1, <1>7, <2>2
    <3> QED BY <3>2, <3>3
  <2> QED BY <2>1, <2>2
<1>9. DOMAIN t = 1..Len(t)
  BY <1>7, LenProperties
<1>10. \A k \in 1..Len(s) : s[k] # i
  BY <1>1 DEF Contains
<1>11. IsInjective(t)
  <2> SUFFICES ASSUME NEW j \in 1..Len(t), NEW k \in 1..Len(t), t[j] = t[k]
               PROVE  j = k
    BY <1>9 DEF IsInjective
  <2> DEFINE Src(x) == IF x < n THEN x ELSE x - 1
  <2>1. \A x \in 1..Len(t) : x # n => Src(x) \in 1..Len(s) /\ t[x] = s[Src(x)]
    BY <1>1, <1>7, <1>8
  <2>2. \A x \in 1..Len(t) : x # n => t[x] # i
    BY <1>10, <2>1
  <2>3. t[n] = i /\ n \in 1..Len(t)
    BY <1>1, <1>7, <1>8
  <2>4. CASE j = n \/ k = n
    BY <2>2, <2>3, <2>4
  <2>5. CASE j # n /\ k # n
    <3>1. Src(j) = Src(k)
      BY <1>1, <2>1, <2>5 DEF IsInjective, IsList
    <3> QED BY <1>1, <1>7, <2>5, <3>1
  <2> QED BY <2>4, <2>5
<1> QED BY <1>7, <1>8, <1>11 DEF IsList, t

LEMMA RemoveLemma ==
  ASSUME NEW s, IsList(s), NEW n \in 1..Len(s)
  PROVE  LET t == RemoveAt(s, n)
         IN  /\ IsList(t)
             /\ Len(t) = Len(s) - 1
             /\ \A k \in 1..Len(t) : t[k] = IF k < n THEN s[k] ELSE s[k + 1]
<1> DEFINE t == RemoveAt(s, n)
           a == SubSeq(s, 1, n - 1)
           b == SubSeq(s, n + 1, Len(s))
<1>1. Len(s) \in Nat /\ DOMAIN s = 1..Len(s) /\ \A k \in 1..Len(s) : s[k] \in Installation
  BY LenProperties, ElementOfSeq DEF IsList
<1>2. a \in Seq(Installation) /\ Len(a) = n - 1 /\ \A k \in 1..(n - 1) : a[k] = s[k]
  <2>1. n - 1 \in 0..Len(s) /\ n - 1 \in Int /\ 1 \in Int
    BY <1>1
  <2> QED BY <1>1, <2>1, SubSeqProperties
<1>3. /\ b \in Seq(Installation) /\ Len(b) = Len(s) - n
      /\ \A k \in 1..(Len(s) - n) : b[k] = s[n + k]
  <2>1. n + 1 \in Int /\ Len(s) \in Int /\ \A k \in (n + 1)..Len(s) : s[k] \in Installation
    BY <1>1
  <2>2. /\ b \in Seq(Installation)
        /\ Len(b) = IF n + 1 <= Len(s) THEN Len(s) - (n + 1) + 1 ELSE 0
        /\ \A k \in 1..(Len(s) - (n + 1) + 1) : b[k] = s[(n + 1) + k - 1]
    BY <2>1, SubSeqProperties
  <2> HIDE DEF b
  <2>3. n \in Int /\ n <= Len(s)
    BY <1>1
  <2>4. Len(b) = Len(s) - n
    <3>1. Len(b) = IF n + 1 <= Len(s) THEN Len(s) - (n + 1) + 1 ELSE 0
      BY <2>2
    <3>2. Len(s) \in Int
      BY <1>1
    <3> QED BY <2>3, <3>1, <3>2
  <2>5. ASSUME NEW k \in 1..(Len(s) - n) PROVE b[k] = s[n + k]
    <3>1. (n + 1) + k - 1 = n + k
      BY <1>1, <2>3
    <3> QED BY <2>2, <2>3, <3>1
  <2> QED BY <2>2, <2>4, <2>5
<1>4. t = a \o b
  BY DEF RemoveAt
<1> HIDE DEF a, b, t
<1>5. /\ t \in Seq(Installation) /\ Len(t) = Len(s) - 1
      /\ \A k \in 1..Len(t) : t[k] = IF k < n THEN a[k] ELSE b[k - (n - 1)]
  <2>1. /\ t \in Seq(Installation) /\ Len(t) = Len(a) + Len(b)
        /\ \A k \in 1..(Len(a) + Len(b)) :
             t[k] = IF k <= Len(a) THEN a[k] ELSE b[k - Len(a)]
    BY <1>2, <1>3, <1>4, ConcatProperties
  <2> QED BY <1>1, <1>2, <1>3, <2>1
<1>6. \A k \in 1..Len(t) : t[k] = IF k < n THEN s[k] ELSE s[k + 1]
  <2> SUFFICES ASSUME NEW k \in 1..Len(t) PROVE t[k] = IF k < n THEN s[k] ELSE s[k + 1]
    OBVIOUS
  <2>1. CASE k < n
    BY <1>1, <1>2, <1>5, <2>1
  <2>2. CASE ~(k < n)
    <3>1. k - (n - 1) \in 1..(Len(s) - n) /\ n + (k - (n - 1)) = k + 1
      BY <1>1, <1>5, <2>2
    <3> QED BY <1>1, <1>3, <1>5, <2>2, <3>1
  <2> QED BY <2>1, <2>2
<1>7. DOMAIN t = 1..Len(t)
  BY <1>5, LenProperties
<1>8. IsInjective(t)
  <2> SUFFICES ASSUME NEW j \in 1..Len(t), NEW k \in 1..Len(t), t[j] = t[k]
               PROVE  j = k
    BY <1>7 DEF IsInjective
  <2> DEFINE Src(x) == IF x < n THEN x ELSE x + 1
  <2>1. Src(j) \in 1..Len(s) /\ Src(k) \in 1..Len(s) /\ s[Src(j)] = s[Src(k)]
    BY <1>1, <1>5, <1>6
  <2>2. Src(j) = Src(k)
    BY <1>1, <2>1 DEF IsInjective, IsList
  <2> QED BY <1>1, <1>5, <2>2
<1> QED BY <1>5, <1>6, <1>8 DEF IsList, t

-----------------------------------------------------------------------------
(* The read                                                                *)

\* The target is on the page asked for or on a later one.
Ahead == \E k \in 1..Len(list) : list[k] = Target /\ k > PerPage * (page - 1)

\* What was listed, or not, is what is listed, unless it changed.
ListedIsSeen == Seen(list) = listed \/ listed = "sometimes"

IInv ==
  /\ TypeOK
  /\ ListedIsSeen
  /\ Len(list) <= longest
  /\ (result = "reading" /\ listed = "always" /\ removals = 0) => Ahead
  /\ ResultIsTrue

LEMMA Typed ==
  ASSUME IInv
  PROVE  /\ PerPage \in Nat \ {0} /\ MaxPages \in Nat \ {0} /\ page \in 1..MaxPages
         /\ Len(list) \in Nat /\ DOMAIN list = 1..Len(list) /\ longest \in Nat
  BY SizesAssumption, LenProperties DEF IInv, TypeOK, IsList

LEMMA Pair ==
  ASSUME NEW x, NEW y
  PROVE  <<x>> \o <<y>> = <<x, y>>
<1> DEFINE S == {x, y}
           a == <<x>>
           b == <<y>>
           p == <<x, y>>
<1>1. a \in Seq(S) /\ b \in Seq(S) /\ p \in Seq(S)
  OBVIOUS
<1>2. Len(a) = 1 /\ Len(b) = 1 /\ Len(p) = 2
  OBVIOUS
<1>3. a[1] = x /\ b[1] = y /\ p[1] = x /\ p[2] = y
  OBVIOUS
<1> HIDE DEF S, a, b, p
<1>4. /\ a \o b \in Seq(S) /\ Len(a \o b) = 2
      /\ (a \o b)[1] = x /\ (a \o b)[2] = y
  BY <1>1, <1>2, <1>3, ConcatProperties
<1>5. \A i \in 1..Len(a \o b) : (a \o b)[i] = p[i]
  BY <1>3, <1>4
<1>6. a \o b = p
  BY <1>1, <1>2, <1>4, <1>5, SeqEqual
<1> QED BY <1>6 DEF a, b, p

LEMMA Triple ==
  ASSUME NEW x, NEW y, NEW z
  PROVE  <<x, y>> \o <<z>> = <<x, y, z>>
<1> DEFINE S == {x, y, z}
           a == <<x, y>>
           b == <<z>>
           p == <<x, y, z>>
<1>1. a \in Seq(S) /\ b \in Seq(S) /\ p \in Seq(S)
  OBVIOUS
<1>2. Len(a) = 2 /\ Len(b) = 1 /\ Len(p) = 3
  OBVIOUS
<1>3. a[1] = x /\ a[2] = y /\ b[1] = z /\ p[1] = x /\ p[2] = y /\ p[3] = z
  OBVIOUS
<1> HIDE DEF S, a, b, p
<1>4. /\ a \o b \in Seq(S) /\ Len(a \o b) = 3
      /\ (a \o b)[1] = x /\ (a \o b)[2] = y /\ (a \o b)[3] = z
  <2>1. /\ a \o b \in Seq(S) /\ Len(a \o b) = Len(a) + Len(b)
        /\ \A i \in 1..(Len(a) + Len(b)) :
             (a \o b)[i] = IF i <= Len(a) THEN a[i] ELSE b[i - Len(a)]
    BY <1>1, ConcatProperties
  <2>2. (a \o b)[3] = b[3 - 2]
    BY <1>2, <2>1
  <2> QED BY <1>2, <1>3, <2>1, <2>2
<1>5. \A i \in 1..Len(a \o b) : (a \o b)[i] = p[i]
  BY <1>3, <1>4
<1>6. a \o b = p
  BY <1>1, <1>2, <1>4, <1>5, SeqEqual
<1> QED BY <1>6 DEF a, b, p

LEMMA Single ==
  ASSUME NEW x
  PROVE  <<>> \o <<x>> = <<x>> /\ <<x>> \o <<>> = <<x>> /\ <<>> \o <<>> = <<>>
<1>1. <<x>> \in Seq({x}) /\ <<>> \in Seq({x})
  OBVIOUS
<1> QED BY <1>1, ConcatEmptySeq

\* The relation "next" leads to the next page, if there is one.
LEMMA NextPage ==
  ASSUME IInv
  PROVE  parseNext(Link(page)) = IF PerPage * page < Len(list) THEN page + 1 ELSE NoPage
<1> DEFINE to(rel, m) == [rel |-> rel, page |-> m]
           more == PerPage * page < Len(list)
           link == Link(page)
           next == {n \in DOMAIN link : link[n].rel = "next"}
<1>1. page \in Nat
  BY Typed
<1>2. CASE page > 1 /\ more
  <2>1. link = <<to("prev", page - 1), to("next", page + 1), to("first", 1)>>
    <3> DEFINE x == to("prev", page - 1)
               y == to("next", page + 1)
               z == to("first", 1)
    <3>1. link = (<<x>> \o <<y>>) \o <<z>>
      BY <1>2 DEF Link
    <3> HIDE DEF x, y, z
    <3>2. <<x>> \o <<y>> = <<x, y>>
      BY Pair
    <3>3. <<x, y>> \o <<z>> = <<x, y, z>>
      BY Triple
    <3>4. link = <<x, y, z>>
      BY <3>1, <3>2, <3>3
    <3> QED BY <3>4 DEF x, y, z
  <2>2. next = {2}
    BY <2>1
  <2>3. Min(next) = 2
    BY <2>2 DEF Min
  <2> QED BY <1>2, <2>1, <2>2, <2>3 DEF parseNext
<1>3. CASE ~(page > 1) /\ more
  <2>1. link = <<to("next", page + 1), to("first", 1)>>
    BY <1>3, Pair, Single DEF Link
  <2>2. next = {1}
    BY <2>1
  <2>3. Min(next) = 1
    BY <2>2 DEF Min
  <2> QED BY <1>3, <2>1, <2>2, <2>3 DEF parseNext
<1>4. CASE ~more
  <2>1. \/ link = <<to("prev", page - 1), to("first", 1)>>
        \/ link = <<to("first", 1)>>
    <3> DEFINE x == to("prev", page - 1)
               z == to("first", 1)
    <3>1. link = (<<x>> \o <<>>) \o <<z>> \/ link = (<<>> \o <<>>) \o <<z>>
      BY <1>4 DEF Link
    <3> HIDE DEF x, z
    <3>2. link = <<x, z>> \/ link = <<z>>
      BY <3>1, Pair, Single
    <3> QED BY <3>2 DEF x, z
  <2>2. next = {}
    BY <2>1
  <2> QED BY <1>4, <2>2 DEF parseNext
<1> QED BY <1>2, <1>3, <1>4

LEMMA InitIInv == Init => IInv
<1> SUFFICES ASSUME Init PROVE IInv
  OBVIOUS
<1>1. IsList(list) /\ Len(list) \in Nat
  BY InitialAssumption, LenProperties DEF Init, IsList
<1>2. TypeOK
  BY <1>1, SizesAssumption DEF Init, TypeOK, Seen
<1>3. listed = "always" => Ahead
  <2>1. PerPage * (page - 1) = 0
    BY SizesAssumption DEF Init
  <2> QED BY <1>1, <2>1 DEF Init, Seen, Contains, Ahead
<1> QED BY <1>1, <1>2, <1>3 DEF Init, IInv, ListedIsSeen, ResultIsTrue

\* The list becomes s.
LEMMA BecomesKeeps ==
  ASSUME IInv, NEW s, IsList(s), Becomes(s), removals' \in Nat,
         listed' = "always" /\ removals' = 0 => Ahead'
  PROVE  IInv'
<1>1. Len(s) \in Nat
  BY LenProperties DEF IsList
<1>2. /\ list' = s /\ result = "reading" /\ result' = result /\ page' = page
      /\ listed' = IF Seen(s) = listed THEN listed ELSE "sometimes"
      /\ longest' = IF Len(s) > longest THEN Len(s) ELSE longest
      /\ changes' = changes + 1
  BY DEF Becomes
<1>3. TypeOK'
  BY <1>1, <1>2 DEF IInv, TypeOK
<1>4. ListedIsSeen'
  BY <1>2 DEF ListedIsSeen, Seen
<1>5. Len(list') <= longest'
  BY <1>1, <1>2 DEF IInv, TypeOK
<1> QED BY <1>2, <1>3, <1>4, <1>5 DEF IInv, ResultIsTrue

\* An installation added moves the target back, if at all.
LEMMA InstallKeeps ==
  ASSUME IInv, NEW i \in Installation, NEW n \in 1..(Len(list) + 1), Install(i, n)
  PROVE  IInv'
<1> DEFINE t == InsertAt(list, n, i)
<1>1. /\ IsList(t) /\ Len(t) = Len(list) + 1
      /\ \A k \in 1..Len(t) :
           t[k] = IF k < n THEN list[k] ELSE IF k = n THEN i ELSE list[k - 1]
  BY InsertLemma DEF Install, IInv, TypeOK
<1>2. Becomes(t) /\ removals' = removals /\ removals \in Nat
  BY DEF Install, IInv, TypeOK
<1> HIDE DEF t
<1>3. ASSUME listed' = "always", removals' = 0 PROVE Ahead'
  <2>1. result = "reading" /\ listed = "always" /\ removals = 0 /\ page' = page /\ list' = t
    BY <1>2, <1>3 DEF Becomes
  <2>2. PICK k \in 1..Len(list) : list[k] = Target /\ k > PerPage * (page - 1)
    BY <2>1 DEF IInv, Ahead
  <2>3. PerPage * (page - 1) \in Int
    BY Typed
  <2> DEFINE m == IF k < n THEN k ELSE k + 1
  <2>4. m \in 1..Len(t) /\ t[m] = Target /\ m > PerPage * (page - 1)
    BY <1>1, <2>2, <2>3, Typed
  <2> QED BY <2>1, <2>4 DEF Ahead
<1> QED BY <1>1, <1>2, <1>3, BecomesKeeps

LEMMA UninstallKeeps ==
  ASSUME IInv, NEW n \in 1..Len(list), Uninstall(n)
  PROVE  IInv'
<1>1. IsList(RemoveAt(list, n))
  BY RemoveLemma DEF IInv, TypeOK
<1>2. Becomes(RemoveAt(list, n)) /\ removals' \in Nat /\ removals' # 0
  BY DEF Uninstall, IInv, TypeOK
<1> QED BY <1>1, <1>2, BecomesKeeps

LEMMA ReadKeeps ==
  ASSUME IInv, Read
  PROVE  IInv'
<1> DEFINE next == parseNext(Link(page))
<1>1. /\ result = "reading" /\ UNCHANGED <<list, listed, removals, longest, changes>>
      /\ IF Target \in OnPage(page)
         THEN result' = "found" /\ page' = page
         ELSE /\ result' = LastPage(next)
              /\ page' = IF result' = "reading" THEN next ELSE page
  BY DEF Read
<1>2. next = IF PerPage * page < Len(list) THEN page + 1 ELSE NoPage
  BY NextPage
<1> HIDE DEF next
<1>3. /\ PerPage * page \in Nat /\ PerPage * (page - 1) \in Nat
      /\ PerPage * page <= PerPage * MaxPages
      /\ PerPage * ((page + 1) - 1) = PerPage * page
  BY Typed
<1>4. Len(list)' = Len(list) /\ ListedIsSeen' /\ Len(list') <= longest'
  BY <1>1 DEF IInv, ListedIsSeen, Seen, Contains
<1>5. CASE Target \in OnPage(page)
  <2>1. Contains(list, Target)
    BY <1>5, Typed DEF OnPage, Contains
  <2>2. listed # "never"
    BY <2>1 DEF IInv, ListedIsSeen, Seen
  <2>3. TypeOK'
    BY <1>1, <1>5 DEF IInv, TypeOK
  <2> QED BY <1>1, <1>4, <1>5, <2>2, <2>3 DEF IInv, ResultIsTrue
<1>6. CASE Target \notin OnPage(page)
  <2>1. ASSUME listed = "always", removals = 0
        PROVE  \E k \in 1..Len(list) : list[k] = Target /\ k > PerPage * page
    <3>1. PICK k \in 1..Len(list) : list[k] = Target /\ k > PerPage * (page - 1)
      BY <1>1, <2>1 DEF IInv, Ahead
    <3>2. ~(k <= PerPage * page)
      BY <1>3, <1>6, <3>1, Typed DEF OnPage
    <3> QED BY <1>3, <3>1, <3>2
  <2>2. CASE next = NoPage
    <3>1. result' = "absent" /\ page' = page /\ ~(PerPage * page < Len(list))
      BY <1>1, <1>2, <1>6, <2>2, Typed DEF LastPage, NoPage
    <3>2. listed # "always" \/ removals > 0
      BY <1>3, <2>1, <3>1, Typed DEF IInv, TypeOK
    <3>3. TypeOK'
      BY <1>1, <3>1 DEF IInv, TypeOK
    <3> QED BY <1>1, <1>4, <3>1, <3>2, <3>3 DEF IInv, ResultIsTrue
  <2>3. CASE next # NoPage /\ page = MaxPages
    <3>1. result' = "unavailable" /\ page' = page /\ PerPage * MaxPages < Len(list)
      BY <1>1, <1>2, <1>6, <2>3 DEF LastPage
    <3>2. TypeOK'
      BY <1>1, <3>1 DEF IInv, TypeOK
    <3>3. longest' > PerPage * MaxPages
      BY <1>1, <1>3, <2>3, <3>1, Typed DEF IInv
    <3> QED BY <1>1, <1>4, <3>1, <3>2, <3>3 DEF IInv, ResultIsTrue
  <2>4. CASE next # NoPage /\ page # MaxPages
    <3>1. result' = "reading" /\ page' = page + 1
      BY <1>1, <1>2, <1>6, <2>4 DEF LastPage
    <3>2. TypeOK'
      BY <1>1, <2>4, <3>1, Typed DEF IInv, TypeOK
    <3>3. (listed' = "always" /\ removals' = 0) => Ahead'
      BY <1>1, <1>3, <2>1, <3>1 DEF Ahead
    <3> QED BY <1>4, <3>1, <3>2, <3>3 DEF IInv, ResultIsTrue
  <2> QED BY <2>2, <2>3, <2>4
<1> QED BY <1>5, <1>6

LEMMA StepIInv == IInv /\ [Next]_vars => IInv'
<1> SUFFICES ASSUME IInv, [Next]_vars PROVE IInv'
  OBVIOUS
<1>1. CASE Fail
  <2>1. TypeOK'
    BY <1>1 DEF Fail, IInv, TypeOK
  <2> QED BY <1>1, <2>1 DEF Fail, IInv, ListedIsSeen, ResultIsTrue
<1>2. CASE UNCHANGED vars
  <2>1. TypeOK'
    BY <1>2 DEF vars, IInv, TypeOK
  <2> QED BY <1>2, <2>1 DEF vars, IInv, ListedIsSeen, Ahead, ResultIsTrue
<1> QED BY <1>1, <1>2, InstallKeeps, UninstallKeeps, ReadKeeps DEF Next

LEMMA Invariance == Spec => []IInv
  BY InitIInv, StepIInv, PTL DEF Spec

-----------------------------------------------------------------------------
(***************************************************************************)
(* The reader never asks beyond the last page it may read, and the list    *)
(* stays one (github.go:209).                                              *)
(***************************************************************************)
THEOREM UserInstallationsType == Spec => []TypeOK
<1>1. IInv => TypeOK
  BY DEF IInv
<1> QED BY <1>1, Invariance, PTL

(***************************************************************************)
(* For lists, pages and numbers of pages of any size and any changes while *)
(* it reads, the reader concludes nothing that is not so                   *)
(* (github.go:207-233).                                                    *)
(***************************************************************************)
THEOREM ConclusionIsTrue == Spec => []ResultIsTrue
<1>1. IInv => ResultIsTrue
  BY DEF IInv
<1> QED BY <1>1, Invariance, PTL

-----------------------------------------------------------------------------
(* The delay that is told                                                  *)

\* The quotient is the number whose multiples enclose the dividend.
LEMMA QuotientLemma ==
  ASSUME NEW a \in Int, NEW d \in Nat \ {0}
  PROVE  /\ a \div d \in Int
         /\ d * (a \div d) <= a
         /\ a < d * (a \div d) + d
OBVIOUS

LEMMA EnclosedLemma ==
  ASSUME NEW d \in Nat \ {0}, NEW p \in Int, NEW q \in Int, d * p < d * q + d
  PROVE  p <= q
<1>1. SUFFICES ASSUME p >= q + 1 PROVE FALSE
  OBVIOUS
<1>2. d * (p - q - 1) >= 0
  BY <1>1
<1>3. d * (p - q - 1) = d * p - d * q - d
  OBVIOUS
<1> QED BY <1>2, <1>3

LEMMA QuotientIs ==
  ASSUME NEW a \in Int, NEW d \in Nat \ {0}, NEW k \in Int, d * k <= a, a < d * k + d
  PROVE  a \div d = k
<1> DEFINE q == a \div d
<1>1. q \in Int /\ d * q <= a /\ a < d * q + d
  BY QuotientLemma
<1> HIDE DEF q
<1>2. d * k < d * q + d /\ d * q < d * k + d
  BY <1>1
<1>3. k <= q
  BY <1>1, <1>2, EnclosedLemma
<1>4. q <= k
  BY <1>1, <1>2, EnclosedLemma
<1> QED BY <1>1, <1>3, <1>4 DEF q

LEMMA Units ==
  /\ SecondTicks \in Nat \ {0} /\ Minute \in Nat /\ MaxDuration \in Nat
  /\ SecondTicks <= Minute /\ Minute <= MaxDuration
  /\ \E n \in 1..60 : Minute = SecondTicks * n
<1>1. PICK n \in 1..60 : Minute = SecondTicks * n
  BY UnitsAssumption
<1>2. SecondTicks * (n - 1) >= 0
  BY <1>1, UnitsAssumption
<1>3. SecondTicks * (n - 1) = SecondTicks * n - SecondTicks
  BY <1>1, UnitsAssumption
<1> QED BY <1>1, <1>2, <1>3, UnitsAssumption

\* A product that a Duration holds is not changed; none is more than it holds.
LEMMA WrapLemma ==
  ASSUME NEW n \in Nat
  PROVE  /\ Wrap(n) \in Int /\ Wrap(n) <= MaxDuration
         /\ n <= MaxDuration => Wrap(n) = n
<1> DEFINE m == 2 * MaxDuration + 2
           a == n + MaxDuration + 1
<1>1. MaxDuration \in Nat /\ m \in Nat \ {0} /\ a \in Nat
  BY Units
<1>2. Wrap(n) = (a % m) - (MaxDuration + 1)
  BY DEF Wrap
<1>3. n <= MaxDuration => a < m
  BY <1>1
<1>4. m = 2 * MaxDuration + 2 /\ a = n + MaxDuration + 1
  OBVIOUS
<1> HIDE DEF m, a
<1>5. a % m \in 0..(m - 1)
  BY <1>1
<1>6. a < m => a % m = a
  BY <1>1
<1> QED BY <1>1, <1>2, <1>3, <1>4, <1>5, <1>6

MaxSeconds == MaxDuration \div SecondTicks

LEMMA MaxSecondsLemma ==
  /\ MaxSeconds \in Nat \ {0}
  /\ SecondTicks * MaxSeconds <= MaxDuration
  /\ MaxDuration < SecondTicks * MaxSeconds + SecondTicks
<1>1. /\ MaxSeconds \in Int
      /\ SecondTicks * MaxSeconds <= MaxDuration
      /\ MaxDuration < SecondTicks * MaxSeconds + SecondTicks
  BY Units, QuotientLemma DEF MaxSeconds
<1>2. SecondTicks * 1 < SecondTicks * MaxSeconds + SecondTicks
  BY <1>1, Units
<1>3. 1 <= MaxSeconds
  BY <1>1, <1>2, Units, EnclosedLemma
<1> QED BY <1>1, <1>3

\* Rounding loses less than a second, and nothing of whole seconds.
LEMMA RoundedLemma ==
  ASSUME NEW x \in Nat, x <= MaxDuration
  PROVE  /\ Rounded(x) \in 0..MaxSeconds
         /\ x - SecondTicks < SecondTicks * Rounded(x)
         /\ \A k \in Nat : x = SecondTicks * k => Rounded(x) = k
<1> DEFINE d == 2 * SecondTicks
           q == (2 * x + SecondTicks) \div d
<1>1. /\ d \in Nat \ {0} /\ 2 * x + SecondTicks \in Nat
      /\ SecondTicks \in Nat \ {0} /\ MaxSeconds \in Nat
      /\ SecondTicks * MaxSeconds \in Nat /\ MaxDuration \in Nat
  BY Units, MaxSecondsLemma
<1>2. q \in Int /\ d * q <= 2 * x + SecondTicks /\ 2 * x + SecondTicks < d * q + d
  <2> DEFINE a == 2 * x + SecondTicks
  <2> HIDE DEF d
  <2>1. a \in Int /\ d \in Nat \ {0}
    BY <1>1
  <2> HIDE DEF a
  <2>2. a \div d \in Int /\ d * (a \div d) <= a /\ a < d * (a \div d) + d
    BY <2>1, QuotientLemma
  <2> QED BY <2>2 DEF a
<1>3. Rounded(x) = IF q > MaxSeconds THEN MaxSeconds ELSE q
  BY DEF Rounded, AtMost, MaxSeconds
<1>4. \A k \in Nat : x = SecondTicks * k => q = k
  <2> SUFFICES ASSUME NEW k \in Nat, x = SecondTicks * k PROVE q = k
    OBVIOUS
  <2>1. d * k = 2 * x
    BY <1>1
  <2>2. d * k <= 2 * x + SecondTicks /\ 2 * x + SecondTicks < d * k + d
    BY <2>1, <1>1
  <2> QED BY <1>1, <2>2, QuotientIs
<1>5. \A k \in Nat : x = SecondTicks * k => k <= MaxSeconds
  <2> SUFFICES ASSUME NEW k \in Nat, x = SecondTicks * k PROVE k <= MaxSeconds
    OBVIOUS
  <2>1. SecondTicks * k < SecondTicks * MaxSeconds + SecondTicks
    BY <1>1, MaxSecondsLemma
  <2> QED BY <1>1, <2>1, EnclosedLemma
<1>6. d * q = 2 * (SecondTicks * q) /\ SecondTicks * q \in Int
  BY <1>1, <1>2
<1>7. 0 <= q
  <2>1. d * 0 < d * q + d
    BY <1>1, <1>2
  <2> QED BY <1>1, <1>2, <2>1, EnclosedLemma
<1>8. x - SecondTicks < SecondTicks * q
  BY <1>1, <1>2, <1>6
<1>9. x - SecondTicks < SecondTicks * MaxSeconds
  BY <1>1, MaxSecondsLemma
<1> HIDE DEF q, d
<1> QED BY <1>1, <1>2, <1>3, <1>4, <1>5, <1>7, <1>8, <1>9

\* What writeForgeError makes of a delay.
LEMMA RetryAfterLemma ==
  ASSUME NEW x \in Int, x <= MaxDuration
  PROVE  /\ RetryAfter(x) \in 1..MaxSeconds
         /\ x - SecondTicks < SecondTicks * RetryAfter(x)
         /\ x <= 0 => SecondTicks * RetryAfter(x) = Minute
         /\ \A k \in Nat \ {0} : x = SecondTicks * k => RetryAfter(x) = k
<1> DEFINE y == IF x > 0 THEN x ELSE Minute
           r == Rounded(y)
<1>1. /\ SecondTicks \in Nat \ {0} /\ Minute \in Nat \ {0} /\ MaxDuration \in Nat
      /\ MaxSeconds \in Nat \ {0} /\ Minute <= MaxDuration
  BY Units, MaxSecondsLemma
<1>2. y \in Nat /\ x <= y /\ y <= MaxDuration
  BY <1>1
<1>3. /\ r \in 0..MaxSeconds
      /\ y - SecondTicks < SecondTicks * r
      /\ \A k \in Nat : y = SecondTicks * k => r = k
  <2> HIDE DEF y
  <2> QED BY <1>2, RoundedLemma
<1>4. RetryAfter(x) = IF r < 1 THEN 1 ELSE r
  BY DEF RetryAfter, AtLeast
<1>5. x > 0 => y = x
  OBVIOUS
<1>6. x <= 0 => y = Minute
  OBVIOUS
<1>7. SecondTicks * 1 = SecondTicks /\ SecondTicks * 0 = 0 /\ SecondTicks * r \in Int
  BY <1>1, <1>3
<1> HIDE DEF y, r
<1>8. RetryAfter(x) \in 1..MaxSeconds
  BY <1>1, <1>3, <1>4
<1>9. x - SecondTicks < SecondTicks * RetryAfter(x)
  <2>1. CASE r = 0
    <3>1. RetryAfter(x) = 1
      BY <2>1, <1>4
    <3>2. y - SecondTicks < 0
      BY <2>1, <1>3, <1>7
    <3> QED BY <3>1, <3>2, <1>1, <1>2, <1>7
  <2>2. CASE r # 0
    <3>1. RetryAfter(x) = r
      BY <2>2, <1>3, <1>4
    <3> QED BY <3>1, <1>1, <1>2, <1>3, <1>7
  <2> QED BY <2>1, <2>2
<1>10. x <= 0 => SecondTicks * RetryAfter(x) = Minute
  <2> SUFFICES ASSUME x <= 0 PROVE SecondTicks * RetryAfter(x) = Minute
    OBVIOUS
  <2>1. PICK n \in 1..60 : Minute = SecondTicks * n
    BY Units
  <2>2. r = n
    BY <1>3, <1>6, <2>1
  <2> QED BY <1>4, <2>1, <2>2
<1>11. \A k \in Nat \ {0} : x = SecondTicks * k => RetryAfter(x) = k
  <2> SUFFICES ASSUME NEW k \in Nat \ {0}, x = SecondTicks * k PROVE RetryAfter(x) = k
    OBVIOUS
  <2>1. x > 0
    BY <1>1
  <2>2. r = k
    BY <1>3, <1>5, <2>1
  <2> QED BY <1>4, <2>2
<1> QED BY <1>8, <1>9, <1>10, <1>11

LEMMA CeilLemma ==
  /\ \A t \in Nat : /\ CeilSeconds(t) \in Int
                    /\ t <= SecondTicks * CeilSeconds(t)
  /\ \A k \in Int : CeilSeconds(SecondTicks * k) = k
<1>1. ASSUME NEW t \in Nat
      PROVE  CeilSeconds(t) \in Int /\ t <= SecondTicks * CeilSeconds(t)
  <2> DEFINE a == t + SecondTicks - 1
             c == a \div SecondTicks
  <2>1. a \in Int /\ SecondTicks \in Nat \ {0} /\ CeilSeconds(t) = c
    BY Units DEF CeilSeconds
  <2>2. c \in Int /\ a < SecondTicks * c + SecondTicks
    <3> HIDE DEF a
    <3> QED BY <2>1, QuotientLemma
  <2>3. SecondTicks * c \in Int
    BY <2>1, <2>2
  <2>4. t + SecondTicks - 1 < SecondTicks * c + SecondTicks
    BY <2>2
  <2> HIDE DEF c
  <2> QED BY <2>1, <2>2, <2>3, <2>4
<1>2. ASSUME NEW k \in Int
      PROVE  CeilSeconds(SecondTicks * k) = k
  <2> DEFINE a == SecondTicks * k + SecondTicks - 1
  <2>1. /\ a \in Int /\ SecondTicks \in Nat \ {0} /\ SecondTicks * k \in Int
        /\ CeilSeconds(SecondTicks * k) = a \div SecondTicks
    BY Units DEF CeilSeconds
  <2>2. SecondTicks * k <= a /\ a < SecondTicks * k + SecondTicks
    BY <2>1
  <2> HIDE DEF a
  <2> QED BY <2>1, <2>2, QuotientIs
<1> QED BY <1>1, <1>2

-----------------------------------------------------------------------------
(* The invariant                                                           *)

\* A client that tries again at t after n refusals comes after the limit, or
\* early by what the rounding and the clock make of it, less every time.
Within(n, t) ==
  \/ limit <= t
  \/ n = 1 /\ limit - t <= skew + SecondTicks - 1
  \/ n = 2 /\ limit - t <= skew - 1

\* The headers GitHub sent are those of the limit.
ReplyCovers ==
  /\ limit # None /\ since <= now /\ since < limit
  /\ \/ reply.after = None /\ reply.reset \in Int /\ reply.reset * SecondTicks = limit
     \/ /\ reply.reset = None /\ reply.after \in Nat \ {0}
        /\ since + reply.after * SecondTicks >= limit

AskedWithin ==
  \/ overlong
  \/ refusals = 1
  \/ refusals \in {2, 3} /\ Within(refusals - 1, since)

RateInv ==
  /\ RateTypeOK
  /\ limit # None => refusals # 0 /\ limit = SecondTicks * CeilSeconds(limit)
  /\ limit = None => refusals = 0
  /\ (at = "waiting" /\ limit # None) => (overlong \/ Within(refusals, due))
  /\ at = "asked" => ReplyCovers /\ AskedWithin
  /\ at = "told" => /\ limit # None
                    /\ overlong \/ Within(refusals, now + told * SecondTicks)
  /\ RetryAfterHonoured
  /\ ObedientClientGetsThrough

LEMMA RateTypes ==
  ASSUME RateTypeOK
  PROVE  /\ now \in Nat /\ skew \in Int /\ skew <= Minute /\ since \in Nat
         /\ told \in Nat /\ due \in Nat /\ refusals \in Nat /\ overlong \in BOOLEAN
         /\ limit # None => limit \in Nat
         /\ None \notin Int
         /\ MaxTime \in Nat
<1>1. told \in Nat
  BY MaxSecondsLemma DEF RateTypeOK, MaxSeconds
<1> QED BY <1>1, InputsAssumption DEF RateTypeOK

LEMMA RateInitInv == RateInit => RateInv
<1> SUFFICES ASSUME RateInit PROVE RateInv
  OBVIOUS
<1>1. RateTypeOK
  <2>1. told \in 0..(MaxDuration \div SecondTicks)
    <3>1. 0 \in 0..MaxSeconds
      BY MaxSecondsLemma
    <3> QED BY <3>1 DEF RateInit, MaxSeconds
  <2>2. now \in 0..MaxTime
    BY InputsAssumption DEF RateInit
  <2>3. {since, due, refusals} \subseteq Nat
    BY DEF RateInit
  <2> QED BY <2>1, <2>2, <2>3 DEF RateInit, RateTypeOK
<1> QED BY <1>1 DEF RateInit, RateInv, RetryAfterHonoured, ObedientClientGetsThrough

-----------------------------------------------------------------------------
(* The steps                                                               *)

\* What GOLFS tells the client, from headers that cover the limit.
LEMMA AnswerLemma ==
  ASSUME RateTypeOK, ReplyCovers,
         NEW told1, told1 = RetryAfter(Delay(reply, now + skew))
  PROVE  /\ told1 \in 1..MaxSeconds
         /\ (reply.after # None /\ reply.after > 0 /\ Held(reply.after))
              => told1 = reply.after
         /\ (AskedWithin /\ ~overlong /\ ~Overlong(reply, now + skew))
              => Within(refusals, now + told1 * SecondTicks)
<1> DEFINE x == limit - (now + skew)
<1>1. /\ now \in Nat /\ skew \in Int /\ skew <= Minute /\ since \in Nat
      /\ limit \in Nat /\ refusals \in Nat /\ since <= now /\ since < limit
      /\ None \notin Int /\ x \in Int
  BY RateTypes DEF ReplyCovers
<1>2. /\ SecondTicks \in Nat \ {0} /\ Minute \in Nat \ {0} /\ MaxDuration \in Nat
      /\ Minute <= MaxDuration /\ MaxSeconds \in Nat \ {0}
  BY Units, MaxSecondsLemma
<1>3. CASE reply.after = None /\ reply.reset \in Int /\ reply.reset * SecondTicks = limit
  <2> DEFINE left == AtMost(x, MaxDuration)
  <2>1. Delay(reply, now + skew) = IF left > 0 THEN left ELSE Minute
    BY <1>1, <1>3 DEF Delay, Until
  <2>2. left \in Int /\ left <= MaxDuration /\ (x <= MaxDuration => left = x)
    BY <1>1, <1>2 DEF AtMost
  <2> HIDE DEF left
  <2>3. CASE left <= 0
    <3>1. told1 = RetryAfter(Minute)
      BY <2>1, <2>2, <2>3
    <3>2. PICK n \in 1..60 : Minute = SecondTicks * n
      BY Units
    <3>3. told1 = n /\ told1 \in 1..MaxSeconds
      BY <1>2, <3>1, <3>2, RetryAfterLemma
    <3>4. told1 * SecondTicks = Minute
      BY <1>2, <3>2, <3>3
    <3>5. ASSUME ~Overlong(reply, now + skew)
          PROVE  Within(refusals, now + told1 * SecondTicks)
      <4>1. x <= MaxDuration
        BY <1>1, <1>3, <3>5 DEF Overlong, HeldUntil
      <4>2. x <= 0
        BY <2>2, <2>3, <4>1
      <4>3. limit <= now + Minute
        BY <1>1, <1>2, <4>2
      <4> QED BY <3>4, <4>3 DEF Within
    <3> QED BY <1>3, <3>3, <3>5
  <2>4. CASE left > 0
    <3>1. told1 = RetryAfter(left)
      BY <2>1, <2>4
    <3>2. told1 \in 1..MaxSeconds /\ left - SecondTicks < SecondTicks * told1
      BY <2>2, <3>1, RetryAfterLemma
    <3> DEFINE w == told1 * SecondTicks
    <3>3. w \in Int /\ w = SecondTicks * told1 /\ SecondTicks <= w
      <4>1. SecondTicks * (told1 - 1) >= 0
        BY <1>2, <3>2
      <4>2. SecondTicks * (told1 - 1) = SecondTicks * told1 - SecondTicks
        BY <1>2, <3>2
      <4> QED BY <1>2, <3>2, <4>1, <4>2
    <3> HIDE DEF w
    <3>4. ASSUME AskedWithin, ~overlong, ~Overlong(reply, now + skew)
          PROVE  Within(refusals, now + w)
      <4>1. left = x
        BY <1>1, <1>3, <2>2, <3>4 DEF Overlong, HeldUntil
      <4>2. limit - (now + skew) > 0 /\ limit - (now + skew) - SecondTicks < w
        BY <2>4, <3>2, <3>3, <4>1
      <4>3. CASE refusals = 1
        <5>1. limit - (now + w) <= skew + SecondTicks - 1
          BY <1>1, <1>2, <3>3, <4>2
        <5> QED BY <4>3, <5>1 DEF Within
      <4>4. CASE refusals = 2
        <5>1. limit - since <= skew + SecondTicks - 1
          BY <1>1, <3>4, <4>4 DEF AskedWithin, Within
        <5>2. limit - (now + w) <= skew - 1
          BY <1>1, <1>2, <3>3, <5>1
        <5> QED BY <4>4, <5>2 DEF Within
      <4>5. CASE refusals = 3
        <5>1. limit - since <= skew - 1
          BY <1>1, <3>4, <4>5 DEF AskedWithin, Within
        <5> QED BY <1>1, <4>2, <5>1
      <4> QED BY <3>4, <4>3, <4>4, <4>5 DEF AskedWithin
    <3> QED BY <1>3, <3>2, <3>4 DEF w
  <2> QED BY <2>2, <2>3, <2>4
<1>4. CASE /\ reply.reset = None /\ reply.after \in Nat \ {0}
           /\ since + reply.after * SecondTicks >= limit
  <2> DEFINE k == reply.after
             n == k * SecondTicks
  <2>1. k \in Nat \ {0} /\ n \in Nat /\ n = SecondTicks * k /\ k # None /\ k > 0
    BY <1>1, <1>2, <1>4
  <2>2. Delay(reply, now + skew) = Wrap(n)
    BY <2>1 DEF Delay
  <2> HIDE DEF k, n
  <2>3. Wrap(n) \in Int /\ Wrap(n) <= MaxDuration /\ (n <= MaxDuration => Wrap(n) = n)
    BY <2>1, WrapLemma
  <2>4. told1 \in 1..MaxSeconds
    BY <2>2, <2>3, RetryAfterLemma
  <2>5. n <= MaxDuration => told1 = k
    <3> SUFFICES ASSUME n <= MaxDuration PROVE told1 = k
      OBVIOUS
    <3>1. Wrap(n) = SecondTicks * k
      BY <2>1, <2>3
    <3>2. \A j \in Nat \ {0} : Wrap(n) = SecondTicks * j => RetryAfter(Wrap(n)) = j
      BY <2>3, RetryAfterLemma
    <3> QED BY <2>1, <2>2, <3>1, <3>2
  <2>6. Held(reply.after) => told1 = reply.after
    BY <2>5 DEF Held, k, n
  <2>7. ~Overlong(reply, now + skew) => told1 = reply.after
    BY <2>1, <2>6 DEF Overlong, k
  <2>8. now + reply.after * SecondTicks >= limit
    BY <1>1, <1>2, <1>4
  <2>9. ~Overlong(reply, now + skew) => limit <= now + told1 * SecondTicks
    BY <1>1, <1>2, <1>4, <2>7, <2>8
  <2> QED BY <2>4, <2>6, <2>9 DEF Within
<1> QED BY <1>3, <1>4 DEF ReplyCovers

LEMMA RefusedKeeps ==
  ASSUME RateInv, Refused
  PROVE  RateInv'
<1>1. RateTypeOK /\ at = "waiting" /\ now >= due
  BY DEF RateInv, Refused
<1>2. /\ now \in Nat /\ skew \in Int /\ skew <= Minute /\ since \in Nat /\ due \in Nat
      /\ refusals \in Nat /\ overlong \in BOOLEAN /\ None \notin Int
  BY <1>1, RateTypes
<1>3. SecondTicks \in Nat \ {0}
  BY Units
<1>4. limit' \in Nat /\ now < limit' /\ limit' = SecondTicks * CeilSeconds(limit')
  <2>1. CASE limit = None /\ \E n \in Limits : limit' = SecondTicks * CeilSeconds(now + n)
    <3>1. PICK n \in Limits : limit' = SecondTicks * CeilSeconds(now + n)
      BY <2>1
    <3>2. n \in Nat \ {0} /\ now + n \in Nat
      BY <1>2, InputsAssumption
    <3>3. CeilSeconds(now + n) \in Int /\ now + n <= SecondTicks * CeilSeconds(now + n)
      BY <3>2, CeilLemma
    <3>4. CeilSeconds(limit') = CeilSeconds(now + n)
      BY <3>1, <3>3, CeilLemma
    <3>5. SecondTicks * CeilSeconds(now + n) \in Int
      BY <1>3, <3>3
    <3> QED BY <1>2, <3>1, <3>2, <3>3, <3>4, <3>5
  <2>2. CASE limit # None /\ now < limit /\ UNCHANGED limit
    <3>1. limit \in Nat /\ limit = SecondTicks * CeilSeconds(limit)
      BY <1>1, <2>2, RateTypes DEF RateInv
    <3>2. limit' = limit
      BY <2>2
    <3> QED BY <2>2, <3>1, <3>2
  <2> QED BY <2>1, <2>2 DEF Refused
<1>5. ReplyCovers'
  <2>1. PICK h \in LimitHeaders(limit') : reply' = h
    BY DEF Refused
  <2>2. since' = now /\ now' = now
    BY DEF Refused
  <2>3. CASE h = Headers(None, CeilSeconds(limit'))
    <3>1. reply'.after = None /\ reply'.reset = CeilSeconds(limit')
      BY <2>1, <2>3 DEF Headers
    <3>2. CeilSeconds(limit') \in Int
      BY <1>4, CeilLemma
    <3>3. CeilSeconds(limit') * SecondTicks = limit'
      BY <1>3, <1>4, <3>2
    <3> QED BY <1>2, <1>4, <2>2, <3>1, <3>2, <3>3 DEF ReplyCovers
  <2>4. ASSUME NEW n \in AskedFor, now + n * SecondTicks >= limit', h = Headers(n, None)
        PROVE  ReplyCovers'
    <3>1. reply'.after = n /\ reply'.reset = None
      BY <2>1, <2>4 DEF Headers
    <3>2. n \in Nat /\ n # 0
      <4>1. n \in Nat
        BY InputsAssumption
      <4>2. 0 * SecondTicks = 0
        BY <1>3
      <4> QED BY <1>2, <1>4, <2>4, <4>1, <4>2
    <3> QED BY <1>2, <1>4, <2>2, <2>4, <3>1, <3>2 DEF ReplyCovers
  <2> QED BY <2>1, <2>3, <2>4 DEF LimitHeaders
<1>6. AskedWithin' /\ (overlong' \/ refusals' <= 3) /\ refusals' \in Nat \ {0}
  <2>1. since' = now /\ refusals' = refusals + 1 /\ overlong' = overlong /\ skew' = skew
    BY DEF Refused
  <2>2. CASE limit = None
    <3>1. refusals = 0
      BY <2>2 DEF RateInv
    <3> QED BY <2>1, <3>1 DEF AskedWithin
  <2>3. CASE limit # None /\ now < limit /\ limit' = limit /\ ~overlong
    <3>1. limit \in Nat /\ refusals # 0
      BY <1>1, <2>3, RateTypes DEF RateInv
    <3>2. Within(refusals, due) /\ ~(limit <= due)
      BY <1>1, <1>2, <2>3, <3>1 DEF RateInv
    <3>3. CASE refusals = 1 /\ limit - due <= skew + SecondTicks - 1
      <4>1. limit - now <= skew + SecondTicks - 1 /\ refusals' = 2
        BY <1>1, <1>2, <1>3, <2>1, <3>1, <3>3
      <4> QED BY <2>1, <2>3, <4>1 DEF AskedWithin, Within
    <3>4. CASE refusals = 2 /\ limit - due <= skew - 1
      <4>1. limit - now <= skew - 1 /\ refusals' = 3
        BY <1>1, <1>2, <1>3, <2>1, <3>1, <3>4
      <4> QED BY <2>1, <2>3, <4>1 DEF AskedWithin, Within
    <3> QED BY <3>2, <3>3, <3>4 DEF Within
  <2>4. CASE overlong
    BY <1>2, <2>1, <2>4 DEF AskedWithin
  <2> QED BY <1>2, <2>2, <2>3, <2>4 DEF Refused
<1>7. RateTypeOK'
  <2>1. {now, refusals + 1} \subseteq Nat
    BY <1>2
  <2> QED BY <1>1, <1>2, <1>4, <2>1 DEF RateTypeOK, Refused
<1>8. at' = "asked" /\ limit' # None
  BY <1>2, <1>4 DEF Refused
<1> QED BY <1>4, <1>5, <1>6, <1>7, <1>8 DEF RateInv, RetryAfterHonoured,
                                            ObedientClientGetsThrough

LEMMA AnswerKeeps ==
  ASSUME RateInv, Answer429
  PROVE  RateInv'
<1>1. RateTypeOK /\ at = "asked" /\ ReplyCovers /\ AskedWithin
  BY DEF RateInv, Answer429
<1>2. /\ told' = RetryAfter(Delay(reply, now + skew)) /\ at' = "told" /\ since' = now
      /\ overlong' = (overlong \/ Overlong(reply, now + skew))
      /\ UNCHANGED <<now, skew, limit, reply, due, refusals>>
  BY DEF Answer429
<1>3. /\ told' \in 1..MaxSeconds
      /\ (reply.after # None /\ reply.after > 0 /\ Held(reply.after)) => told' = reply.after
      /\ ~overlong' => Within(refusals, now + told' * SecondTicks)
  BY <1>1, <1>2, AnswerLemma
<1>4. told' \in 0..MaxSeconds /\ told' >= 1
  BY <1>3, MaxSecondsLemma
<1>5. RateTypeOK'
  <2>1. now \in Nat /\ overlong' \in BOOLEAN
    BY <1>1, <1>2, RateTypes
  <2> QED BY <1>1, <1>2, <1>4, <2>1 DEF RateTypeOK, MaxSeconds
<1>6. RetryAfterHonoured'
  BY <1>2, <1>3, <1>4 DEF RetryAfterHonoured
<1>7. overlong' \/ Within(refusals, now + told * SecondTicks)'
  BY <1>2, <1>3 DEF Within
<1>8. ObedientClientGetsThrough'
  BY <1>2 DEF RateInv, ObedientClientGetsThrough
<1>9. limit' # None
  BY <1>1, <1>2 DEF ReplyCovers
<1> QED BY <1>2, <1>5, <1>6, <1>7, <1>8, <1>9 DEF RateInv

LEMMA ObeyKeeps ==
  ASSUME RateInv, Obey
  PROVE  RateInv'
<1>1. RateTypeOK /\ at = "told"
  BY DEF RateInv, Obey
<1>2. /\ due' = now + told * SecondTicks /\ at' = "waiting" /\ since' = 0 /\ told' = 0
      /\ UNCHANGED <<now, skew, limit, refusals, overlong>>
  BY DEF Obey
<1>3. now \in Nat /\ told \in Nat /\ SecondTicks \in Nat /\ refusals \in Nat
  BY <1>1, RateTypes, Units
<1>4. RateTypeOK'
  <2>1. now + told * SecondTicks \in Nat
    BY <1>3
  <2>2. 0 \in 0..MaxSeconds
    BY MaxSecondsLemma
  <2> QED BY <1>1, <1>2, <1>3, <2>1, <2>2 DEF RateTypeOK, MaxSeconds
<1>5. overlong' \/ Within(refusals, due)'
  BY <1>1, <1>2 DEF RateInv, Within
<1> QED BY <1>2, <1>4, <1>5 DEF RateInv, RetryAfterHonoured, ObedientClientGetsThrough

LEMMA TickKeeps ==
  ASSUME RateInv, Tick
  PROVE  RateInv'
<1>1. RateTypeOK
  BY DEF RateInv
<1>2. /\ now' = now + 1 /\ now < MaxTime
      /\ UNCHANGED <<skew, limit, at, reply, since, told, due, refusals, overlong>>
  BY DEF Tick
<1>3. /\ now \in Nat /\ since \in Nat /\ told \in Nat /\ MaxTime \in Nat /\ skew \in Int
      /\ limit # None => limit \in Nat
      /\ SecondTicks \in Nat \ {0}
  BY <1>1, RateTypes, Units
<1>4. RateTypeOK'
  <2>1. now + 1 \in 0..MaxTime
    BY <1>2, <1>3
  <2> QED BY <1>1, <1>2, <2>1 DEF RateTypeOK
<1>5. ReplyCovers => ReplyCovers'
  <2>1. since <= now => since <= now + 1
    BY <1>3
  <2> QED BY <1>2, <2>1 DEF ReplyCovers
<1>6. AskedWithin => AskedWithin'
  BY <1>2 DEF AskedWithin, Within
<1>7. (limit # None /\ Within(refusals, now + told * SecondTicks))
        => Within(refusals, now + told * SecondTicks)'
  <2> DEFINE w == told * SecondTicks
  <2>1. w \in Int /\ w' = w
    BY <1>2, <1>3
  <2> HIDE DEF w
  <2> SUFFICES ASSUME limit # None, Within(refusals, now + w)
               PROVE  Within(refusals, now + w)'
    BY DEF w
  <2>2. limit \in Nat
    BY <1>3
  <2>3. limit <= now + w => limit <= now + 1 + w
    BY <1>3, <2>1, <2>2
  <2>4. /\ limit - (now + w) <= skew + SecondTicks - 1
             => limit - (now + 1 + w) <= skew + SecondTicks - 1
        /\ limit - (now + w) <= skew - 1 => limit - (now + 1 + w) <= skew - 1
    BY <1>3, <2>1, <2>2
  <2> QED BY <1>2, <2>1, <2>3, <2>4 DEF Within
<1>8. Within(refusals, due) => Within(refusals, due)'
  BY <1>2 DEF Within
<1>9. RetryAfterHonoured' /\ ObedientClientGetsThrough'
  BY <1>2 DEF RateInv, RetryAfterHonoured, ObedientClientGetsThrough
<1>10. (at = "waiting" /\ limit # None) => (overlong' \/ Within(refusals, due)')
  BY <1>2, <1>8 DEF RateInv
<1>11. at = "asked" => ReplyCovers' /\ AskedWithin'
  BY <1>5, <1>6 DEF RateInv
<1>12. at = "told" => /\ limit # None
                      /\ overlong' \/ Within(refusals, now + told * SecondTicks)'
  BY <1>2, <1>7 DEF RateInv
<1>13. /\ limit # None => refusals # 0 /\ limit = SecondTicks * CeilSeconds(limit)
       /\ limit = None => refusals = 0
  BY DEF RateInv
<1> QED BY <1>2, <1>4, <1>9, <1>10, <1>11, <1>12, <1>13 DEF RateInv

LEMMA RateStepInv == RateInv /\ [RateNext]_rateVars => RateInv'
<1> SUFFICES ASSUME RateInv, [RateNext]_rateVars PROVE RateInv'
  OBVIOUS
<1>1. CASE Refused
  BY <1>1, RefusedKeeps
<1>2. CASE Served
  <2>1. /\ at' = "served"
        /\ UNCHANGED <<now, skew, limit, reply, since, told, due, refusals, overlong>>
    BY <1>2 DEF Served
  <2>2. RateTypeOK'
    BY <2>1 DEF RateInv, RateTypeOK
  <2> QED BY <2>1, <2>2 DEF RateInv, RetryAfterHonoured, ObedientClientGetsThrough
<1>3. CASE Answer429
  BY <1>3, AnswerKeeps
<1>4. CASE Obey
  BY <1>4, ObeyKeeps
<1>5. CASE Tick
  BY <1>5, TickKeeps
<1>6. CASE UNCHANGED rateVars
  BY <1>6 DEF rateVars, RateInv, RateTypeOK, ReplyCovers, AskedWithin, Within,
              RetryAfterHonoured, ObedientClientGetsThrough
<1> QED BY <1>1, <1>2, <1>3, <1>4, <1>5, <1>6 DEF RateNext

LEMMA RateInvariance == RateSpec => []RateInv
  BY RateInitInv, RateStepInv, PTL DEF RateSpec

(***************************************************************************)
(* RateLimit: the delay that is told fits an int64 of nanoseconds, and the *)
(* times and counts are numbers.                                           *)
(***************************************************************************)
THEOREM RateLimitType == RateSpec => []RateTypeOK
<1>1. RateInv => RateTypeOK
  BY DEF RateInv
<1> QED BY <1>1, RateInvariance, PTL

(***************************************************************************)
(* A client that waits as told is refused by one limit three times at      *)
(* most (github.go:313-323, handler.go:429-433), unless GitHub asked for   *)
(* more than a Duration can hold.                                          *)
(***************************************************************************)
THEOREM ThreeRefusalsAtMost == RateSpec => []ObedientClientGetsThrough
<1>1. RateInv => ObedientClientGetsThrough
  BY DEF RateInv
<1> QED BY <1>1, RateInvariance, PTL

(***************************************************************************)
(* At least a second is told, and a Retry-After that a Duration can hold   *)
(* as it is (github.go:315-316, handler.go:433).                           *)
(***************************************************************************)
THEOREM DelayHonoured == RateSpec => []RetryAfterHonoured
<1>1. RateInv => RetryAfterHonoured
  BY DEF RateInv
<1> QED BY <1>1, RateInvariance, PTL
=============================================================================
