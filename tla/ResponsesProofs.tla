-------------------------- MODULE ResponsesProofs --------------------------
(***************************************************************************)
(* What a request is answered, for any list of objects, any answers of     *)
(* GitHub and of the bucket, any number of pages and any limits.           *)
(***************************************************************************)
EXTENDS Responses, WellFoundedInduction, TLAPS

-----------------------------------------------------------------------------
(* The loop of validateBatch                                               *)

\* A set of numbers has a least one: induction, told of sets.
LEMMA MinimalLemma ==
  ASSUME NEW T \in SUBSET Nat, T # {}
  PROVE  \E n \in T : \A m \in T : ~(m < n)
<1>1. IsWellFoundedOn(OpToRel(<, Nat), Nat)
  BY NatLessThanWellFounded
<1>2. PICK n \in T : \A m \in T : <<m, n>> \notin OpToRel(<, Nat)
  BY <1>1, WFMin
<1> QED BY <1>2 DEF OpToRel

LEMMA LeastLemma ==
  ASSUME NEW T \in SUBSET Nat, T # {}
  PROVE  \E n \in T : \A m \in T : n <= m
<1>1. PICK n \in T : \A m \in T : ~(m < n)
  BY MinimalLemma
<1> QED BY <1>1

NoRound == [ok |-> TRUE, seen |-> [o \in Oid |-> None]]

IsRun(objects, n, g) ==
  g = [m \in 0..n |-> IF m = 0 THEN NoRound ELSE Look(g[m - 1], objects[m])]

LEMMA RunsLemma ==
  ASSUME NEW objects, NEW N \in Nat
  PROVE  \E g : IsRun(objects, N, g)
<1> DEFINE T == {n \in Nat : ~ \E g : IsRun(objects, n, g)}
<1>1. SUFFICES ASSUME T # {} PROVE FALSE
  OBVIOUS
<1>2. PICK n \in T : \A m \in T : n <= m
  BY <1>1, LeastLemma
<1>3. n \in Nat /\ ~ \E g : IsRun(objects, n, g)
  BY <1>2
<1>4. n # 0
  <2> DEFINE g == [m \in 0..0 |-> NoRound]
  <2>1. g = [m \in 0..0 |-> IF m = 0 THEN NoRound ELSE Look(g[m - 1], objects[m])]
    OBVIOUS
  <2>2. IsRun(objects, 0, g)
    BY <2>1 DEF IsRun
  <2> QED BY <1>3, <2>2
<1>5. n - 1 \in Nat /\ n - 1 \notin T
  BY <1>2, <1>3, <1>4
<1>6. PICK g : IsRun(objects, n - 1, g)
  BY <1>5
<1> DEFINE h == [m \in 0..n |-> IF m = n THEN Look(g[n - 1], objects[n]) ELSE g[m]]
<1>7. ASSUME NEW m \in 0..n
      PROVE  h[m] = IF m = 0 THEN NoRound ELSE Look(h[m - 1], objects[m])
  <2>1. CASE m = n
    <3>1. h[m] = Look(g[n - 1], objects[n])
      BY <2>1
    <3>2. n - 1 \in 0..n /\ n - 1 # n
      BY <1>3, <1>5
    <3>3. h[n - 1] = g[n - 1]
      BY <3>2
    <3> HIDE DEF h
    <3> QED BY <1>4, <2>1, <3>1, <3>3
  <2>2. CASE m # n
    <3>1. m \in 0..(n - 1)
      BY <1>3, <2>2
    <3>2. h[m] = g[m]
      BY <2>2
    <3>3. g[m] = IF m = 0 THEN NoRound ELSE Look(g[m - 1], objects[m])
      BY <1>6, <3>1 DEF IsRun
    <3>4. m # 0 => h[m - 1] = g[m - 1]
      <4>1. m # 0 => m - 1 \in 0..n /\ m - 1 # n
        BY <1>3, <3>1
      <4> QED BY <4>1
    <3> HIDE DEF h
    <3> QED BY <3>2, <3>3, <3>4
  <2> QED BY <2>1, <2>2
<1>8. h = [m \in 0..n |-> h[m]]
  OBVIOUS
<1> HIDE DEF h
<1>9. IsRun(objects, n, h)
  BY <1>7, <1>8 DEF IsRun
<1> QED BY <1>3, <1>9

LEMMA RoundsLemma ==
  ASSUME NEW objects, Len(objects) \in Nat
  PROVE  IsRun(objects, Len(objects), Rounds(objects))
<1>1. PICK g : IsRun(objects, Len(objects), g)
  BY RunsLemma
<1>2. Rounds(objects) = CHOOSE f : IsRun(objects, Len(objects), f)
  BY DEF Rounds, IsRun, NoRound
<1> QED BY <1>1, <1>2

\* What the loop knows after n rounds: the size it saw last of every OID, and
\* whether all sizes of one OID were the same.
Agree(objects, n) ==
  \A j, k \in 1..n : objects[j].oid = objects[k].oid => objects[j].size = objects[k].size

SeenIs(objects, n, seen) ==
  /\ seen \in [Oid -> Int \cup {None}]
  /\ \A o \in Oid :
       /\ seen[o] = None => \A k \in 1..n : objects[k].oid # o
       /\ seen[o] # None => \E k \in 1..n : objects[k].oid = o /\ objects[k].size = seen[o]

LoopInv(objects, n, s) ==
  /\ SeenIs(objects, n, s.seen)
  /\ s.ok \in BOOLEAN
  /\ s.ok => Agree(objects, n)
  /\ Agree(objects, n) => s.ok

LEMMA RoundKeeps ==
  ASSUME NEW N \in Nat, NEW objects \in [1..N -> [oid : Oid, size : Int]],
         NEW n \in 1..N, NEW s, LoopInv(objects, n - 1, s)
  PROVE  LoopInv(objects, n, Look(s, objects[n]))
<1> DEFINE o == objects[n].oid
           z == objects[n].size
           t == Look(s, objects[n])
<1>1. /\ o \in Oid /\ z \in Int /\ z # None
      /\ objects[n].oid = o /\ objects[n].size = z
  BY NoneAssumption
<1>2. /\ t.ok = (s.ok /\ s.seen[o] \in {None, z})
      /\ t.seen = [s.seen EXCEPT ![o] = z]
  BY DEF Look
<1>3. /\ s.seen \in [Oid -> Int \cup {None}] /\ s.ok \in BOOLEAN
      /\ s.ok => Agree(objects, n - 1)
      /\ Agree(objects, n - 1) => s.ok
  BY DEF LoopInv, SeenIs
<1>4. \A k : k \in 1..n <=> (k \in 1..(n - 1) \/ k = n)
  OBVIOUS
<1> HIDE DEF o, z, t
<1>5. SeenIs(objects, n, t.seen)
  <2>1. t.seen \in [Oid -> Int \cup {None}]
    BY <1>1, <1>2, <1>3
  <2>2. ASSUME NEW p \in Oid, p # o
        PROVE  /\ t.seen[p] = None => \A k \in 1..n : objects[k].oid # p
               /\ t.seen[p] # None => \E k \in 1..n : /\ objects[k].oid = p
                                                      /\ objects[k].size = t.seen[p]
    <3>1. t.seen[p] = s.seen[p]
      BY <1>2, <1>3, <2>2
    <3>2. /\ s.seen[p] = None => \A k \in 1..(n - 1) : objects[k].oid # p
          /\ s.seen[p] # None => \E k \in 1..(n - 1) : /\ objects[k].oid = p
                                                       /\ objects[k].size = s.seen[p]
      BY DEF LoopInv, SeenIs
    <3> QED BY <1>1, <1>4, <2>2, <3>1, <3>2
  <2>3. t.seen[o] = z
    BY <1>1, <1>2, <1>3
  <2>4. n \in 1..n
    OBVIOUS
  <2> QED BY <1>1, <2>1, <2>2, <2>3, <2>4 DEF SeenIs
<1>6. t.ok => Agree(objects, n)
  <2> SUFFICES ASSUME t.ok PROVE Agree(objects, n)
    OBVIOUS
  <2>1. Agree(objects, n - 1) /\ s.seen[o] \in {None, z}
    BY <1>2, <1>3
  <2>2. ASSUME NEW k \in 1..(n - 1), objects[k].oid = o
        PROVE  objects[k].size = z
    <3>1. s.seen[o] # None
      BY <1>1, <2>2 DEF LoopInv, SeenIs
    <3>2. PICK j \in 1..(n - 1) : objects[j].oid = o /\ objects[j].size = s.seen[o]
      BY <1>1, <3>1 DEF LoopInv, SeenIs
    <3> QED BY <2>1, <2>2, <3>1, <3>2 DEF Agree
  <2>3. ASSUME NEW j \in 1..n, NEW k \in 1..n, objects[j].oid = objects[k].oid
        PROVE  objects[j].size = objects[k].size
    <3>1. CASE j = n
      BY <1>1, <1>4, <2>2, <2>3, <3>1
    <3>2. CASE k = n
      BY <1>1, <1>4, <2>2, <2>3, <3>2
    <3>3. CASE j # n /\ k # n
      BY <1>4, <2>1, <2>3, <3>3 DEF Agree
    <3> QED BY <3>1, <3>2, <3>3
  <2> QED BY <2>3 DEF Agree
<1>7. Agree(objects, n) => t.ok
  <2> SUFFICES ASSUME Agree(objects, n) PROVE t.ok
    OBVIOUS
  <2>1. s.ok
    BY <1>3, <1>4 DEF Agree
  <2>2. s.seen[o] \in {None, z}
    <3> SUFFICES ASSUME s.seen[o] # None PROVE s.seen[o] = z
      OBVIOUS
    <3>1. PICK j \in 1..(n - 1) : objects[j].oid = o /\ objects[j].size = s.seen[o]
      BY <1>1 DEF LoopInv, SeenIs
    <3>2. j \in 1..n /\ n \in 1..n
      BY <1>4
    <3> QED BY <1>1, <3>1, <3>2 DEF Agree
  <2> QED BY <1>2, <2>1, <2>2
<1>8. t.ok \in BOOLEAN
  BY <1>2, <1>3
<1> QED BY <1>5, <1>6, <1>7, <1>8 DEF LoopInv, t

LEMMA SeqLemma ==
  ASSUME NEW S, NEW s \in Seq(S)
  PROVE  Len(s) \in Nat /\ s \in [1..Len(s) -> S]
OBVIOUS

\* The loop finds a conflict if and only if there is one.
LEMMA ConsistentLemma ==
  ASSUME NEW objects \in Seq([oid : Oid, size : Int])
  PROVE  ConsistentSizes(objects) <=> Agree(objects, Len(objects))
<1> DEFINE N == Len(objects)
           run == Rounds(objects)
           T == {n \in 0..N : ~LoopInv(objects, n, run[n])}
<1>1. N \in Nat /\ objects \in [1..N -> [oid : Oid, size : Int]]
  BY SeqLemma
<1>2. run = [m \in 0..N |-> IF m = 0 THEN NoRound ELSE Look(run[m - 1], objects[m])]
  BY <1>1, RoundsLemma DEF IsRun
<1> HIDE DEF run, N
<1>3. \A m \in 0..N : run[m] = IF m = 0 THEN NoRound ELSE Look(run[m - 1], objects[m])
  BY <1>2
<1>4. LoopInv(objects, 0, run[0])
  <2>1. run[0] = NoRound
    BY <1>1, <1>3
  <2> QED BY <2>1 DEF NoRound, LoopInv, SeenIs, Agree
<1>5. ASSUME T # {} PROVE FALSE
  <2>1. T \in SUBSET Nat
    BY <1>1
  <2>2. PICK n \in T : \A m \in T : n <= m
    BY <1>5, <2>1, LeastLemma
  <2>3. n # 0 /\ n \in 1..N /\ ~LoopInv(objects, n, run[n])
    BY <1>1, <1>4, <2>2
  <2>4. n - 1 \in 0..N /\ n - 1 \notin T
    BY <1>1, <2>1, <2>2, <2>3
  <2>5. LoopInv(objects, n - 1, run[n - 1])
    BY <2>4
  <2>6. LoopInv(objects, n, Look(run[n - 1], objects[n]))
    BY <1>1, <2>3, <2>5, RoundKeeps
  <2>7. run[n] = Look(run[n - 1], objects[n])
    BY <1>1, <1>3, <2>3
  <2> QED BY <2>3, <2>6, <2>7
<1>6. LoopInv(objects, N, run[N])
  BY <1>1, <1>5
<1>7. ConsistentSizes(objects) = run[N].ok
  BY DEF ConsistentSizes, run, N
<1> QED BY <1>6, <1>7 DEF LoopInv, N

\* A request passes validation if and only if there is nothing wrong in it.
LEMMA ValidLemma ==
  ASSUME NEW i \in Inputs
  PROVE  Valid(i) <=> Consistent(i)
<1>1. i \in Input /\ i.objects \in Seq([oid : Oid, size : Int])
  BY InputsAssumption DEF Input
<1>2. (\A k \in 1..Len(i.objects) : validateObject(i.objects[k]))
        <=> \A k \in 1..Len(i.objects) :
              i.objects[k].oid \in WellFormed /\ i.objects[k].size \in 0..MaxObjectSize
  BY DEF validateObject
<1>3. CASE i.op = "verify"
  <2>1. Len(i.objects) = 1
    BY <1>3, InputsAssumption
  <2>2. \A k : k \in 1..Len(i.objects) <=> k = 1
    BY <2>1
  <2> QED BY <1>2, <1>3, <2>2 DEF Valid, Consistent
<1>4. CASE i.op # "verify"
  <2>1. ConsistentSizes(i.objects) <=> Agree(i.objects, Len(i.objects))
    BY <1>1, ConsistentLemma
  <2> QED BY <1>2, <1>4, <2>1 DEF Valid, validateBatch, Consistent, Agree
<1> QED BY <1>3, <1>4

-----------------------------------------------------------------------------
(* The tables: gates and statuses                                          *)

LEMMA MinLemma ==
  ASSUME NEW I \in SUBSET (1..6), I # {}
  PROVE  Min(I) \in I
<1>1. \E x \in I : \A y \in I : x <= y
  <2>1. CASE 1 \in I
    BY <2>1
  <2>2. CASE 1 \notin I /\ 2 \in I
    BY <2>2
  <2>3. CASE {1, 2} \cap I = {} /\ 3 \in I
    BY <2>3
  <2>4. CASE {1, 2, 3} \cap I = {} /\ 4 \in I
    BY <2>4
  <2>5. CASE {1, 2, 3, 4} \cap I = {} /\ 5 \in I
    BY <2>5
  <2>6. CASE {1, 2, 3, 4, 5} \cap I = {} /\ 6 \in I
    BY <2>6
  <2>7. PICK x : x \in I
    OBVIOUS
  <2>8. x \in 1..6
    BY <2>7
  <2>9. x \in {1, 2, 3, 4, 5, 6}
    BY <2>8
  <2> QED BY <2>9, <2>1, <2>2, <2>3, <2>4, <2>5, <2>6, <2>7
<1> QED BY <1>1 DEF Min

\* A request passes all gates, or is refused by one it does not pass.
LEMMA RefusalLemma ==
  ASSUME NEW i
  PROVE  \/ Refusal(i) = 0 /\ \A k \in 1..6 : Gates(i)[k][1]
         \/ \E k \in 1..6 : ~Gates(i)[k][1] /\ Refusal(i) = Gates(i)[k][2]
<1> DEFINE g == Gates(i)
           I == {k \in 1..6 : ~g[k][1]}
<1>1. Len(g) = 6
  BY DEF Gates
<1>2. SelectInSeq(g, LAMBDA x : ~x[1]) = IF I # {} THEN Min(I) ELSE 0
  BY <1>1 DEF SelectInSeq
<1>3. CASE I = {}
  <2>1. Refusal(i) = 0
    BY <1>2, <1>3 DEF Refusal
  <2> QED BY <1>3, <2>1
<1>4. CASE I # {}
  <2>1. Min(I) \in I
    BY <1>4, MinLemma
  <2>2. Min(I) \in 1..6 /\ Min(I) # 0 /\ ~g[Min(I)][1]
    BY <2>1
  <2> HIDE DEF I, g
  <2>3. Refusal(i) = g[Min(I)][2]
    BY <1>2, <1>4, <2>2 DEF Refusal, g
  <2> QED BY <2>2, <2>3 DEF g
<1> QED BY <1>3, <1>4

LEMMA RefusalMeans ==
  ASSUME NEW i \in Input
  PROVE  /\ Refusal(i) \in {0, 400, 401, 406, 413, 415, 422}
         /\ Refusal(i) = 0 => /\ i.acceptable /\ i.typed /\ i.body = "fine"
                              /\ Valid(i) /\ i.token # "none"
         /\ Refusal(i) = 401 => i.token = "none"
         /\ Refusal(i) = 422 => ~Valid(i)
<1>1. i.body \in {"fine", "malformed", "too_large"}
  BY DEF Input
<1>2. CASE Refusal(i) = 0 /\ \A k \in 1..6 : Gates(i)[k][1]
  <2>1. \A k \in {1, 2, 3, 4, 5, 6} : Gates(i)[k][1]
    BY <1>2
  <2>2. i.acceptable /\ i.typed /\ i.body # "too_large" /\ i.body # "malformed"
    BY <2>1, Zenon DEF Gates
  <2>3. Valid(i) /\ i.token # "none"
    BY <2>1, Zenon DEF Gates
  <2>4. i.body = "fine"
    BY <1>1, <2>2, Zenon
  <2>5. Refusal(i) = 0 /\ Refusal(i) # 401 /\ Refusal(i) # 422
    BY <1>2
  <2> QED BY <2>2, <2>3, <2>4, <2>5, Zenon
<1>3. ASSUME NEW k \in 1..6, ~Gates(i)[k][1], Refusal(i) = Gates(i)[k][2]
      PROVE  /\ Refusal(i) \in {400, 401, 406, 413, 415, 422}
             /\ Refusal(i) = 401 => i.token = "none"
             /\ Refusal(i) = 422 => ~Valid(i)
  <2>1. CASE k = 1
    <3>1. Gates(i)[1][2] = 406
      BY DEF Gates
    <3> QED BY <1>3, <2>1, <3>1
  <2>2. CASE k = 2
    <3>1. Gates(i)[2][2] = 415
      BY DEF Gates
    <3> QED BY <1>3, <2>2, <3>1
  <2>3. CASE k = 3
    <3>1. Gates(i)[3][2] = 413
      BY DEF Gates
    <3> QED BY <1>3, <2>3, <3>1
  <2>4. CASE k = 4
    <3>1. Gates(i)[4][2] = 400
      BY DEF Gates
    <3> QED BY <1>3, <2>4, <3>1
  <2>5. CASE k = 5
    <3>1. Gates(i)[5][2] = 422
      BY DEF Gates
    <3>2. ~Gates(i)[5][1]
      BY <1>3, <2>5
    <3>3. ~Valid(i)
      BY <3>2, Zenon DEF Gates
    <3> QED BY <1>3, <2>5, <3>1, <3>3
  <2>6. CASE k = 6
    <3>1. Gates(i)[6][2] = 401
      BY DEF Gates
    <3>2. ~Gates(i)[6][1]
      BY <1>3, <2>6
    <3>3. i.token = "none"
      BY <3>2, Zenon DEF Gates
    <3> QED BY <1>3, <2>6, <3>1, <3>3
  <2> QED BY <1>3, <2>1, <2>2, <2>3, <2>4, <2>5, <2>6
<1>4. CASE \E k \in 1..6 : ~Gates(i)[k][1] /\ Refusal(i) = Gates(i)[k][2]
  BY <1>3, <1>4
<1> QED BY <1>2, <1>4, RefusalLemma

\* What a reply may look like.
LEMMA ReplyShape ==
  ASSUME NEW q \in Question, NEW r \in Replies(q)
  PROVE  /\ r.code \in {0, 200, 401, 403, 404, 422, 429, 500, 503}
         /\ r.limit \in {"none", "primary", "secondary"}
         /\ \/ r.code = 200 /\ r.limit = "none" /\ r.says \in Says[q] \cup {"garbled"}
            \/ r.code # 200 /\ r.says = "nothing"
         /\ r.limit # "none" => r.code \in {403, 429}
         /\ r.code = 429 => r.limit # "none"
<1>1. \/ \E s \in Says[q] \cup {"garbled"} : r = Reply(200, "none", s)
      \/ \E c \in {0, 401, 403, 404, 422, 500, 503} : r = Reply(c, "none", "nothing")
      \/ \E c \in {403, 429}, l \in Limits : r = Reply(c, l, "nothing")
  BY DEF Replies
<1>2. CASE \E s \in Says[q] \cup {"garbled"} : r = Reply(200, "none", s)
  BY <1>2 DEF Reply
<1>3. CASE \E c \in {0, 401, 403, 404, 422, 500, 503} : r = Reply(c, "none", "nothing")
  BY <1>3 DEF Reply
<1>4. CASE \E c \in {403, 429}, l \in Limits : r = Reply(c, l, "nothing")
  BY <1>4 DEF Reply, Limits
<1> QED BY <1>1, <1>2, <1>3, <1>4

LEMMA SaysShape ==
  /\ Says["installation"] = {"admitted", "not_admitted"}
  /\ Says["membership"] = {"found", "more", "last"}
  /\ Says["repository"] = {"nameless", "none", "pull", "push"}
  BY DEF Says

\* What becomes of a reply that is none, an error or garbled.
LEMMA FailedStatus ==
  ASSUME NEW q \in Question, NEW r \in Replies(q), Failed(r)
  PROVE  LET s == ForgeStatus(GitHubError(r))
         IN  /\ s \in {401, 404, 429, 503}
             /\ s = 429 <=> PlainlyLimited(r)
             /\ s = 503 <=> Down(r)
             /\ s = 401 => r.code \in {401, 422}
             /\ s = 404 => r.code = 404 \/ (r.code = 403 /\ r.limit # "primary")
             /\ r.says \in {"nothing", "garbled"}
<1>1. /\ r.code \in {0, 200, 401, 403, 404, 422, 429, 500, 503}
      /\ \/ r.code = 200 /\ r.says = "garbled"
         \/ r.code # 200 /\ r.says = "nothing"
      /\ r.limit # "none" => r.code \in {403, 429}
  BY ReplyShape DEF Failed
<1>2. CASE Down(r)
  <2>1. GitHubError(r) = "unavailable"
    BY <1>1, <1>2 DEF GitHubError, Down
  <2>2. ForgeStatus("unavailable") = 503
    BY DEF ForgeStatus
  <2>3. ~PlainlyLimited(r)
    BY <1>1, <1>2 DEF PlainlyLimited, Down
  <2> QED BY <1>1, <1>2, <2>1, <2>2, <2>3
<1>3. CASE ~Down(r)
  <2>1. /\ r.code \in {401, 403, 404, 422, 429} /\ r.says = "nothing"
        /\ r.limit # "none" => r.code \in {403, 429}
    BY <1>1, <1>3 DEF Down
  <2>2. CASE r.code \in {401, 422}
    <3>1. GitHubError(r) = "unauthenticated"
      BY <2>1, <2>2 DEF GitHubError
    <3>2. ForgeStatus("unauthenticated") = 401
      BY DEF ForgeStatus
    <3>3. ~PlainlyLimited(r)
      BY <2>1, <2>2 DEF PlainlyLimited
    <3> QED BY <1>3, <2>1, <2>2, <3>1, <3>2, <3>3
  <2>3. CASE r.code = 404 \/ (r.code = 403 /\ r.limit # "primary")
    <3>1. GitHubError(r) \in {"not_found", "forbidden"}
      BY <2>1, <2>3 DEF GitHubError
    <3>2. ForgeStatus("not_found") = 404 /\ ForgeStatus("forbidden") = 404
      BY DEF ForgeStatus
    <3>3. ForgeStatus(GitHubError(r)) = 404
      BY <3>1, <3>2
    <3>4. ~PlainlyLimited(r)
      BY <2>1, <2>3 DEF PlainlyLimited
    <3> QED BY <1>3, <2>1, <2>3, <3>3, <3>4
  <2>4. CASE r.code = 429 \/ (r.code = 403 /\ r.limit = "primary")
    <3>1. GitHubError(r) = "rate_limited"
      BY <2>1, <2>4 DEF GitHubError
    <3>2. ForgeStatus("rate_limited") = 429
      BY DEF ForgeStatus
    <3>3. ForgeStatus(GitHubError(r)) = 429
      BY <3>1, <3>2
    <3>4. PlainlyLimited(r)
      BY <2>4 DEF PlainlyLimited
    <3> QED BY <1>3, <2>1, <3>3, <3>4
  <2>5. \/ r.code \in {401, 422} \/ r.code = 404 \/ r.code = 403 \/ r.code = 429
    BY <2>1
  <2> QED BY <2>2, <2>3, <2>4, <2>5, Zenon
<1>4. Down(r) \/ ~Down(r)
  OBVIOUS
<1> QED BY <1>2, <1>3, <1>4, Zenon

LEMMA StatusTable ==
  /\ ForgeStatus("unauthenticated") = 401
  /\ ForgeStatus("not_found") = 404
  /\ ForgeStatus("unavailable") = 503
  BY DEF ForgeStatus

LEMMA PermissionTable ==
  ASSUME NEW op \in Operation, NEW p \in PermissionNone..PermissionWrite
  PROVE  LET s == PermissionRefusal(op, p)
         IN  /\ s \in {0, 403, 404}
             /\ s = 0 => p >= IF op = "download" THEN PermissionRead ELSE PermissionWrite
             /\ s = 403 => op # "download" /\ p < PermissionWrite
             /\ s = 404 => op = "download" /\ p = PermissionNone
  BY DEF PermissionRefusal, PermissionNone, PermissionRead, PermissionWrite, Operation

LEMMA PermissionInTable ==
  \A s : PermissionIn(s) \in PermissionNone..PermissionWrite
  BY DEF PermissionIn, PermissionNone, PermissionRead, PermissionWrite

LEMMA ObjectTable ==
  ASSUME NEW op, NEW h \in HeadAnswer
  PROVE  LET c == ObjectCode(op, h)
         IN  /\ NoAnswer(h) => c = 503
             /\ c = 404 => op = "download" /\ h.code = 404
             /\ c = 422 => Conflicts(h)
             /\ c = 503 => NoAnswer(h) \/ Refuses(h) \/ (~h.signed /\ Presigns(op, h))
  BY DEF ObjectCode, Unavailable, Presigns, NoAnswer, Refuses, Conflicts

LEMMA VerifyTable ==
  ASSUME NEW h \in HeadAnswer
  PROVE  LET s == VerifyStatus(h)
         IN  /\ s \in {200, 404, 422, 503}
             /\ NoAnswer(h) => s = 503
             /\ s = 503 => NoAnswer(h) \/ Refuses(h)
             /\ s = 404 => h.code = 404
             /\ s = 422 => Conflicts(h)
  BY DEF VerifyStatus, Unavailable, NoAnswer, Refuses, Conflicts
-----------------------------------------------------------------------------
(* The inductive invariant                                                 *)

Asking == Question \cup {"permission", "bucket"}
Early == Asking \cup {"gates", "answer"}

Statuses == Status \cup {500}

Typed ==
  /\ input \in Inputs
  /\ at \in Places
  /\ page \in 0..MaxPages
  /\ said \in Seq(AllReplies) /\ Len(said) <= MaxPages + 2
  /\ perm \in {None} \cup PermissionNone..PermissionWrite
  /\ heads \in Seq(HeadAnswer) /\ Len(heads) <= Len(input.objects)
  /\ DOMAIN codes \in {{}, Objects}
  /\ status \in Status
  /\ recorder \in [status : Statuses \ {0}, wrote : BOOLEAN]
  /\ sent \in Statuses /\ recorded \in Statuses

\* GitHub admitted the installation, showed it to the user, and told what the
\* user may do in the repository.
Complete ==
  /\ Len(said) >= 3
  /\ said[1].says = "admitted"
  /\ \E k \in 2..(Len(said) - 1) : said[k].says = "found"
  /\ said[Len(said)].code = 200 /\ said[Len(said)].limit = "none"
  /\ said[Len(said)].says \in {"none", "pull", "push"}
  /\ PermissionIn(said[Len(said)].says) = perm

Sufficient(p) == p >= IF input.op = "download" THEN PermissionRead ELSE PermissionWrite

\* How far GitHub's replies have come wherever the handler still asks.
Placed ==
  /\ at = "gates" => said = <<>> /\ page = 0
  /\ perm # None => input.token = "ghu_"
  /\ at \in Asking => Refusal(input) = 0 /\ input.token = "ghu_"
  /\ at = "installation" => said = <<>> /\ page = 1
  /\ at = "membership" => Len(said) = page /\ page >= 1 /\ said[1].says = "admitted"
  /\ at = "repository" => /\ Len(said) = page + 1 /\ page >= 1
                          /\ said[1].says = "admitted"
                          /\ said[Len(said)].says = "found"
  /\ at \in {"permission", "bucket"} =>
       perm \in PermissionNone..PermissionWrite /\ (said = <<>> \/ Complete)
  /\ at = "bucket" => Sufficient(perm)

\* Nobody is asked before every gate is passed.
Passed == (said # <<>> \/ heads # <<>>) => Refusal(input) = 0

\* Nothing is decided before it is; what is decided keeps its grounds.
Undecided ==
  /\ at \in Asking \cup {"gates"} => status = 0
  /\ status = 0 => heads = <<>> /\ codes = <<>>
  /\ at = "answer" => status # 0

Told == TransientIsRetryable /\ Explained /\ ServedIsAuthorized

\* One status line at most, and the recorder knows it.
Out ==
  /\ at \in Early => ~recorder.wrote
  /\ at \in {"body", "recovered"} => recorder.wrote
  /\ recorder.wrote => recorder.status = sent
  /\ ~recorder.wrote => sent = 0
  /\ sent \in {0, status, 500}
  /\ at = "done" => recorded = sent

IInv == Typed /\ Placed /\ Passed /\ Undecided /\ Told /\ Out

-----------------------------------------------------------------------------
(* Init                                                                    *)

LEMMA InputTyped ==
  ASSUME NEW i \in Inputs
  PROVE  i \in Input /\ Len(i.objects) \in Nat /\ (i.op = "verify" => Len(i.objects) = 1)
<1>1. i \in Input
  BY InputsAssumption
<1>2. i.objects \in Seq([oid : Oid, size : Int])
  BY <1>1 DEF Input
<1> QED BY <1>1, <1>2, InputsAssumption

LEMMA Start == Init => IInv
<1> SUFFICES ASSUME Init PROVE IInv
  OBVIOUS
<1> USE DEF Init
<1>1. input \in Input /\ Len(input.objects) \in Nat
  BY InputTyped
<1>2. MaxPages \in Nat \ {0}
  BY LimitsAssumption
<1>3. Typed
  <2>1. perm \in {None} \cup PermissionNone..PermissionWrite
    OBVIOUS
  <2>2. Len(heads) <= Len(input.objects)
    BY <1>1
  <2> QED BY <1>2, <2>1, <2>2 DEF Typed, Places, Status, Statuses
<1>4. Placed
  <2>1. perm # None => input.token = "ghu_"
    OBVIOUS
  <2> QED BY <2>1 DEF Placed, Asking, Question
<1>5. Undecided /\ Passed
  BY DEF Undecided, Passed
<1>6. Told
  BY DEF Told, TransientIsRetryable, Explained, ServedIsAuthorized
<1>7. Out
  BY DEF Out
<1> QED BY <1>3, <1>4, <1>5, <1>6, <1>7 DEF IInv

-----------------------------------------------------------------------------
(* The types                                                               *)

LEMMA RepliesTyped ==
  ASSUME NEW q \in Question, NEW r \in Replies(q)
  PROVE  r \in AllReplies
  BY DEF AllReplies

LEMMA StatusTyped ==
  /\ \A i \in Input : Refusal(i) \in Status
  /\ {401, 403, 404, 422, 429, 503, 200} \subseteq Status
  BY RefusalMeans DEF Status

\* A reply that is not failed, and the one thing it leads to.
Moved(place, s) == at' = place /\ status' = s /\ page' = page /\ perm' = perm

LEMMA Next200Cases ==
  ASSUME NEW q \in Question, NEW r \in Replies(q), ~Failed(r), Next200(r.says)
  PROVE  \/ q = "installation" /\ r.says = "admitted" /\ Moved("membership", status)
         \/ q = "membership" /\ r.says = "found" /\ Moved("repository", status)
         \/ /\ q = "membership" /\ r.says = "more" /\ page < MaxPages
            /\ page' = page + 1 /\ at' = at /\ perm' = perm /\ status' = status
         \/ /\ q = "membership" /\ r.says = "more" /\ ~(page < MaxPages)
            /\ Moved("answer", 503)
         \/ q = "membership" /\ r.says = "last" /\ Moved("answer", 401)
         \/ /\ q # "membership" /\ r.says \in {"not_admitted", "nameless"}
            /\ Moved("answer", 404)
         \/ /\ q = "repository" /\ r.says \in {"none", "pull", "push"}
            /\ at' = "permission" /\ perm' = PermissionIn(r.says)
            /\ page' = page /\ status' = status
<1>1. r.says \in Says[q]
  BY ReplyShape DEF Failed
<1>2. \/ q = "installation" /\ r.says \in {"admitted", "not_admitted"}
      \/ q = "membership" /\ r.says \in {"found", "more", "last"}
      \/ q = "repository" /\ r.says \in {"nameless", "none", "pull", "push"}
  BY <1>1, SaysShape DEF Question
<1>3. CASE r.says = "admitted"
  BY <1>2, <1>3 DEF Next200, Goto, Moved
<1>4. CASE r.says = "found"
  BY <1>2, <1>4 DEF Next200, Goto, Moved
<1>5. CASE r.says = "more" /\ page < MaxPages
  BY <1>2, <1>5 DEF Next200, MorePages
<1>6. CASE r.says = "more" /\ ~(page < MaxPages)
  <2>1. Moved("answer", ForgeStatus("unavailable"))
    BY <1>6 DEF Next200, MorePages, Answer, Goto, Moved
  <2> QED BY <1>2, <1>6, <2>1, StatusTable DEF Moved
<1>7. CASE r.says = "last"
  <2>1. Moved("answer", ForgeStatus("unauthenticated"))
    BY <1>7 DEF Next200, MorePages, Answer, Goto, Moved
  <2> QED BY <1>2, <1>7, <2>1, StatusTable DEF Moved
<1>8. CASE r.says \in {"not_admitted", "nameless"}
  <2>1. Moved("answer", ForgeStatus("not_found"))
    BY <1>8 DEF Next200, MorePages, Answer, Goto, Moved
  <2>2. q # "membership"
    BY <1>2, <1>8
  <2> QED BY <1>8, <2>1, <2>2, StatusTable DEF Moved
<1>9. CASE r.says \in {"none", "pull", "push"}
  BY <1>2, <1>9 DEF Next200, Goto
<1> QED BY <1>2, <1>3, <1>4, <1>5, <1>6, <1>7, <1>8, <1>9

LEMMA TypedStep == IInv /\ [Next]_vars => Typed'
<1> SUFFICES ASSUME IInv, [Next]_vars PROVE Typed'
  OBVIOUS
<1>0. Typed /\ Placed /\ Undecided
  BY DEF IInv
<1>1. input \in Input /\ Len(input.objects) \in Nat /\ MaxPages \in Nat \ {0}
  BY <1>0, InputTyped, LimitsAssumption DEF Typed
<1> USE <1>0 DEF Typed
<1>2. CASE Refuse
  <2>1. Refusal(input) \in Status
    BY <1>1, StatusTyped
  <2>2. at' \in Places /\ status' \in Status
    BY <1>2, <2>1 DEF Refuse, Answer, Goto, Places
  <2>3. UNCHANGED <<input, page, said, perm, heads, codes, written>>
    BY <1>2 DEF Refuse
  <2> QED BY <1>1, <2>2, <2>3 DEF Objects, written
<1>3. CASE CacheHit
  BY <1>3 DEF CacheHit, Goto, Places, Objects, decided, written
<1>4. CASE CacheMiss
  <2>1. at' \in Places /\ status' \in Status
    <3>1. \/ at' = "installation" /\ status' = status
          \/ at' = "answer" /\ status' = 401
      BY <1>4, StatusTable DEF CacheMiss, Answer, Goto
    <3>2. "installation" \in Places /\ "answer" \in Places /\ 401 \in Status
      BY DEF Places, Question, Status
    <3> QED BY <1>0, <3>1, <3>2
  <2>2. page' = 1 /\ UNCHANGED <<input, said, perm, heads, codes, written>>
    BY <1>4 DEF CacheMiss
  <2> QED BY <1>1, <2>1, <2>2 DEF Objects, written
<1>5. ASSUME NEW q \in Question, AskGitHub(q) PROVE Typed'
  <2>1. PICK r \in Replies(q) :
          /\ said' = Append(said, r)
          /\ IF Failed(r)
             THEN Answer(ForgeStatus(GitHubError(r))) /\ UNCHANGED <<page, perm>>
             ELSE Next200(r.says)
    BY <1>5 DEF AskGitHub
  <2>2. at = q /\ UNCHANGED <<input, heads, codes, recorder, sent, recorded>>
    BY <1>5 DEF AskGitHub, written
  <2>3. said' \in Seq(AllReplies) /\ Len(said') = Len(said) + 1
    BY <2>1, RepliesTyped
  <2>4. Len(said) + 1 <= MaxPages + 2
    BY <1>1, <2>2 DEF Placed, Question
  <2>5. at' \in Places /\ page' \in 0..MaxPages
        /\ perm' \in {None} \cup PermissionNone..PermissionWrite /\ status' \in Status
    <3>1. CASE Failed(r)
      <4>1. ForgeStatus(GitHubError(r)) \in Status
        BY <3>1, FailedStatus, StatusTyped
      <4> QED BY <2>1, <3>1, <4>1 DEF Answer, Goto, Places
    <3>2. CASE ~Failed(r)
      <4>1. Next200(r.says)
        BY <2>1, <3>2
      <4>2. page \in 0..MaxPages /\ at \in Places /\ status \in Status
            /\ perm \in {None} \cup PermissionNone..PermissionWrite
        BY <1>0
      <4> HIDE DEF Typed
      <4>3. /\ at' = at \/ at' \in {"membership", "repository", "answer", "permission"}
            /\ page' = page \/ (page < MaxPages /\ page' = page + 1)
            /\ perm' = perm \/ perm' = PermissionIn(r.says)
            /\ status' = status \/ status' \in {503, 401, 404}
        BY <3>2, <4>1, Next200Cases DEF Moved
      <4>4. at' \in Places
        BY <4>2, <4>3 DEF Places, Question
      <4>5. page' \in 0..MaxPages
        BY <1>1, <4>2, <4>3
      <4>6. perm' \in {None} \cup PermissionNone..PermissionWrite
        BY <4>2, <4>3, PermissionInTable
      <4>7. status' \in Status
        BY <4>2, <4>3 DEF Status
      <4> QED BY <4>4, <4>5, <4>6, <4>7
    <3> QED BY <3>1, <3>2
  <2> QED BY <2>2, <2>3, <2>4, <2>5 DEF Objects
<1>6. CASE CheckPermission
  <2>1. perm \in PermissionNone..PermissionWrite /\ input.op \in Operation
    BY <1>1, <1>6 DEF CheckPermission, Placed, Input
  <2>2. PermissionRefusal(input.op, perm) \in {0, 403, 404}
    BY <2>1, PermissionTable
  <2>3. PermissionRefusal(input.op, perm) \in Status
    BY <2>2 DEF Status
  <2> QED BY <1>6, <2>3 DEF CheckPermission, Answer, Goto, Places, Objects, written
<1>7. CASE BatchObjects
  <2>1. PICK h \in [Objects -> HeadAnswer] :
          Answered(h, [k \in Objects |-> ObjectCode(input.op, h[k])])
    BY <1>7 DEF BatchObjects
  <2>2. h \in Seq(HeadAnswer) /\ Len(h) = Len(input.objects)
    <3>1. h \in [1..Len(input.objects) -> HeadAnswer]
      BY <2>1 DEF Objects
    <3> QED BY <1>1, <3>1
  <2>3. at' = "answer" /\ status' = 200
    BY <1>7 DEF BatchObjects, Answer, Goto
  <2>4. DOMAIN codes' = Objects
    BY <2>1 DEF Answered
  <2> QED BY <1>1, <2>1, <2>2, <2>3, <2>4, StatusTyped DEF Answered, Places, Objects, written
<1>8. CASE VerifyObject
  <2>1. PICK h \in HeadAnswer : Answered(<<h>>, <<>>) /\ Answer(VerifyStatus(h))
    BY <1>8 DEF VerifyObject
  <2>2. Len(input.objects) = 1
    BY <1>8, InputTyped DEF VerifyObject
  <2>3. VerifyStatus(h) \in Status
    <3>1. VerifyStatus(h) \in {200, 404, 422, 503}
      BY VerifyTable
    <3> QED BY <3>1 DEF Status
  <2>4. <<h>> \in Seq(HeadAnswer) /\ Len(<<h>>) = 1 /\ DOMAIN << >> = {}
    OBVIOUS
  <2> QED BY <2>1, <2>2, <2>3, <2>4 DEF Answered, Answer, Goto, Places, Objects, written
<1>9. CASE Respond \/ Recover
  <2>1. UNCHANGED <<input, decided, recorded>> /\ at' \in Places
    BY <1>9 DEF Respond, Recover, Goto, Places
  <2>2. recorder' \in [status : Statuses \ {0}, wrote : BOOLEAN] /\ sent' \in Statuses
    <3>1. status \in Status /\ (at = "answer" => status # 0)
      BY <1>0 DEF Undecided
    <3>2. PICK s \in Statuses \ {0} : WriteHeader(s)
      BY <1>9, <3>1 DEF Respond, Recover, Statuses
    <3>3. CASE recorder.wrote
      BY <3>2, <3>3 DEF WriteHeader
    <3>4. CASE ~recorder.wrote
      <4>1. recorder' = [status |-> s, wrote |-> TRUE] /\ sent' = s
        BY <3>2, <3>4 DEF WriteHeader
      <4> QED BY <3>2, <4>1
    <3> QED BY <3>3, <3>4
  <2> QED BY <2>1, <2>2 DEF decided, Objects
<1>10. CASE Count
  BY <1>10 DEF Count, Goto, Places, decided, Objects
<1>11. CASE Panic \/ WorkerPanics \/ UNCHANGED vars
  BY <1>11 DEF Panic, WorkerPanics, Goto, Places, vars, decided, written, Objects
<1> QED BY <1>2, <1>3, <1>4, <1>5, <1>6, <1>7, <1>8, <1>9, <1>10, <1>11 DEF Next

-----------------------------------------------------------------------------
(* What GitHub has said                                                    *)

LEMMA RefusalKept == input' = input => Refusal(input)' = Refusal(input)
  OBVIOUS

LEMMA PlacedStep == IInv /\ [Next]_vars => Placed'
<1> SUFFICES ASSUME IInv, [Next]_vars PROVE Placed'
  OBVIOUS
<1>0. Typed /\ Placed
  BY DEF IInv
<1>1. input \in Input /\ page \in Nat /\ MaxPages \in Nat \ {0}
  BY <1>0, InputTyped, LimitsAssumption DEF Typed
<1>2. ASSUME at' \notin Asking \cup {"gates"}, perm' = perm, input' = input PROVE Placed'
  BY <1>0, <1>2 DEF Placed, Asking, Question
<1>3. CASE Refuse
  BY <1>2, <1>3 DEF Refuse, Answer, Goto, Asking, Question
<1>4. CASE CacheHit
  <2>1. /\ at' = "permission" /\ perm' = perm /\ said' = said /\ input' = input
        /\ said = <<>> /\ Refusal(input) = 0
        /\ perm \in PermissionNone..PermissionWrite /\ input.token = "ghu_"
    BY <1>0, <1>4 DEF CacheHit, Goto, decided, Placed, Typed
  <2> QED BY <2>1, RefusalKept DEF Placed, Asking, Question
<1>5. CASE CacheMiss
  <2>1. /\ at = "gates" /\ page' = 1 /\ UNCHANGED <<input, said, perm>>
        /\ Refusal(input) = 0 /\ said = <<>>
        /\ \/ at' = "installation" /\ input.token = "ghu_"
           \/ at' = "answer"
    BY <1>0, <1>5 DEF CacheMiss, Answer, Goto, Placed
  <2> QED BY <1>0, <2>1, RefusalKept DEF Placed, Asking, Question
<1>6. ASSUME NEW q \in Question, AskGitHub(q) PROVE Placed'
  <2>1. PICK r \in Replies(q) :
          /\ said' = Append(said, r)
          /\ IF Failed(r)
             THEN Answer(ForgeStatus(GitHubError(r))) /\ UNCHANGED <<page, perm>>
             ELSE Next200(r.says)
    BY <1>6 DEF AskGitHub
  <2>2. /\ at = q /\ input' = input /\ input.token = "ghu_"
        /\ Refusal(input) = 0 /\ Refusal(input)' = 0
    BY <1>0, <1>6, RefusalKept DEF AskGitHub, Placed, Asking
  <2>3. /\ said \in Seq(AllReplies) /\ r \in AllReplies /\ Len(said') = Len(said) + 1
        /\ said'[Len(said')] = r /\ \A k \in 1..Len(said) : said'[k] = said[k]
    BY <1>0, <2>1, RepliesTyped DEF Typed
  <2>4. CASE at' = "answer"
    BY <2>2, <2>4 DEF Placed, Asking, Question
  <2>5. CASE ~Failed(r) /\ at' # "answer"
    <3>1. r.code = 200 /\ r.limit = "none"
      BY <2>5, ReplyShape DEF Failed
    <3>2. CASE q = "installation" /\ r.says = "admitted" /\ Moved("membership", status)
      <4>1. said = <<>> /\ page = 1
        BY <1>0, <2>2, <3>2 DEF Placed
      <4>2. at' = "membership" /\ Len(said') = 1 /\ page' = 1 /\ said'[1] = r
        BY <2>3, <3>2, <4>1 DEF Moved
      <4> QED BY <2>2, <3>2, <4>2 DEF Placed, Asking, Question
    <3>3. CASE q = "membership" /\ r.says = "found" /\ Moved("repository", status)
      <4>1. Len(said) = page /\ page >= 1 /\ said[1].says = "admitted"
        BY <1>0, <2>2, <3>3 DEF Placed
      <4>2. /\ at' = "repository" /\ Len(said') = page' + 1 /\ page' >= 1
            /\ said'[1] = said[1] /\ said'[Len(said')].says = "found"
        BY <1>1, <2>3, <3>3, <4>1 DEF Moved
      <4> QED BY <2>2, <4>1, <4>2 DEF Placed, Asking, Question
    <3>4. CASE /\ q = "membership" /\ r.says = "more" /\ page < MaxPages
               /\ page' = page + 1 /\ at' = at /\ perm' = perm /\ status' = status
      <4>1. Len(said) = page /\ page >= 1 /\ said[1].says = "admitted"
        BY <1>0, <2>2, <3>4 DEF Placed
      <4>2. /\ at' = "membership" /\ Len(said') = page' /\ page' >= 1
            /\ said'[1] = said[1]
        BY <1>1, <2>2, <2>3, <3>4, <4>1
      <4> QED BY <2>2, <4>1, <4>2 DEF Placed, Asking, Question
    <3>5. CASE /\ q = "repository" /\ r.says \in {"none", "pull", "push"}
               /\ at' = "permission" /\ perm' = PermissionIn(r.says)
               /\ page' = page /\ status' = status
      <4>1. /\ Len(said) = page + 1 /\ page >= 1 /\ said[1].says = "admitted"
            /\ said[Len(said)].says = "found"
        BY <1>0, <2>2, <3>5 DEF Placed
      <4>2. /\ Len(said') >= 3 /\ said'[1] = said[1]
            /\ Len(said) \in 2..(Len(said') - 1) /\ said'[Len(said)] = said[Len(said)]
        BY <1>1, <2>3, <4>1
      <4>3. \E k \in 2..(Len(said') - 1) : said'[k].says = "found"
        BY <4>1, <4>2
      <4>4. Complete'
        BY <2>3, <3>1, <3>5, <4>1, <4>2, <4>3 DEF Complete
      <4>5. perm' \in PermissionNone..PermissionWrite
        BY <3>5, PermissionInTable
      <4> QED BY <2>2, <3>5, <4>4, <4>5 DEF Placed, Asking, Question
    <3> QED BY <2>1, <2>5, <3>2, <3>3, <3>4, <3>5, Next200Cases DEF Moved
  <2> QED BY <2>1, <2>4, <2>5 DEF Answer, Goto
<1>7. CASE CheckPermission
  <2>1. /\ perm \in PermissionNone..PermissionWrite /\ input.op \in Operation
        /\ Refusal(input) = 0 /\ input.token = "ghu_" /\ (said = <<>> \/ Complete)
        /\ UNCHANGED <<input, said, perm>>
    BY <1>0, <1>1, <1>7 DEF CheckPermission, Placed, Input, Asking
  <2>2. CASE PermissionRefusal(input.op, perm) # 0
    BY <1>2, <1>7, <2>1, <2>2 DEF CheckPermission, Answer, Goto, Asking, Question
  <2>3. CASE PermissionRefusal(input.op, perm) = 0
    <3>1. Sufficient(perm)
      BY <2>1, <2>3, PermissionTable DEF Sufficient
    <3>2. Sufficient(perm)' /\ (said' = <<>> \/ Complete')
      BY <2>1, <3>1 DEF Sufficient, Complete
    <3>3. at' = "bucket"
      BY <1>7, <2>3 DEF CheckPermission, Goto
    <3> QED BY <2>1, <3>2, <3>3, RefusalKept DEF Placed, Asking, Question
  <2> QED BY <2>2, <2>3
<1>8. CASE BatchObjects \/ VerifyObject
  BY <1>2, <1>8 DEF BatchObjects, VerifyObject, Answered, Answer, Goto, Asking, Question
<1>9. CASE Respond \/ Count \/ Panic \/ Recover \/ WorkerPanics
  BY <1>2, <1>9
     DEF Respond, Count, Panic, Recover, WorkerPanics, Goto, decided, Asking, Question
<1>10. CASE UNCHANGED vars
  BY <1>0, <1>10, RefusalKept DEF vars, decided, Placed, Complete, Sufficient
<1> QED BY <1>3, <1>4, <1>5, <1>6, <1>7, <1>8, <1>9, <1>10 DEF Next

LEMMA PassedStep == IInv /\ [Next]_vars => Passed'
<1> SUFFICES ASSUME IInv, [Next]_vars PROVE Passed'
  OBVIOUS
<1>0. Passed /\ Placed
  BY DEF IInv
<1>1. input' = input
  BY DEF Next, Refuse, CacheHit, CacheMiss, AskGitHub, CheckPermission, BatchObjects,
         VerifyObject, Answered, Respond, Count, Panic, Recover, WorkerPanics, vars
<1>2. Refusal(input)' = Refusal(input)
  BY <1>1, RefusalKept
<1>3. CASE at \in Asking
  BY <1>0, <1>2, <1>3 DEF Placed, Passed
<1>4. CASE at \notin Asking
  <2>1. UNCHANGED <<said, heads>>
    BY <1>4 DEF Next, Refuse, CacheHit, CacheMiss, AskGitHub, CheckPermission,
                BatchObjects, VerifyObject, Respond, Count, Panic, Recover,
                WorkerPanics, vars, decided, Asking, Question
  <2> QED BY <1>0, <1>2, <2>1 DEF Passed
<1> QED BY <1>3, <1>4

LEMMA UndecidedStep == IInv /\ [Next]_vars => Undecided'
<1> SUFFICES ASSUME IInv, [Next]_vars PROVE Undecided'
  OBVIOUS
<1>0. Typed /\ Placed /\ Undecided
  BY DEF IInv
<1>1. input \in Input
  BY <1>0, InputTyped DEF Typed
<1> USE DEF Undecided
<1>2. CASE Refuse
  BY <1>0, <1>2 DEF Refuse, Answer, Goto, Asking, Question
<1>3. CASE CacheHit
  BY <1>0, <1>3 DEF CacheHit, Goto, decided
<1>4. CASE CacheMiss
  <2>1. \/ at' = "installation" /\ status' = status
        \/ at' = "answer" /\ status' = 401
    BY <1>4, StatusTable DEF CacheMiss, Answer, Goto
  <2>2. status = 0 /\ heads' = <<>> /\ codes' = <<>>
    BY <1>0, <1>4 DEF CacheMiss
  <2> QED BY <2>1, <2>2 DEF Asking, Question
<1>5. ASSUME NEW q \in Question, AskGitHub(q) PROVE Undecided'
  <2>1. PICK r \in Replies(q) :
          IF Failed(r) THEN Answer(ForgeStatus(GitHubError(r))) ELSE Next200(r.says)
    BY <1>5 DEF AskGitHub
  <2>2. status = 0 /\ heads' = <<>> /\ codes' = <<>> /\ at = q
    BY <1>0, <1>5 DEF AskGitHub, Asking
  <2>3. \/ at' = "answer" /\ status' \in {401, 404, 429, 503}
        \/ at' # "answer" /\ status' = 0
    <3>1. CASE Failed(r)
      <4>1. ForgeStatus(GitHubError(r)) \in {401, 404, 429, 503}
        BY <3>1, FailedStatus
      <4> QED BY <2>1, <3>1, <4>1 DEF Answer, Goto
    <3>2. CASE ~Failed(r)
      BY <2>1, <2>2, <3>2, Next200Cases DEF Moved, Question
    <3> QED BY <3>1, <3>2
  <2> QED BY <2>2, <2>3 DEF Asking, Question
<1>6. CASE CheckPermission
  BY <1>0, <1>6 DEF CheckPermission, Answer, Goto, Asking, Question
<1>7. CASE BatchObjects
  BY <1>7 DEF BatchObjects, Answer, Goto, Asking, Question
<1>8. CASE VerifyObject
  <2>1. PICK h \in HeadAnswer : Answer(VerifyStatus(h))
    BY <1>8 DEF VerifyObject
  <2>2. VerifyStatus(h) \in {200, 404, 422, 503}
    BY VerifyTable
  <2> QED BY <2>1, <2>2 DEF Answer, Goto, Asking, Question
<1>9. CASE Respond \/ Count \/ Panic \/ Recover \/ WorkerPanics
  BY <1>0, <1>9
     DEF Respond, Count, Panic, Recover, WorkerPanics, Goto, decided, Asking, Question
<1>10. CASE UNCHANGED vars
  BY <1>0, <1>10 DEF vars, decided
<1> QED BY <1>2, <1>3, <1>4, <1>5, <1>6, <1>7, <1>8, <1>9, <1>10 DEF Next

-----------------------------------------------------------------------------
(* The grounds of the answer                                               *)

LEMMA Undetermined == Undecided' /\ status' = 0 => Told'
<1> SUFFICES ASSUME Undecided', status' = 0 PROVE Told'
  OBVIOUS
<1>1. heads' = <<>>
  BY DEF Undecided
<1> QED BY <1>1 DEF Told, TransientIsRetryable, Explained, ServedIsAuthorized

LEMMA ToldKept == Told /\ UNCHANGED <<input, decided>> => Told'
<1> SUFFICES ASSUME Told, UNCHANGED <<input, decided>> PROVE Told'
  OBVIOUS
<1>1. /\ input' = input /\ page' = page /\ said' = said /\ perm' = perm
      /\ heads' = heads /\ codes' = codes /\ status' = status
  BY DEF decided
<1>2. Valid(input)' = Valid(input)
  BY <1>1
<1>3. TransientIsRetryable'
  BY <1>1 DEF Told, TransientIsRetryable, LastSaid, Objects, PlainlyLimited, Down, NoAnswer
<1>4. Explained'
  <2>1. /\ BadCredential' <=> BadCredential
        /\ AppRefused' <=> AppRefused
        /\ UnknownStatus' <=> UnknownStatus
    BY <1>1 DEF BadCredential, AppRefused, UnknownStatus, LastSaid
  <2>2. /\ MayNotPush' <=> MayNotPush
        /\ NoPull' <=> NoPull
    BY <1>1 DEF MayNotPush, NoPull
  <2>3. /\ NotThere' <=> NotThere
        /\ SecondaryLimit' <=> SecondaryLimit
        /\ LastSaid(Limited)' <=> LastSaid(Limited)
    BY <1>1 DEF NotThere, SecondaryLimit, LastSaid, Limited
  <2>4. Unprocessable' <=> Unprocessable
    BY <1>1, <1>2 DEF Unprocessable, Conflicts
  <2>5. /\ ForNow' <=> ForNow
        /\ ListTooLong' <=> ListTooLong
        /\ BucketRefuses' <=> BucketRefuses
    BY <1>1 DEF ForNow, ListTooLong, BucketRefuses, Refuses, LastSaid, Down, NoAnswer
  <2>6. Objects' = Objects
    BY <1>1 DEF Objects
  <2>7. \A k : Unsigned(heads[k])' <=> Unsigned(heads[k])
    BY <1>1 DEF Unsigned
  <2> QED BY <1>1, <2>1, <2>2, <2>3, <2>4, <2>5, <2>6, <2>7 DEF Told, Explained, Conflicts, Refuses, NoAnswer
<1>5. ServedIsAuthorized'
  BY <1>1 DEF Told, ServedIsAuthorized, LastSaid
<1> QED BY <1>3, <1>4, <1>5 DEF Told

\* After the last of the questions GitHub's replies are no ground for a refusal.
NoFault == ~LastSaid(PlainlyLimited) /\ ~LastSaid(Down)

LEMMA NoFaultSaid ==
  ASSUME Typed, said = <<>> \/ Complete
  PROVE  NoFault
<1>1. CASE said = <<>>
  BY <1>1 DEF LastSaid, NoFault
<1>2. CASE Complete
  BY <1>2 DEF Complete, LastSaid, PlainlyLimited, Down, NoFault
<1> QED BY <1>1, <1>2

LEMMA NoFaultKept == NoFault /\ UNCHANGED said => NoFault'
  BY DEF NoFault, LastSaid, PlainlyLimited, Down

LEMMA RefuseTold == IInv /\ Refuse => Told'
<1> SUFFICES ASSUME IInv, Refuse PROVE Told'
  OBVIOUS
<1>1. said' = <<>> /\ heads' = <<>> /\ input' = input /\ status' = Refusal(input)
  BY DEF IInv, Placed, Undecided, Refuse, Answer
<1>2. input \in Input
  BY InputTyped DEF IInv, Typed
<1>3. /\ status' \in {400, 401, 406, 413, 415, 422}
      /\ status' = 401 => input'.token = "none"
      /\ status' = 422 => ~Valid(input)
  BY <1>1, <1>2, RefusalMeans DEF Refuse
<1>4. Valid(input)' = Valid(input)
  BY <1>1
<1>5. TransientIsRetryable'
  BY <1>1, <1>3 DEF TransientIsRetryable, LastSaid
<1>6. Explained'
  BY <1>1, <1>3, <1>4 DEF Explained, BadCredential, Unprocessable
<1>7. ServedIsAuthorized'
  BY <1>1, <1>3 DEF ServedIsAuthorized
<1> QED BY <1>5, <1>6, <1>7 DEF Told

LEMMA CacheMissTold == IInv /\ CacheMiss /\ Undecided' => Told'
<1> SUFFICES ASSUME IInv, CacheMiss, Undecided' PROVE Told'
  OBVIOUS
<1>1. CASE status' = 0
  BY <1>1, Undetermined
<1>2. CASE status' # 0
  <2>1. /\ said' = <<>> /\ heads' = <<>> /\ input' = input
        /\ input'.token # "ghu_" /\ status' = ForgeStatus("unauthenticated")
    BY <1>2 DEF IInv, Placed, Undecided, CacheMiss, Answer
  <2>2. status' = 401
    BY <2>1, StatusTable
  <2> QED BY <2>1, <2>2 DEF Told, TransientIsRetryable, Explained, BadCredential,
                      ServedIsAuthorized, LastSaid
<1> QED BY <1>1, <1>2

LEMMA AskTold ==
  ASSUME NEW q \in Question, IInv, AskGitHub(q), Undecided'
  PROVE  Told'
<1>1. PICK r \in Replies(q) :
        /\ said' = Append(said, r)
        /\ IF Failed(r)
           THEN Answer(ForgeStatus(GitHubError(r))) /\ UNCHANGED <<page, perm>>
           ELSE Next200(r.says)
  BY DEF AskGitHub
<1>2. at = q /\ status = 0 /\ heads' = <<>> /\ input' = input
  BY DEF IInv, AskGitHub, Undecided, Asking
<1>3. said' # <<>> /\ said'[Len(said')] = r /\ Len(said') \in Nat \ {0}
  BY <1>1, RepliesTyped DEF IInv, Typed
<1>4. /\ LastSaid(PlainlyLimited)' <=> PlainlyLimited(r)
      /\ LastSaid(Limited)' <=> Limited(r)
      /\ LastSaid(Down)' <=> Down(r)
  BY <1>3 DEF LastSaid, PlainlyLimited, Limited, Down
<1>5. CASE status' = 0
  BY <1>5, Undetermined
<1>6. CASE Failed(r)
  <2>1. /\ status' \in {401, 404, 429, 503}
        /\ status' = 429 <=> PlainlyLimited(r)
        /\ status' = 503 <=> Down(r)
        /\ status' = 401 => r.code \in {401, 422}
        /\ status' = 404 => r.code = 404 \/ (r.code = 403 /\ r.limit # "primary")
    BY <1>1, <1>6, FailedStatus DEF Answer
  <2>2. TransientIsRetryable'
    <3>1. status' = 429 <=> PlainlyLimited(r)
      BY <2>1
    <3>2. status' = 503 <=> Down(r)
      BY <2>1
    <3> QED BY <1>2, <1>4, <3>1, <3>2 DEF TransientIsRetryable
  <2>3. Explained'
    <3>1. status' # 403 /\ status' # 422
      BY <2>1
    <3>2. status' = 401 => BadCredential' \/ AppRefused' \/ UnknownStatus'
      <4>1. CASE r.code = 401 /\ Len(said') = 1
        BY <1>3, <4>1 DEF AppRefused
      <4>2. CASE r.code = 401 /\ Len(said') > 1
        BY <1>3, <4>2 DEF BadCredential, LastSaid
      <4>3. CASE r.code = 422
        BY <1>3, <4>3 DEF UnknownStatus, LastSaid
      <4>4. Len(said') = 1 \/ Len(said') > 1
        <5>1. \A n \in Nat \ {0} : n = 1 \/ n > 1
          OBVIOUS
        <5>2. Len(said') \in Nat \ {0}
          BY <1>3
        <5> QED BY <5>1, <5>2
      <4>5. status' = 401 => r.code = 401 \/ r.code = 422
        BY <2>1
      <4> QED BY <4>1, <4>2, <4>3, <4>4, <4>5
    <3>3. status' = 404 => NotThere' \/ SecondaryLimit'
      <4>1. r.limit \in {"none", "primary", "secondary"}
        BY ReplyShape
      <4>2. CASE r.code = 404 \/ (r.code = 403 /\ r.limit = "none")
        BY <1>3, <4>2 DEF NotThere, LastSaid, Limited
      <4>3. CASE r.code = 403 /\ r.limit = "secondary"
        BY <1>3, <4>3 DEF SecondaryLimit, LastSaid
      <4> QED BY <2>1, <4>1, <4>2, <4>3
    <3>4. status' = 429 => LastSaid(Limited)'
      <4>1. PlainlyLimited(r) => Limited(r)
        BY ReplyShape DEF PlainlyLimited, Limited
      <4>2. status' = 429 => PlainlyLimited(r)
        BY <2>1
      <4> QED BY <1>4, <4>1, <4>2
    <3>5. status' = 503 => ForNow'
      <4>1. status' = 503 => Down(r)
        BY <2>1
      <4> QED BY <1>4, <4>1 DEF ForNow
    <3> QED BY <1>2, <3>1, <3>2, <3>3, <3>4, <3>5 DEF Explained
  <2>4. ServedIsAuthorized'
    BY <1>2, <2>1 DEF ServedIsAuthorized
  <2> QED BY <2>2, <2>3, <2>4 DEF Told
<1>7. CASE ~Failed(r) /\ status' # 0
  <2>1. r.code = 200 /\ r.says # "garbled" /\ ~PlainlyLimited(r) /\ ~Down(r)
    BY <1>7, ReplyShape DEF Failed, PlainlyLimited, Down
  <2>2. /\ page' = page
        /\ \/ r.says = "more" /\ page = MaxPages /\ status' = 503
           \/ r.says = "last" /\ status' = 401
           \/ r.says \in {"not_admitted", "nameless"} /\ status' = 404
    <3>1. page \in 0..MaxPages /\ MaxPages \in Nat
      BY LimitsAssumption DEF IInv, Typed
    <3>2. Next200(r.says)
      BY <1>1, <1>7
    <3>3. \/ r.says = "more" /\ ~(page < MaxPages) /\ Moved("answer", 503)
          \/ r.says = "last" /\ Moved("answer", 401)
          \/ r.says \in {"not_admitted", "nameless"} /\ Moved("answer", 404)
      BY <1>2, <1>7, <3>2, Next200Cases DEF Moved
    <3> QED BY <3>1, <3>3 DEF Moved
  <2>3. TransientIsRetryable'
    <3>1. ~LastSaid(PlainlyLimited)' /\ ~LastSaid(Down)'
      BY <1>4, <2>1, Zenon
    <3> QED BY <1>2, <3>1 DEF TransientIsRetryable
  <2>4. Explained'
    <3>1. status' \in {401, 404, 503}
      BY <2>2
    <3>2. status' = 401 => BadCredential'
      BY <1>3, <2>2 DEF BadCredential, LastSaid
    <3>3. status' = 404 => NotThere'
      BY <1>3, <2>2 DEF NotThere, LastSaid
    <3>4. status' = 503 => ListTooLong'
      BY <1>3, <2>2 DEF ListTooLong, LastSaid
    <3> QED BY <1>2, <3>1, <3>2, <3>3, <3>4 DEF Explained
  <2>5. ServedIsAuthorized'
    BY <1>2, <2>2 DEF ServedIsAuthorized
  <2> QED BY <2>3, <2>4, <2>5 DEF Told
<1> QED BY <1>5, <1>6, <1>7

LEMMA CheckPermissionTold == IInv /\ CheckPermission /\ Undecided' => Told'
<1> SUFFICES ASSUME IInv, CheckPermission, Undecided' PROVE Told'
  OBVIOUS
<1>1. /\ input \in Input /\ input.op \in Operation
      /\ perm \in PermissionNone..PermissionWrite /\ (said = <<>> \/ Complete)
      /\ status = 0 /\ heads = <<>> /\ UNCHANGED <<input, page, said, perm, heads>>
  BY InputTyped DEF IInv, Typed, Placed, Undecided, CheckPermission, Asking, Input
<1>2. CASE status' = 0
  BY <1>2, Undetermined
<1>3. CASE status' # 0
  <2>1. /\ status' \in {403, 404}
        /\ status' = 403 => input'.op # "download" /\ perm' < PermissionWrite
        /\ status' = 404 => input'.op = "download" /\ perm' = PermissionNone
    BY <1>1, <1>3, PermissionTable DEF CheckPermission, Answer
  <2>2. NoFault'
    BY <1>1, NoFaultSaid, NoFaultKept DEF IInv
  <2>3. TransientIsRetryable'
    BY <1>1, <2>2 DEF TransientIsRetryable, NoFault
  <2>4. Explained'
    <3>1. status' = 403 => MayNotPush' \/ NoPull'
      BY <1>1, <2>1 DEF MayNotPush, NoPull, PermissionNone, PermissionRead, PermissionWrite
    <3>2. status' = 404 => NotThere'
      BY <2>1 DEF NotThere
    <3> QED BY <1>1, <2>1, <3>1, <3>2 DEF Explained
  <2>5. ServedIsAuthorized'
    BY <1>1, <2>1 DEF ServedIsAuthorized
  <2> QED BY <2>3, <2>4, <2>5 DEF Told
<1> QED BY <1>2, <1>3

\* The bucket is asked, and says the rest.
LEMMA BucketTold ==
  ASSUME IInv, at = "bucket", UNCHANGED <<input, page, said, perm>>
  PROVE  NoFault' /\ ServedIsAuthorized'
<1>1. /\ input \in Input /\ Refusal(input) = 0 /\ input.token = "ghu_"
      /\ perm \in PermissionNone..PermissionWrite /\ (said = <<>> \/ Complete)
      /\ Sufficient(perm)
  BY InputTyped DEF IInv, Typed, Placed, Asking
<1>2. NoFault'
  BY <1>1, NoFaultSaid, NoFaultKept DEF IInv
<1>3. input.acceptable /\ input.typed /\ input.body = "fine"
  BY <1>1, RefusalMeans
<1>4. said # <<>> => /\ said[1].says = "admitted"
                     /\ \E k \in 2..(Len(said) - 1) : said[k].says = "found"
                     /\ PermissionIn(said[Len(said)].says) = perm
  BY <1>1 DEF Complete
<1>5. ServedIsAuthorized'
  BY <1>1, <1>3, <1>4 DEF ServedIsAuthorized, Sufficient, LastSaid
<1> QED BY <1>2, <1>5

LEMMA BatchTold == IInv /\ BatchObjects => Told'
<1> SUFFICES ASSUME IInv, BatchObjects PROVE Told'
  OBVIOUS
<1>1. PICK h \in [Objects -> HeadAnswer] :
        Answered(h, [k \in Objects |-> ObjectCode(input.op, h[k])])
  BY DEF BatchObjects
<1>2. /\ heads' = h /\ codes' = [k \in Objects |-> ObjectCode(input.op, h[k])]
      /\ UNCHANGED <<input, page, said, perm>> /\ status' = 200
      /\ at = "bucket" /\ input'.op # "verify"
  BY <1>1 DEF BatchObjects, Answered, Answer
<1>3. Objects' = Objects
  BY <1>2 DEF Objects
<1>4. \A k \in Objects' :
        /\ NoAnswer(heads'[k]) => codes'[k] = 503
        /\ codes'[k] = 404 => input'.op = "download" /\ heads'[k].code = 404
        /\ codes'[k] = 422 => Conflicts(heads'[k])
        /\ codes'[k] = 503 => \/ NoAnswer(heads'[k]) \/ Refuses(heads'[k])
                              \/ ~heads'[k].signed /\ Presigns(input'.op, heads'[k])
  BY <1>2, <1>3, ObjectTable
<1>5. TransientIsRetryable'
  BY <1>2, <1>4, BucketTold DEF TransientIsRetryable, NoFault
<1>6. Explained'
  BY <1>2, <1>3, <1>4 DEF Explained, Unsigned
<1> QED BY <1>2, <1>5, <1>6, BucketTold DEF Told

LEMMA VerifyTold == IInv /\ VerifyObject => Told'
<1> SUFFICES ASSUME IInv, VerifyObject PROVE Told'
  OBVIOUS
<1>1. PICK h \in HeadAnswer : Answered(<<h>>, <<>>) /\ Answer(VerifyStatus(h))
  BY DEF VerifyObject
<1>2. /\ heads' = <<h>> /\ UNCHANGED <<input, page, said, perm>>
      /\ status' = VerifyStatus(h) /\ at = "bucket" /\ input'.op = "verify"
  BY <1>1 DEF VerifyObject, Answered, Answer
<1>3. heads' # <<>> /\ heads'[1] = h
  BY <1>2
<1>4. /\ status' \in {200, 404, 422, 503}
      /\ NoAnswer(heads'[1]) => status' = 503
      /\ status' = 503 => NoAnswer(heads'[1]) \/ Refuses(heads'[1])
      /\ status' = 404 => heads'[1].code = 404
      /\ status' = 422 => Conflicts(heads'[1])
  BY <1>2, <1>3, VerifyTable
<1>5. TransientIsRetryable'
  BY <1>2, <1>3, <1>4, BucketTold DEF TransientIsRetryable, NoFault
<1>6. Explained'
  BY <1>2, <1>3, <1>4 DEF Explained, NotThere, Unprocessable, ForNow, BucketRefuses
<1> QED BY <1>2, <1>5, <1>6, BucketTold DEF Told

LEMMA ToldStep == IInv /\ [Next]_vars /\ Undecided' => Told'
<1> SUFFICES ASSUME IInv, [Next]_vars, Undecided' PROVE Told'
  OBVIOUS
<1>0. Told /\ Undecided
  BY DEF IInv
<1>1. CASE CacheHit
  BY <1>0, <1>1, ToldKept DEF CacheHit
<1>2. CASE Respond \/ Count \/ Panic \/ Recover \/ WorkerPanics
  BY <1>0, <1>2, ToldKept DEF Respond, Count, Panic, Recover, WorkerPanics
<1>3. CASE UNCHANGED vars
  BY <1>0, <1>3, ToldKept DEF vars
<1>4. CASE \E q \in Question : AskGitHub(q)
  BY <1>4, AskTold
<1> QED BY <1>1, <1>2, <1>3, <1>4, RefuseTold, CacheMissTold, CheckPermissionTold,
           BatchTold, VerifyTold DEF Next

-----------------------------------------------------------------------------
(* The way out                                                             *)

LEMMA OutStep == IInv /\ [Next]_vars => Out'
<1> SUFFICES ASSUME IInv, [Next]_vars PROVE Out'
  OBVIOUS
<1>0. Typed /\ Undecided /\ Out
  BY DEF IInv
<1>1. ASSUME at \in Early, at' \in Early, UNCHANGED written PROVE Out'
  BY <1>0, <1>1 DEF Out, Early, Asking, Question, written
<1>2. CASE Refuse \/ CacheHit \/ CacheMiss
  BY <1>1, <1>2 DEF Refuse, CacheHit, CacheMiss, Answer, Goto, Early, Asking, Question
<1>3. CASE \E q \in Question : AskGitHub(q)
  <2>1. PICK q \in Question : AskGitHub(q)
    BY <1>3
  <2>2. PICK r \in Replies(q) :
          IF Failed(r) THEN Answer(ForgeStatus(GitHubError(r))) ELSE Next200(r.says)
    BY <2>1 DEF AskGitHub
  <2>3. at \in Early
    BY <2>1 DEF AskGitHub, Early, Asking
  <2>4. at' \in Early
    <3>1. CASE Failed(r)
      BY <2>2, <3>1 DEF Answer, Goto, Early
    <3>2. CASE ~Failed(r)
      BY <2>2, <2>3, <3>2, Next200Cases DEF Moved, Early, Asking, Question
    <3> QED BY <3>1, <3>2
  <2> QED BY <1>1, <2>1, <2>3, <2>4 DEF AskGitHub
<1>4. CASE CheckPermission
  BY <1>1, <1>4 DEF CheckPermission, Answer, Goto, Early, Asking
<1>5. CASE BatchObjects \/ VerifyObject
  BY <1>1, <1>5 DEF BatchObjects, VerifyObject, Answered, Answer, Goto, Early, Asking
<1>6. CASE Respond
  <2>1. ~recorder.wrote /\ at' = "body" /\ status' = status
    BY <1>0, <1>6 DEF Respond, Goto, Out, Early, decided
  <2>2. recorder' = [status |-> status, wrote |-> TRUE] /\ sent' = status
    BY <1>6, <2>1 DEF Respond, WriteHeader
  <2> QED BY <2>1, <2>2 DEF Out, Early, Asking, Question
<1>7. CASE Count
  <2>1. recorder.wrote /\ recorder.status = sent /\ sent \in {0, status, 500}
    BY <1>0, <1>7 DEF Count, Out
  <2>2. /\ at' = "done" /\ recorded' = recorder.status
        /\ UNCHANGED <<status, recorder, sent>>
    BY <1>7 DEF Count, Goto, decided
  <2> QED BY <2>1, <2>2 DEF Out, Early, Asking, Question
<1>8. CASE Panic \/ WorkerPanics
  <2>1. at' \in {"panicked", "crashed"} /\ UNCHANGED <<status, recorder, sent, recorded>>
    BY <1>8 DEF Panic, WorkerPanics, Goto, decided, written
  <2> QED BY <1>0, <2>1 DEF Out, Early, Asking, Question
<1>9. CASE Recover
  <2>1. at' = "recovered" /\ status' = status /\ recorded' = recorded
    BY <1>9 DEF Recover, Goto, decided
  <2>2. CASE recorder.wrote
    <3>1. recorder' = recorder /\ sent' = sent
      BY <1>9, <2>2 DEF Recover, WriteHeader
    <3> QED BY <1>0, <2>1, <2>2, <3>1 DEF Out, Early, Asking, Question
  <2>3. CASE ~recorder.wrote
    <3>1. recorder' = [status |-> 500, wrote |-> TRUE] /\ sent' = 500
      BY <1>9, <2>3 DEF Recover, WriteHeader
    <3> QED BY <2>1, <3>1 DEF Out, Early, Asking, Question
  <2> QED BY <2>2, <2>3
<1>10. CASE UNCHANGED vars
  BY <1>0, <1>10 DEF vars, decided, written, Out
<1> QED BY <1>2, <1>3, <1>4, <1>5, <1>6, <1>7, <1>8, <1>9, <1>10 DEF Next

-----------------------------------------------------------------------------
(* The theorems                                                            *)

LEMMA Invariance == Spec => []IInv
<1>1. IInv /\ [Next]_vars => IInv'
  BY TypedStep, PlacedStep, PassedStep, UndecidedStep, ToldStep, OutStep DEF IInv
<1> QED BY Start, <1>1, PTL DEF Spec

LEMMA IInvImplies ==
  IInv => /\ TypeOK /\ TransientIsRetryable /\ Explained /\ ServedIsAuthorized
          /\ RecordedIsSent /\ ValidatedExactly
<1> SUFFICES ASSUME IInv
             PROVE  /\ TypeOK /\ TransientIsRetryable /\ Explained /\ ServedIsAuthorized
                    /\ RecordedIsSent /\ ValidatedExactly
  OBVIOUS
<1>1. TypeOK
  <2>1. input \in Input
    BY InputTyped DEF IInv, Typed
  <2> QED BY <2>1 DEF IInv, Typed, TypeOK, Statuses
<1>3. RecordedIsSent
  BY DEF IInv, Out, RecordedIsSent
<1>4. ValidatedExactly
  <2>1. input \in Inputs /\ input \in Input
    BY InputTyped DEF IInv, Typed
  <2>2. Valid(input) <=> Consistent(input)
    BY <2>1, ValidLemma
  <2>3. said # <<>> \/ heads # <<>> => Valid(input)
    BY <2>1, RefusalMeans DEF IInv, Passed
  <2>4. status = 422 /\ heads = <<>> => ~Valid(input)
    BY DEF IInv, Told, Explained, Unprocessable
  <2> QED BY <2>2, <2>3, <2>4 DEF ValidatedExactly
<1> QED BY <1>1, <1>3, <1>4 DEF IInv, Told

(***************************************************************************)
(* Every variable keeps its type: GitHub is asked at most MaxPages + 2     *)
(* questions, and no status is given but those the handlers know.          *)
(***************************************************************************)
THEOREM ResponsesType == Spec => []TypeOK
BY Invariance, IInvImplies, PTL

(***************************************************************************)
(* A rate limit told by 429 or by its header is answered 429, what does    *)
(* not answer 503, whichever replies GitHub gave on however many pages and *)
(* whatever the bucket said of however many objects (github.go:292,        *)
(* handler.go:425, s3store.go:196).                                        *)
(***************************************************************************)
THEOREM TransientToldAsSuch == Spec => []TransientIsRetryable
BY Invariance, IInvImplies, PTL

(***************************************************************************)
(* A status of the table of operations.md:22-29 has the ground the table   *)
(* gives for it or one of the seven exceptions, for lists of objects and   *)
(* of installations of any length.                                         *)
(***************************************************************************)
THEOREM RefusalsExplained == Spec => []Explained
BY Invariance, IInvImplies, PTL

(***************************************************************************)
(* Nothing is asked of the bucket and no 200 is given before every gate is *)
(* passed and the permission needed is found, in the cache or in the       *)
(* answers to all three questions (handler.go:131-173, 311-346).           *)
(***************************************************************************)
THEOREM OnlyAuthorizedServed == Spec => []ServedIsAuthorized
BY Invariance, IInvImplies, PTL

(***************************************************************************)
(* Instrument counts the status the client got, with a panic before the    *)
(* header, after it, or none (metrics.go:75-97).                           *)
(***************************************************************************)
THEOREM CountedAsSent == Spec => []RecordedIsSent
BY Invariance, IInvImplies, PTL

(***************************************************************************)
(* GitHub and the bucket are asked for consistent requests only, and only  *)
(* inconsistent ones are refused with 422 before: for lists of any length, *)
(* the loop over the map seen finds two sizes of one OID wherever they are *)
(* (handler.go:198-208).                                                   *)
(***************************************************************************)
THEOREM ValidatedAsSpecified == Spec => []ValidatedExactly
BY Invariance, IInvImplies, PTL
=============================================================================
