---------------------------- MODULE GolfsProofs ----------------------------
(***************************************************************************)
(* How old what GitHub said of a user can be when it is acted on: for any  *)
(* number of requests, users, repositories and installations, any changes  *)
(* at GitHub, any capacity of the cache and any of the times.  First for a *)
(* request that is authorized (Authorize), then for the presigned URL that *)
(* comes of it (Golfs).                                                    *)
(***************************************************************************)
EXTENDS Golfs, TLAPS

CacheLemmas ==
  INSTANCE AuthCacheProofs
    WITH Key <- Token \X Path, Value <- Authorization,
         reply <- None, last <- None, newer <- None    \* history, of no use here

\* The fact f was true at some moment at which the clock showed x or more.
Since(f, x) == f \in True(github) \/ (ended[f] # Never /\ ended[f] >= x)

\* How long n requests to GitHub, one after the other, take at most.
Span(n) == n * HttpTimeout

\* The fact f ceased to be true at x or later.
Ended(f, x) == ended[f] # Never /\ ended[f] >= x

\* Path p named a repository, and that was in installation i, at x or later.
Housed(p, i, x) ==
  \E r \in Repo : Since(AtFact(p, r), x) /\ Since(HomeFact(r, i), x)

\* So it was, and the repository is s, or another that p no longer names.
Admissible(p, s, i, x) ==
  \E r \in Repo : Since(HomeFact(r, i), x) /\ (r = s \/ Ended(AtFact(p, r), x))

\* All that stands behind authorization a, for token t at path p, that was
\* put into the cache at x, or could have been.
Backed(t, p, a, x) ==
  /\ Since(PermFact(t, a.repo, a.perm), x - HttpTimeout)
  /\ Since(AtFact(p, a.repo), x - HttpTimeout)
  /\ \E i \in Allowed :
       /\ Since(InstFact(p, i), x - Span(2 + MaxPages))
       /\ Admissible(p, a.repo, i, x - Span(2 + MaxPages))
       /\ Since(MemberFact(t, i), x - Span(2))

ReceivedAnswer ==
  {<<a>> : a \in Installation \cup {None, "more", "found"} \cup Authorization}

RequestRecord ==
  [at     : InFlight \cup {"idle", "put", "granted"},
   token  : Token \cup {None},
   path   : Path \cup {None},
   sent   : Nat,
   answer : ReceivedAnswer \cup {None},
   inst   : Installation \cup {None},
   page   : 0..MaxPages,
   auth   : Authorization \cup {None}]

(***************************************************************************)
(* What holds of a request r wherever it stands.  The one underway left    *)
(* not longer ago than HttpTimeout, and its answer, if there is one, was   *)
(* true since; what was answered before is as much older as the requests   *)
(* in between took.  From the last answer on no time passes.               *)
(***************************************************************************)
Underway(r) ==
  /\ r.at # "idle" => r.token \in Token /\ r.path \in Path
  /\ r.at \in InFlight => r.sent <= now /\ now <= r.sent + HttpTimeout

InstallationStage(r) ==
  r.at = "installation" /\ r.answer # None =>
    \E i \in Installation \cup {None} :
      /\ r.answer = <<i>>
      /\ Since(InstFact(r.path, i), r.sent)
      /\ Housed(r.path, i, r.sent)

MembershipStage(r) ==
  r.at = "membership" =>
    /\ r.inst \in Allowed
    /\ r.page \in 1..MaxPages
    /\ Since(InstFact(r.path, r.inst), r.sent - Span(r.page))
    /\ Housed(r.path, r.inst, r.sent - Span(r.page))
    /\ r.answer # None /\ r.answer = <<"found">> => Since(MemberFact(r.token, r.inst), r.sent)

RepositoryStage(r) ==
  r.at = "repository" =>
    /\ r.inst \in Allowed
    /\ Since(InstFact(r.path, r.inst), r.sent - Span(1 + MaxPages))
    /\ Housed(r.path, r.inst, r.sent - Span(1 + MaxPages))
    /\ Since(MemberFact(r.token, r.inst), r.sent - HttpTimeout)
    /\ r.answer # None =>
         \/ r.answer = <<None>>
         \/ \E a \in Authorization :
              /\ r.answer = <<a>>
              /\ Since(PermFact(r.token, a.repo, a.perm), r.sent)
              /\ Since(AtFact(r.path, a.repo), r.sent)
              /\ Admissible(r.path, a.repo, r.inst, r.sent - Span(1 + MaxPages))

Answered(r) ==
  /\ r.at \in {"put", "granted"} => r.auth \in Authorization
  /\ r.at = "put" => Backed(r.token, r.path, r.auth, now)
  /\ r.at = "granted" => Backed(r.token, r.path, r.auth, now - (TTL - 1))

RequestOK(r) ==
  /\ Underway(r)
  /\ InstallationStage(r)
  /\ MembershipStage(r)
  /\ RepositoryStage(r)
  /\ Answered(r)

\* An entry of the cache under key k, put at expiresAt - TTL.
EntryOK(k, e) ==
  /\ e.expiresAt <= now + TTL
  /\ Backed(k[1], k[2], e.value, e.expiresAt - TTL)

Whole(c) == Cache!IsCache(c) /\ Cache!Linked(c)

WorldOK ==
  /\ now \in 0..MaxTime
  /\ github \in GitHubStates
  /\ ended \in [Fact -> Never..MaxTime]
  /\ changes \in 0..MaxChanges

CacheOK ==
  /\ Whole(cache)
  /\ \A k \in DOMAIN cache.items : EntryOK(k, cache.items[k])

RequestsOK ==
  /\ req \in [Request -> RequestRecord]
  /\ \A q \in Request : RequestOK(req[q])

IInv == WorldOK /\ CacheOK /\ RequestsOK

-----------------------------------------------------------------------------
(* Facts and times                                                         *)

LEMMA SpanLemma ==
  /\ \A n \in Nat : Span(n) \in Nat /\ Span(n + 1) = Span(n) + HttpTimeout
  /\ \A m, n \in Nat : m <= n => Span(m) <= Span(n)
  /\ Span(1) = HttpTimeout /\ Span(2) = 2 * HttpTimeout
<1>1. HttpTimeout \in Nat
  BY LimitsAssumption
<1>2. ASSUME NEW m \in Nat, NEW n \in Nat, m <= n PROVE Span(m) <= Span(n)
  <2>1. n - m \in Nat /\ n = m + (n - m)
    BY <1>2
  <2>2. \A d \in Nat : (m + d) * HttpTimeout = m * HttpTimeout + d * HttpTimeout
                       /\ d * HttpTimeout >= 0
    BY <1>1
  <2>3. /\ n * HttpTimeout = m * HttpTimeout + (n - m) * HttpTimeout
        /\ (n - m) * HttpTimeout >= 0
    BY <2>1, <2>2
  <2>4. m * HttpTimeout \in Nat /\ (n - m) * HttpTimeout \in Int
    BY <1>1, <2>1
  <2> QED BY <2>3, <2>4 DEF Span
<1>3. \A n \in Nat : Span(n) \in Nat /\ Span(n + 1) = Span(n) + HttpTimeout
  BY <1>1 DEF Span
<1> QED BY <1>1, <1>2, <1>3 DEF Span

LEMMA Times ==
  /\ HttpTimeout \in Nat \ {0} /\ TTL \in Nat \ {0} /\ MaxPages \in Nat \ {0}
  /\ Span(1) \in Nat /\ Span(2) \in Nat /\ Span(MaxPages) \in Nat
  /\ Span(1 + MaxPages) \in Nat /\ Span(2 + MaxPages) \in Nat
  /\ Span(1) = HttpTimeout
  /\ Span(2) = HttpTimeout + HttpTimeout
  /\ Span(1 + MaxPages) = Span(MaxPages) + HttpTimeout
  /\ Span(2 + MaxPages) = Span(1 + MaxPages) + HttpTimeout
<1>1. HttpTimeout \in Nat \ {0} /\ TTL \in Nat \ {0} /\ MaxPages \in Nat \ {0}
  BY LimitsAssumption
<1>2. /\ MaxPages \in Nat /\ 1 + MaxPages \in Nat /\ 2 + MaxPages \in Nat
      /\ 1 + MaxPages = MaxPages + 1 /\ 2 + MaxPages = (1 + MaxPages) + 1
  BY <1>1
<1>3. /\ Span(1 + MaxPages) = Span(MaxPages) + HttpTimeout
      /\ Span(2 + MaxPages) = Span(1 + MaxPages) + HttpTimeout
  BY <1>2, SpanLemma
<1>4. /\ Span(1) \in Nat /\ Span(2) \in Nat /\ Span(MaxPages) \in Nat
      /\ Span(1 + MaxPages) \in Nat /\ Span(2 + MaxPages) \in Nat
  BY <1>2, SpanLemma
<1>5. Span(2) = HttpTimeout + HttpTimeout /\ Span(1) = HttpTimeout
  BY <1>1, SpanLemma
<1> QED BY <1>1, <1>3, <1>4, <1>5

LEMMA Facts ==
  /\ \A p \in Path, r \in Repo : AtFact(p, r) \in Fact
  /\ \A p \in Path, i \in Installation \cup {None} : InstFact(p, i) \in Fact
  /\ \A r \in Repo, i \in Installation \cup {None} : HomeFact(r, i) \in Fact
  /\ \A t \in Token, i \in Installation : MemberFact(t, i) \in Fact
  /\ \A t \in Token, r \in Repo, m \in Permission : PermFact(t, r, m) \in Fact
  BY DEF Fact

\* What was true at a time was true since any earlier time.
LEMMA SinceEarlier ==
  ASSUME WorldOK, NEW f \in Fact, NEW x \in Int, NEW y \in Int, x <= y, Since(f, y)
  PROVE  Since(f, x)
<1>1. ended[f] \in Int
  BY LimitsAssumption DEF WorldOK, Never
<1> QED BY <1>1 DEF Since

LEMMA HousedEarlier ==
  ASSUME WorldOK, NEW p \in Path, NEW i \in Installation \cup {None},
         NEW x \in Int, NEW y \in Int, x <= y, Housed(p, i, y)
  PROVE  Housed(p, i, x)
<1>1. PICK r \in Repo : Since(AtFact(p, r), y) /\ Since(HomeFact(r, i), y)
  BY DEF Housed
<1>2. Since(AtFact(p, r), x) /\ Since(HomeFact(r, i), x)
  BY <1>1, Facts, SinceEarlier
<1> QED BY <1>2 DEF Housed

LEMMA AdmissibleEarlier ==
  ASSUME WorldOK, NEW p \in Path, NEW s, NEW i \in Installation \cup {None},
         NEW x \in Int, NEW y \in Int, x <= y, Admissible(p, s, i, y)
  PROVE  Admissible(p, s, i, x)
<1>1. PICK r \in Repo : /\ Since(HomeFact(r, i), y)
                        /\ r = s \/ Ended(AtFact(p, r), y)
  BY DEF Admissible
<1>2. Since(HomeFact(r, i), x)
  BY <1>1, Facts, SinceEarlier
<1>3. ended[AtFact(p, r)] \in Int
  BY Facts, LimitsAssumption DEF WorldOK, Never
<1>4. Ended(AtFact(p, r), y) => Ended(AtFact(p, r), x)
  BY <1>3 DEF Ended
<1> QED BY <1>1, <1>2, <1>4 DEF Admissible

\* Of the repository a path names now, what was so of another has ended.
LEMMA HousedIsAdmissible ==
  ASSUME WorldOK, NEW p \in Path, NEW i \in Installation \cup {None},
         NEW x \in Int, Housed(p, i, x)
  PROVE  Admissible(p, github.at[p], i, x)
<1>1. PICK r \in Repo : Since(AtFact(p, r), x) /\ Since(HomeFact(r, i), x)
  BY DEF Housed
<1>2. r # github.at[p] => AtFact(p, r) \notin True(github)
  BY DEF True, AtFact, InstFact, HomeFact, MemberFact, PermFact
<1>3. r = github.at[p] \/ Ended(AtFact(p, r), x)
  BY <1>1, <1>2 DEF Since, Ended
<1> QED BY <1>1, <1>3 DEF Admissible

LEMMA BackedEarlier ==
  ASSUME WorldOK, NEW t \in Token, NEW p \in Path, NEW a \in Authorization,
         NEW x \in Int, NEW y \in Int, x <= y, Backed(t, p, a, y)
  PROVE  Backed(t, p, a, x)
<1>1. a.repo \in Repo /\ a.perm \in Permission
  BY DEF Authorization
<1>2. \A i \in Allowed : i \in Installation
  BY AllowedAssumption
<1>3. \A d \in Nat : x - d \in Int /\ y - d \in Int /\ x - d <= y - d
  OBVIOUS
<1>4. HttpTimeout \in Nat /\ Span(2) \in Nat /\ Span(2 + MaxPages) \in Nat
  BY Times
<1>5. /\ Since(PermFact(t, a.repo, a.perm), x - HttpTimeout)
      /\ Since(AtFact(p, a.repo), x - HttpTimeout)
  BY <1>1, <1>3, <1>4, Facts, SinceEarlier DEF Backed
<1>6. PICK i \in Allowed : /\ Since(InstFact(p, i), y - Span(2 + MaxPages))
                           /\ Admissible(p, a.repo, i, y - Span(2 + MaxPages))
                           /\ Since(MemberFact(t, i), y - Span(2))
  BY DEF Backed
<1>7. /\ Since(InstFact(p, i), x - Span(2 + MaxPages))
      /\ Since(MemberFact(t, i), x - Span(2))
  BY <1>2, <1>3, <1>4, <1>6, Facts, SinceEarlier
<1>8. Admissible(p, a.repo, i, x - Span(2 + MaxPages))
  BY <1>2, <1>3, <1>4, <1>6, AdmissibleEarlier
<1> QED BY <1>5, <1>7, <1>8 DEF Backed

\* A change ends facts now: it takes nothing away from what was true before.
LEMMA SinceStays ==
  ASSUME WorldOK, GitHubChange,
         NEW f \in Fact, NEW x \in Int, x <= now, Since(f, x)
  PROVE  Since(f, x)'
<1>1. now \in Nat /\ now # Never
  BY LimitsAssumption DEF WorldOK, Never
<1>2. PICK g : Becomes(g)
  BY DEF GitHubChange
<1>3. ended'[f] = IF f \in True(github) \ True(g) THEN now ELSE ended[f]
  BY <1>2 DEF Becomes
<1>4. Since(f, x)' <=> f \in True(g) \/ (ended'[f] # Never /\ ended'[f] >= x)
  BY <1>2 DEF Becomes, Since, True, Never
<1> QED BY <1>1, <1>3, <1>4 DEF Since

LEMMA HousedStays ==
  ASSUME WorldOK, GitHubChange, NEW p \in Path, NEW i \in Installation \cup {None},
         NEW x \in Int, x <= now, Housed(p, i, x)
  PROVE  Housed(p, i, x)'
<1>1. PICK r \in Repo : Since(AtFact(p, r), x) /\ Since(HomeFact(r, i), x)
  BY DEF Housed
<1>2. Since(AtFact(p, r), x)' /\ Since(HomeFact(r, i), x)'
  BY <1>1, Facts, SinceStays
<1> QED BY <1>2 DEF Housed

LEMMA AdmissibleStays ==
  ASSUME WorldOK, GitHubChange, NEW p \in Path, NEW s,
         NEW i \in Installation \cup {None},
         NEW x \in Int, x <= now, Admissible(p, s, i, x)
  PROVE  \E r \in Repo : Since(HomeFact(r, i), x)' /\ (r = s \/ Ended(AtFact(p, r), x)')
<1>1. PICK r \in Repo : /\ Since(HomeFact(r, i), x)
                        /\ r = s \/ Ended(AtFact(p, r), x)
  BY DEF Admissible
<1>2. Since(HomeFact(r, i), x)'
  BY <1>1, Facts, SinceStays
<1>3. PICK g : Becomes(g)
  BY DEF GitHubChange
<1>4. ended'[AtFact(p, r)] \in {now, ended[AtFact(p, r)]}
  BY <1>3, Facts DEF Becomes
<1>5. now \in Nat /\ now # Never
  BY LimitsAssumption DEF WorldOK, Never
<1>6. Ended(AtFact(p, r), x) => Ended(AtFact(p, r), x)'
  <2>1. Ended(AtFact(p, r), x)' <=> ended'[AtFact(p, r)] # Never /\ ended'[AtFact(p, r)] >= x
    BY DEF Ended, Never, AtFact
  <2> QED BY <1>4, <1>5, <2>1 DEF Ended
<1> QED BY <1>1, <1>2, <1>6

LEMMA BackedStays ==
  ASSUME WorldOK, GitHubChange, NEW t \in Token, NEW p \in Path,
         NEW a \in Authorization, NEW x \in Int, x <= now, Backed(t, p, a, x)
  PROVE  Backed(t, p, a, x)'
<1>1. a.repo \in Repo /\ a.perm \in Permission
  BY DEF Authorization
<1>2. \A i \in Allowed : i \in Installation
  BY AllowedAssumption
<1>3. now \in Int
  BY LimitsAssumption DEF WorldOK
<1>4. \A d \in Nat : x - d \in Int /\ x - d <= now
  BY <1>3
<1>5. HttpTimeout \in Nat /\ Span(2) \in Nat /\ Span(2 + MaxPages) \in Nat
  BY Times
<1>6. /\ Since(PermFact(t, a.repo, a.perm), x - HttpTimeout)'
      /\ Since(AtFact(p, a.repo), x - HttpTimeout)'
  BY <1>1, <1>4, <1>5, Facts, SinceStays DEF Backed
<1>7. PICK i \in Allowed : /\ Since(InstFact(p, i), x - Span(2 + MaxPages))
                           /\ Admissible(p, a.repo, i, x - Span(2 + MaxPages))
                           /\ Since(MemberFact(t, i), x - Span(2))
  BY DEF Backed
<1>8. /\ Since(InstFact(p, i), x - Span(2 + MaxPages))'
      /\ Since(MemberFact(t, i), x - Span(2))'
  BY <1>2, <1>4, <1>5, <1>7, Facts, SinceStays
<1>9. Admissible(p, a.repo, i, x - Span(2 + MaxPages))'
  <2>1. \E r \in Repo : /\ Since(HomeFact(r, i), x - Span(2 + MaxPages))'
                        /\ r = a.repo \/ Ended(AtFact(p, r), x - Span(2 + MaxPages))'
    BY <1>2, <1>4, <1>5, <1>7, AdmissibleStays
  <2> QED BY <2>1 DEF Admissible
<1> QED BY <1>6, <1>8, <1>9 DEF Backed

\* Where neither the clock nor GitHub moves nothing said of them changes.
LEMMA SameWorld ==
  ASSUME UNCHANGED <<now, github, ended>>
  PROVE  /\ \A r : RequestOK(r)' <=> RequestOK(r)
         /\ \A k, e : EntryOK(k, e)' <=> EntryOK(k, e)
<1>1. \A f, x : Since(f, x)' <=> Since(f, x)
  BY DEF Since
<1>2. /\ \A p, s, i, x : Admissible(p, s, i, x)' <=> Admissible(p, s, i, x)
      /\ \A p, i, x : Housed(p, i, x)' <=> Housed(p, i, x)
  BY <1>1 DEF Admissible, Housed, Ended
<1>3. \A t, p, a, x : Backed(t, p, a, x)' <=> Backed(t, p, a, x)
  BY <1>1, <1>2 DEF Backed
<1> QED
  BY <1>1, <1>2, <1>3 DEF RequestOK, Underway, InstallationStage, MembershipStage,
                    RepositoryStage, Answered, EntryOK

-----------------------------------------------------------------------------
(* The steps of a request                                                  *)

\* A request that moves on to a record with nothing wrong.
Moves(q) ==
  \E r \in RequestRecord : RequestOK(r) /\ req' = [req EXCEPT ![q] = r]

LEMMA MovesKeeps ==
  ASSUME IInv, NEW q \in Request, Moves(q), UNCHANGED <<now, github, ended, changes>>
  PROVE  WorldOK' /\ RequestsOK'
<1>1. WorldOK'
  BY DEF IInv, WorldOK, GitHubStates, Fact
<1>2. PICK r \in RequestRecord : RequestOK(r) /\ req' = [req EXCEPT ![q] = r]
  BY DEF Moves
<1>3. req' \in [Request -> RequestRecord]
  BY <1>2 DEF IInv, RequestsOK
<1>4. \A o \in Request : RequestOK(req'[o])
  BY <1>2 DEF IInv, RequestsOK
<1> QED BY <1>1, <1>3, <1>4, SameWorld DEF RequestsOK

LEMMA CacheStays ==
  ASSUME IInv, UNCHANGED <<now, github, ended, cache>>
  PROVE  CacheOK'
<1>1. Whole(cache)'
  BY DEF IInv, CacheOK, Whole
<1> QED BY <1>1, SameWorld DEF IInv, CacheOK

LEMMA IdleMoves == Idle \in RequestRecord /\ RequestOK(Idle)
<1>1. MaxPages \in Nat
  BY Times
<1>2. Idle \in RequestRecord
  BY <1>1 DEF Idle, RequestRecord
<1> QED BY <1>2 DEF Idle, InFlight, RequestOK, Underway, InstallationStage,
                    MembershipStage, RepositoryStage, Answered

\* What the record of a request is.
LEMMA RequestFacts ==
  ASSUME IInv, NEW q \in Request
  PROVE  /\ now \in Nat
         /\ req[q] \in RequestRecord /\ RequestOK(req[q])
         /\ req[q].at # "idle" => req[q].token \in Token /\ req[q].path \in Path
         /\ req[q].sent \in Nat
         /\ req[q].at \in InFlight => req[q].sent <= now /\ now <= req[q].sent + HttpTimeout
<1>1. req[q] \in RequestRecord /\ RequestOK(req[q])
  BY DEF IInv, RequestsOK
<1>2. now \in Nat
  BY LimitsAssumption DEF IInv, WorldOK
<1> QED BY <1>1, <1>2 DEF RequestRecord, RequestOK, Underway

LEMMA FailMoves ==
  ASSUME IInv, NEW q \in Request, Fail(q) \/ Finish(q)
  PROVE  Moves(q)
  BY IdleMoves DEF Fail, Finish, Moves

\* What GitHub answers is true as it answers, after it was asked.
LEMMA GitHubAnswersMoves ==
  ASSUME IInv, NEW q \in Request, GitHubAnswers(q)
  PROVE  Moves(q)
<1> DEFINE o == req[q]
<1>1. PICK a \in Answers(q)[o.at] : req' = [req EXCEPT ![q].answer = a]
  BY DEF GitHubAnswers
<1> DEFINE r == [o EXCEPT !.answer = a]
<1>2. o \in RequestRecord /\ RequestOK(o) /\ o.at \in InFlight /\ o.token \in Token /\ o.path \in Path
  BY RequestFacts DEF GitHubAnswers, InFlight
<1>3. /\ github.at[o.path] \in Repo
      /\ \A x \in Repo : /\ github.inst[x] \in Installation \cup {None}
                         /\ github.perm[<<o.token, x>>] \in Permission
  BY <1>2 DEF IInv, WorldOK, GitHubStates
<1>4. CASE o.at = "installation"
  <2> DEFINE i == github.inst[github.at[o.path]]
  <2>1. a = <<i>> /\ i \in Installation \cup {None}
    <3>1. Answers(q)["installation"] = {<<i>>}
      BY DEF Answers
    <3>2. i \in Installation \cup {None}
      BY <1>3
    <3> HIDE DEF i
    <3> QED BY <1>1, <1>4, <3>1, <3>2
  <2>2. Since(InstFact(o.path, i), o.sent) /\ Housed(o.path, i, o.sent)
    BY <1>2, <1>3 DEF Since, Housed, True
  <2> HIDE DEF i
  <2>3. r \in RequestRecord
    BY <1>2, <2>1 DEF RequestRecord, ReceivedAnswer
  <2>4. RequestOK(r)
    BY <1>2, <1>4, <2>1, <2>2 DEF RequestRecord, RequestOK, Underway, InstallationStage,
       MembershipStage, RepositoryStage, Answered
  <2> QED BY <1>1, <2>3, <2>4 DEF Moves
<1>5. CASE o.at = "membership"
  <2>1. \/ a = <<"more">>
        \/ a = <<"found">> /\ <<o.token, o.inst>> \in github.member
    <3>1. Answers(q)["membership"] =
            {<<"more">>} \cup {<<"found">> : i \in {o.inst} \cap
                                  {j \in Installation : <<o.token, j>> \in github.member}}
      BY DEF Answers
    <3> QED BY <1>1, <1>5, <3>1
  <2>2. a = <<"found">> => Since(MemberFact(o.token, o.inst), o.sent)
    <3>1. SUFFICES ASSUME <<o.token, o.inst>> \in github.member
                   PROVE  MemberFact(o.token, o.inst) \in True(github)
      BY <2>1 DEF Since
    <3> QED BY <3>1 DEF True
  <2>3. r \in RequestRecord
    BY <1>2, <2>1 DEF RequestRecord, ReceivedAnswer
  <2>4. RequestOK(r)
    BY <1>2, <1>5, <2>2 DEF RequestRecord, RequestOK, Underway, InstallationStage,
       MembershipStage, RepositoryStage, Answered
  <2> QED BY <1>1, <2>3, <2>4 DEF Moves
<1>6. CASE o.at = "repository"
  <2> DEFINE x == github.at[o.path]
             m == github.perm[<<o.token, x>>]
             z == [repo |-> x, perm |-> m]
  <2>1. a = <<None>> \/ a = <<z>>
    BY <1>1, <1>6 DEF Answers
  <2>2. z \in Authorization /\ z.repo = x /\ z.perm = m
    BY <1>3 DEF Authorization
  <2>3. /\ Since(PermFact(o.token, x, m), o.sent)
        /\ Since(AtFact(o.path, x), o.sent)
    BY <1>2, <1>3 DEF Since, True
  <2>6. Admissible(o.path, x, o.inst, o.sent - Span(1 + MaxPages))
    <3>1. Housed(o.path, o.inst, o.sent - Span(1 + MaxPages)) /\ o.inst \in Installation
      BY <1>2, <1>6, AllowedAssumption DEF RequestOK, RepositoryStage
    <3>2. o.sent - Span(1 + MaxPages) \in Int
      BY <1>2, Times DEF RequestRecord
    <3> QED BY <1>2, <3>1, <3>2, HousedIsAdmissible DEF IInv
  <2> HIDE DEF x, m, z
  <2>4. r \in RequestRecord
    BY <1>2, <2>1, <2>2 DEF RequestRecord, ReceivedAnswer
  <2>5. RequestOK(r)
    BY <1>2, <1>6, <2>1, <2>2, <2>3, <2>6 DEF RequestRecord, RequestOK, Underway, InstallationStage,
       MembershipStage, RepositoryStage, Answered
  <2> QED BY <1>1, <2>4, <2>5 DEF Moves
<1> QED BY <1>2, <1>4, <1>5, <1>6 DEF InFlight

\* The one admitted was at the path since the request that is answered.
LEMMA ReceiveInstallationMoves ==
  ASSUME IInv, NEW q \in Request, ReceiveInstallation(q)
  PROVE  Moves(q)
<1> DEFINE o == req[q]
           i == Answer(q)
           r == [o EXCEPT !.at = "membership", !.sent = now, !.answer = None,
                          !.inst = i, !.page = 1]
<1>1. /\ o \in RequestRecord /\ RequestOK(o) /\ o.at = "installation" /\ o.answer # None
      /\ o.path \in Path /\ o.token \in Token /\ now \in Nat /\ o.sent \in Nat
      /\ now <= o.sent + HttpTimeout
  BY RequestFacts DEF ReceiveInstallation, Received, InFlight
<1>2. i \in Allowed /\ i \in Installation /\ req' = [req EXCEPT ![q] = r]
  BY AllowedAssumption DEF ReceiveInstallation, Ask, Admitted
<1>3. Since(InstFact(o.path, i), o.sent) /\ Housed(o.path, i, o.sent)
  BY <1>1 DEF RequestOK, InstallationStage, Answer
<1> HIDE DEF i
<1>4. Since(InstFact(o.path, i), now - Span(1)) /\ Housed(o.path, i, now - Span(1))
  <2>1. Span(1) = HttpTimeout /\ HttpTimeout \in Nat
    BY Times
  <2>2. now - Span(1) \in Int /\ o.sent \in Int /\ now - Span(1) <= o.sent
    BY <1>1, <2>1
  <2>3. InstFact(o.path, i) \in Fact
    BY <1>1, <1>2, Facts
  <2>4. Since(InstFact(o.path, i), now - Span(1))
    BY <1>3, <2>2, <2>3, SinceEarlier DEF IInv
  <2>5. Housed(o.path, i, now - Span(1))
    BY <1>1, <1>2, <1>3, <2>2, HousedEarlier DEF IInv
  <2> QED BY <2>4, <2>5
<1>5. 1 \in 1..MaxPages /\ 1 \in 0..MaxPages /\ HttpTimeout \in Nat
  BY Times
<1>6. r \in RequestRecord
  BY <1>1, <1>2, <1>5 DEF RequestRecord, InFlight
<1>7. RequestOK(r)
  <2>1. Underway(r)
    BY <1>1, <1>5 DEF RequestRecord, Underway
  <2> QED BY <1>1, <1>2, <1>4, <1>5, <2>1 DEF RequestRecord, RequestOK, Underway, InstallationStage,
       MembershipStage, RepositoryStage, Answered
<1> QED BY <1>2, <1>6, <1>7 DEF Moves

\* Each page makes what is known of the path HttpTimeout older.
LEMMA ReceivePageMoves ==
  ASSUME IInv, NEW q \in Request, ReceivePage(q)
  PROVE  Moves(q)
<1> DEFINE o == req[q]
           r == [o EXCEPT !.at = "membership", !.sent = now, !.answer = None,
                          !.inst = o.inst, !.page = o.page + 1]
<1>1. /\ o \in RequestRecord /\ RequestOK(o) /\ o.at = "membership"
      /\ o.path \in Path /\ o.token \in Token /\ now \in Nat /\ o.sent \in Nat
      /\ now <= o.sent + HttpTimeout
  BY RequestFacts DEF ReceivePage, Received, InFlight
<1>2. o.page < MaxPages /\ req' = [req EXCEPT ![q] = r]
  BY DEF ReceivePage, Ask, MorePages
<1>3. /\ o.inst \in Allowed /\ o.inst \in Installation /\ o.page \in 1..MaxPages
      /\ Since(InstFact(o.path, o.inst), o.sent - Span(o.page))
      /\ Housed(o.path, o.inst, o.sent - Span(o.page))
  BY <1>1, AllowedAssumption DEF RequestOK, MembershipStage
<1>4. MaxPages \in Nat /\ HttpTimeout \in Nat
  BY Times
<1>5. o.page + 1 \in 1..MaxPages /\ o.page + 1 \in 0..MaxPages /\ o.page \in Nat
  BY <1>2, <1>3, <1>4
<1>6. /\ Since(InstFact(o.path, o.inst), now - Span(o.page + 1))
      /\ Housed(o.path, o.inst, now - Span(o.page + 1))
  <2>1. Span(o.page) \in Nat /\ Span(o.page + 1) = Span(o.page) + HttpTimeout
    BY <1>5, SpanLemma
  <2>2. now - Span(o.page + 1) \in Int /\ o.sent - Span(o.page) \in Int
        /\ now - Span(o.page + 1) <= o.sent - Span(o.page)
    BY <1>1, <1>4, <2>1
  <2>3. InstFact(o.path, o.inst) \in Fact
    BY <1>1, <1>3, Facts
  <2>4. Since(InstFact(o.path, o.inst), now - Span(o.page + 1))
    BY <1>3, <2>2, <2>3, SinceEarlier DEF IInv
  <2>5. Housed(o.path, o.inst, now - Span(o.page + 1))
    BY <1>1, <1>3, <2>2, HousedEarlier DEF IInv
  <2> QED BY <2>4, <2>5
<1>7. r \in RequestRecord
  BY <1>1, <1>3, <1>5 DEF RequestRecord, InFlight
<1>8. RequestOK(r)
  <2>1. Underway(r)
    BY <1>1, <1>4 DEF RequestRecord, Underway
  <2> QED BY <1>1, <1>3, <1>5, <1>6, <2>1 DEF RequestRecord, RequestOK, InstallationStage,
       MembershipStage, RepositoryStage, Answered
<1> QED BY <1>2, <1>7, <1>8 DEF Moves

\* The installation is open to the user, whichever page showed it.
LEMMA ReceiveMembershipMoves ==
  ASSUME IInv, NEW q \in Request, ReceiveMembership(q)
  PROVE  Moves(q)
<1> DEFINE o == req[q]
           r == [o EXCEPT !.at = "repository", !.sent = now, !.answer = None,
                          !.inst = o.inst, !.page = 0]
<1>1. /\ o \in RequestRecord /\ RequestOK(o) /\ o.at = "membership" /\ o.answer # None
      /\ o.path \in Path /\ o.token \in Token /\ now \in Nat /\ o.sent \in Nat
      /\ now <= o.sent + HttpTimeout
  BY RequestFacts DEF ReceiveMembership, Received, InFlight
<1>2. o.answer[1] = "found" /\ req' = [req EXCEPT ![q] = r]
  BY DEF ReceiveMembership, Ask, Answer
<1>3. /\ o.inst \in Allowed /\ o.inst \in Installation /\ o.page \in 1..MaxPages
      /\ Since(InstFact(o.path, o.inst), o.sent - Span(o.page))
      /\ Housed(o.path, o.inst, o.sent - Span(o.page))
  BY <1>1, AllowedAssumption DEF RequestOK, MembershipStage
<1>4. Since(MemberFact(o.token, o.inst), o.sent)
  <2>1. o.answer = <<"found">>
    BY <1>1, <1>2 DEF RequestRecord, ReceivedAnswer
  <2> QED BY <1>1, <2>1 DEF RequestOK, MembershipStage
<1>5. MaxPages \in Nat /\ HttpTimeout \in Nat /\ 0 \in 0..MaxPages
  BY Times
<1>6. /\ Since(InstFact(o.path, o.inst), now - Span(1 + MaxPages))
      /\ Housed(o.path, o.inst, now - Span(1 + MaxPages))
  <2>1. Span(MaxPages) \in Nat /\ Span(1 + MaxPages) = Span(MaxPages) + HttpTimeout
    BY Times
  <2>2. Span(o.page) \in Nat /\ Span(o.page) <= Span(MaxPages)
    <3>1. o.page \in Nat /\ o.page <= MaxPages
      BY <1>3, <1>5
    <3> HIDE DEF o
    <3> QED BY <1>5, <3>1, SpanLemma
  <2>3. now - Span(1 + MaxPages) \in Int /\ o.sent - Span(o.page) \in Int
        /\ now - Span(1 + MaxPages) <= o.sent - Span(o.page)
    BY <1>1, <1>5, <2>1, <2>2
  <2>4. InstFact(o.path, o.inst) \in Fact
    BY <1>1, <1>3, Facts
  <2>5. Since(InstFact(o.path, o.inst), now - Span(1 + MaxPages))
    BY <1>3, <2>3, <2>4, SinceEarlier DEF IInv
  <2>6. Housed(o.path, o.inst, now - Span(1 + MaxPages))
    BY <1>1, <1>3, <2>3, HousedEarlier DEF IInv
  <2> QED BY <2>5, <2>6
<1>7. Since(MemberFact(o.token, o.inst), now - HttpTimeout)
  <2>1. now - HttpTimeout \in Int /\ now - HttpTimeout <= o.sent
    BY <1>1, <1>5
  <2>2. MemberFact(o.token, o.inst) \in Fact
    BY <1>1, <1>3, Facts
  <2> QED BY <1>1, <1>4, <2>1, <2>2, SinceEarlier DEF IInv
<1>8. r \in RequestRecord
  BY <1>1, <1>3, <1>5 DEF RequestRecord, InFlight
<1>9. RequestOK(r)
  <2>1. Underway(r)
    BY <1>1, <1>5 DEF RequestRecord, Underway
  <2> QED BY <1>1, <1>3, <1>6, <1>7, <2>1 DEF RequestRecord, RequestOK, InstallationStage,
       MembershipStage, RepositoryStage, Answered
<1> QED BY <1>2, <1>8, <1>9 DEF Moves

\* The authorization is complete, and everything behind it recent.
LEMMA ReceiveRepositoryMoves ==
  ASSUME IInv, NEW q \in Request, ReceiveRepository(q)
  PROVE  Moves(q)
<1> DEFINE o == req[q]
           a == Answer(q)
           r == [o EXCEPT !.at = "put", !.auth = a, !.answer = None]
<1>1. /\ o \in RequestRecord /\ RequestOK(o) /\ o.at = "repository" /\ o.answer # None
      /\ o.path \in Path /\ o.token \in Token /\ now \in Nat /\ o.sent \in Nat
      /\ now <= o.sent + HttpTimeout
  BY RequestFacts DEF ReceiveRepository, Received, InFlight
<1>2. a # None /\ req' = [req EXCEPT ![q] = r]
  BY DEF ReceiveRepository
<1>3. /\ o.inst \in Allowed /\ o.inst \in Installation
      /\ Since(InstFact(o.path, o.inst), o.sent - Span(1 + MaxPages))
      /\ Since(MemberFact(o.token, o.inst), o.sent - HttpTimeout)
  BY <1>1, AllowedAssumption DEF RequestOK, RepositoryStage
<1>4. /\ a \in Authorization
      /\ Since(PermFact(o.token, a.repo, a.perm), o.sent)
      /\ Since(AtFact(o.path, a.repo), o.sent)
      /\ Admissible(o.path, a.repo, o.inst, o.sent - Span(1 + MaxPages))
  BY <1>1, <1>2 DEF RequestOK, RepositoryStage, Answer
<1> HIDE DEF a
<1>5. a.repo \in Repo /\ a.perm \in Permission
  BY <1>4 DEF Authorization
<1>6. /\ HttpTimeout \in Nat /\ Span(2) = HttpTimeout + HttpTimeout
      /\ Span(1 + MaxPages) \in Nat
      /\ Span(2 + MaxPages) = Span(1 + MaxPages) + HttpTimeout
  BY Times
<1>7. /\ now - HttpTimeout \in Int /\ now - HttpTimeout <= o.sent
      /\ now - Span(2) \in Int /\ now - Span(2) <= o.sent - HttpTimeout
      /\ now - Span(2 + MaxPages) \in Int
      /\ now - Span(2 + MaxPages) <= o.sent - Span(1 + MaxPages)
      /\ o.sent - HttpTimeout \in Int /\ o.sent - Span(1 + MaxPages) \in Int
  BY <1>1, <1>6
<1>8. Backed(o.token, o.path, a, now)
  <2>1. /\ Since(PermFact(o.token, a.repo, a.perm), now - HttpTimeout)
        /\ Since(AtFact(o.path, a.repo), now - HttpTimeout)
    BY <1>1, <1>4, <1>5, <1>7, Facts, SinceEarlier DEF IInv
  <2>2. /\ Since(InstFact(o.path, o.inst), now - Span(2 + MaxPages))
        /\ Since(MemberFact(o.token, o.inst), now - Span(2))
    BY <1>1, <1>3, <1>7, Facts, SinceEarlier DEF IInv
  <2>3. Admissible(o.path, a.repo, o.inst, now - Span(2 + MaxPages))
    BY <1>1, <1>3, <1>4, <1>7, AdmissibleEarlier DEF IInv
  <2> QED BY <1>3, <2>1, <2>2, <2>3 DEF Backed
<1>9. r \in RequestRecord
  BY <1>1, <1>4 DEF RequestRecord
<1>10. RequestOK(r)
  <2>1. Underway(r)
    BY <1>1 DEF RequestRecord, Underway, InFlight
  <2> QED BY <1>1, <1>4, <1>8, <2>1 DEF RequestRecord, RequestOK, InstallationStage,
       MembershipStage, RepositoryStage, Answered
<1> QED BY <1>2, <1>9, <1>10 DEF Moves

\* What is in the cache is known to be Whole, and so are the operations.
LEMMA CacheOperations ==
  ASSUME NEW c, Whole(c), NEW k \in Token \X Path, NEW v \in Authorization, NEW x \in Nat
  PROVE  /\ k \in DOMAIN c.items => /\ Whole(Cache!AfterHit(c, k))
                                    /\ Cache!AfterHit(c, k).items = c.items
         /\ LET m == Cache!AfterMiss(c, k)
            IN  /\ Whole(m)
                /\ DOMAIN m.items \subseteq DOMAIN c.items
                /\ \A j \in DOMAIN m.items : m.items[j] = c.items[j]
         /\ LET d == Cache!AfterPut(c, k, v, x)
            IN  /\ Whole(d)
                /\ \A j \in DOMAIN d.items :
                     \/ j = k /\ d.items[j] = [value |-> v, expiresAt |-> x + TTL]
                     \/ j \in DOMAIN c.items /\ d.items[j] = c.items[j]
<1> USE LimitsAssumption
<1>1. \A d : Whole(d) <=> CacheLemmas!WellFormed(d)
  BY DEF Whole, CacheLemmas!WellFormed, Cache!IsCache, CacheLemmas!IsCache,
         Cache!Linked, CacheLemmas!Linked, Cache!Entry, CacheLemmas!Entry,
         Cache!IsInjective, CacheLemmas!IsInjective, Cache!ToSet, CacheLemmas!ToSet
<1>2. /\ Cache!AfterHit(c, k) = CacheLemmas!AfterHit(c, k)
      /\ Cache!AfterMiss(c, k) = CacheLemmas!AfterMiss(c, k)
      /\ Cache!AfterPut(c, k, v, x) = CacheLemmas!AfterPut(c, k, v, x)
  BY DEF Cache!AfterHit, CacheLemmas!AfterHit, Cache!AfterMiss, CacheLemmas!AfterMiss,
         Cache!AfterPut, CacheLemmas!AfterPut, Cache!MovedToFront, CacheLemmas!MovedToFront,
         Cache!Unlinked, CacheLemmas!Unlinked, Cache!RemoveAt, CacheLemmas!RemoveAt,
         Cache!Position, CacheLemmas!Position, Cache!Holds, CacheLemmas!Holds,
         Cache!RemoveEntry, CacheLemmas!RemoveEntry, Cache!Refreshed, CacheLemmas!Refreshed,
         Cache!Inserted, CacheLemmas!Inserted, Cache!Written, CacheLemmas!Written,
         Cache!Trimmed, CacheLemmas!Trimmed, Cache!Last, CacheLemmas!Last
<1>3. k \in DOMAIN c.items => /\ Whole(Cache!AfterHit(c, k))
                              /\ Cache!AfterHit(c, k).items = c.items
  BY <1>1, <1>2, CacheLemmas!AfterHitLemma
<1>4. LET m == Cache!AfterMiss(c, k)
      IN  /\ Whole(m)
          /\ DOMAIN m.items \subseteq DOMAIN c.items
          /\ \A j \in DOMAIN m.items : m.items[j] = c.items[j]
  BY <1>1, <1>2, CacheLemmas!AfterMissLemma
<1>5. LET d == Cache!AfterPut(c, k, v, x)
      IN  /\ Whole(d)
          /\ \A j \in DOMAIN d.items :
               \/ j = k /\ d.items[j] = [value |-> v, expiresAt |-> x + TTL]
               \/ j \in DOMAIN c.items /\ d.items[j] = c.items[j]
  BY <1>1, <1>2, CacheLemmas!AfterPutLemma
<1> QED BY <1>3, <1>4, <1>5

LEMMA HitKeeps ==
  ASSUME IInv, NEW q \in Request, NEW t \in Token, NEW p \in Path, Hit(q, t, p)
  PROVE  IInv'
<1> DEFINE e == cache.items[<<t, p>>]
           r == [Idle EXCEPT !.at = "granted", !.token = t, !.path = p, !.auth = e.value]
<1>1. /\ <<t, p>> \in DOMAIN cache.items /\ now < e.expiresAt
      /\ cache' = Cache!AfterHit(cache, <<t, p>>) /\ req' = [req EXCEPT ![q] = r]
      /\ UNCHANGED <<now, github, ended, changes>>
  BY DEF Hit, Cache!Fresh, Cache!Holds
<1>2. /\ e.value \in Authorization /\ e.expiresAt \in Nat /\ EntryOK(<<t, p>>, e)
      /\ Whole(cache) /\ now \in Nat
  BY <1>1, RequestFacts DEF IInv, CacheOK, Whole, Cache!IsCache, Cache!Entry
<1> HIDE DEF e
<1>3. CacheOK'
  <2>1. Whole(cache') /\ cache'.items = cache.items
    BY <1>1, <1>2, LimitsAssumption, CacheOperations
  <2> QED BY <1>1, <2>1, SameWorld DEF IInv, CacheOK, Whole
<1>4. Backed(t, p, e.value, now - (TTL - 1))
  <2>1. Backed(t, p, e.value, e.expiresAt - TTL)
    BY <1>2 DEF EntryOK
  <2>2. /\ now - (TTL - 1) \in Int /\ e.expiresAt - TTL \in Int
        /\ now - (TTL - 1) <= e.expiresAt - TTL
    BY <1>1, <1>2, Times
  <2> QED BY <1>2, <2>1, <2>2, BackedEarlier DEF IInv
<1>5. r \in RequestRecord
  BY <1>2, IdleMoves DEF RequestRecord, Idle
<1>6. RequestOK(r)
  BY <1>2, <1>4 DEF Idle, InFlight, RequestOK, Underway, InstallationStage,
       MembershipStage, RepositoryStage, Answered
<1>7. Moves(q)
  BY <1>1, <1>5, <1>6 DEF Moves
<1> QED BY <1>1, <1>3, <1>7, MovesKeeps DEF IInv

LEMMA MissKeeps ==
  ASSUME IInv, NEW q \in Request, NEW t \in Token, NEW p \in Path, Miss(q, t, p)
  PROVE  IInv'
<1> DEFINE r == [Idle EXCEPT !.at = "installation", !.token = t, !.path = p, !.sent = now]
<1>1. /\ cache' = Cache!AfterMiss(cache, <<t, p>>) /\ req' = [req EXCEPT ![q] = r]
      /\ UNCHANGED <<now, github, ended, changes>> /\ Whole(cache) /\ now \in Nat
  BY RequestFacts DEF Miss, IInv, CacheOK
<1>2. CacheOK'
  <2> DEFINE m == Cache!AfterMiss(cache, <<t, p>>)
  <2>1. /\ Whole(m) /\ DOMAIN m.items \subseteq DOMAIN cache.items
        /\ \A j \in DOMAIN m.items : m.items[j] = cache.items[j]
    <3>1. github.perm[<<t, github.at[p]>>] \in Permission /\ github.at[p] \in Repo
      BY DEF IInv, WorldOK, GitHubStates
    <3>2. [repo |-> github.at[p], perm |-> github.perm[<<t, github.at[p]>>]] \in Authorization
      BY <3>1 DEF Authorization
    <3>3. <<t, p>> \in Token \X Path
      OBVIOUS
    <3> HIDE DEF m
    <3>4. \A v \in Authorization :
            /\ Whole(m) /\ DOMAIN m.items \subseteq DOMAIN cache.items
            /\ \A j \in DOMAIN m.items : m.items[j] = cache.items[j]
      BY <1>1, <3>3, CacheOperations DEF m
    <3> QED BY <3>2, <3>4
  <2>2. cache' = m
    BY <1>1
  <2> HIDE DEF m
  <2>3. \A j \in DOMAIN cache'.items : EntryOK(j, cache'.items[j])
    BY <2>1, <2>2 DEF IInv, CacheOK
  <2> QED BY <1>1, <2>1, <2>2, <2>3, SameWorld DEF CacheOK, Whole
<1>3. r \in RequestRecord
  BY <1>1, IdleMoves DEF RequestRecord, Idle, InFlight
<1>4. RequestOK(r)
  <2>1. now <= now + HttpTimeout
    BY <1>1, Times
  <2> QED BY <1>1, <2>1 DEF Idle, InFlight, RequestOK, Underway, InstallationStage,
       MembershipStage, RepositoryStage, Answered
<1>5. Moves(q)
  BY <1>1, <1>3, <1>4 DEF Moves
<1> QED BY <1>1, <1>2, <1>5, MovesKeeps DEF IInv

\* The lifetime counts from here, whatever was put under the key meanwhile.
LEMMA PutKeeps ==
  ASSUME IInv, NEW q \in Request, Put(q)
  PROVE  IInv'
<1> DEFINE o == req[q]
           k == <<o.token, o.path>>
           r == [o EXCEPT !.at = "granted"]
           d == Cache!AfterPut(cache, k, o.auth, now)
<1>1. /\ o \in RequestRecord /\ RequestOK(o) /\ o.at = "put" /\ now \in Nat
      /\ o.token \in Token /\ o.path \in Path
      /\ cache' = d /\ req' = [req EXCEPT ![q] = r]
      /\ UNCHANGED <<now, github, ended, changes>> /\ Whole(cache)
  BY RequestFacts DEF Put, IInv, CacheOK, CacheKey
<1>2. o.auth \in Authorization /\ Backed(o.token, o.path, o.auth, now)
  BY <1>1 DEF RequestOK, Answered
<1>3. TTL \in Nat \ {0}
  BY Times
<1>4. CacheOK'
  <2> DEFINE e == [value |-> o.auth, expiresAt |-> now + TTL]
  <2>1. /\ Whole(d)
        /\ \A j \in DOMAIN d.items : \/ j = k /\ d.items[j] = e
                                     \/ j \in DOMAIN cache.items /\ d.items[j] = cache.items[j]
    BY <1>1, <1>2, CacheOperations
  <2>2. EntryOK(k, e)
    <3>1. e.expiresAt - TTL = now /\ e.expiresAt <= now + TTL
      BY <1>1, <1>3
    <3> QED BY <1>2, <3>1 DEF EntryOK
  <2> HIDE DEF d, e, k
  <2>3. \A j \in DOMAIN d.items : EntryOK(j, d.items[j])
    BY <2>1, <2>2 DEF IInv, CacheOK
  <2> QED BY <1>1, <2>1, <2>3, SameWorld DEF CacheOK, Whole
<1>5. Backed(o.token, o.path, o.auth, now - (TTL - 1))
  <2>1. now - (TTL - 1) \in Int /\ now - (TTL - 1) <= now
    BY <1>1, <1>3
  <2> QED BY <1>1, <1>2, <2>1, BackedEarlier DEF IInv
<1>6. r \in RequestRecord
  BY <1>1 DEF RequestRecord
<1>7. RequestOK(r)
  BY <1>1, <1>2, <1>5 DEF RequestRecord, InFlight, RequestOK, Underway, InstallationStage,
       MembershipStage, RepositoryStage, Answered
<1>8. Moves(q)
  BY <1>1, <1>6, <1>7 DEF Moves
<1> QED BY <1>1, <1>4, <1>8, MovesKeeps DEF IInv

LEMMA StepKeeps ==
  ASSUME IInv, NEW q \in Request, Step(q)
  PROVE  IInv'
<1>1. ASSUME \/ GitHubAnswers(q) \/ ReceiveInstallation(q) \/ ReceivePage(q)
             \/ ReceiveMembership(q) \/ ReceiveRepository(q) \/ Fail(q) \/ Finish(q)
      PROVE  IInv'
  <2>1. Moves(q)
    BY <1>1, GitHubAnswersMoves, ReceiveInstallationMoves, ReceivePageMoves,
       ReceiveMembershipMoves, ReceiveRepositoryMoves, FailMoves
  <2>2. UNCHANGED <<now, github, ended, changes, cache>>
    BY <1>1 DEF GitHubAnswers, ReceiveInstallation, ReceivePage, ReceiveMembership,
                ReceiveRepository, Fail, Finish
  <2> QED BY <2>1, <2>2, MovesKeeps, CacheStays DEF IInv
<1> QED BY <1>1, HitKeeps, MissKeeps, PutKeeps DEF Step

\* Time passes for a request only while it waits for GitHub.
LEMMA TickKeeps ==
  ASSUME IInv, Tick
  PROVE  IInv'
<1>1. /\ now \in Nat /\ now < MaxTime /\ now' = now + 1
      /\ UNCHANGED <<github, ended, changes, cache, req>>
  BY LimitsAssumption DEF IInv, WorldOK, Tick
<1>2. \A f, x : Since(f, x)' <=> Since(f, x)
  BY <1>1 DEF Since
<1>3. /\ \A p, s, i, x : Admissible(p, s, i, x)' <=> Admissible(p, s, i, x)
      /\ \A p, i, x : Housed(p, i, x)' <=> Housed(p, i, x)
  BY <1>1, <1>2 DEF Admissible, Housed, Ended
<1>4. \A t, p, a, x : Backed(t, p, a, x)' <=> Backed(t, p, a, x)
  BY <1>2, <1>3 DEF Backed
<1>5. WorldOK'
  <2>1. now' \in 0..MaxTime
    BY <1>1, LimitsAssumption
  <2> QED BY <1>1, <2>1 DEF IInv, WorldOK, GitHubStates, Fact
<1>6. CacheOK'
  <2>1. ASSUME NEW k \in DOMAIN cache.items PROVE EntryOK(k, cache.items[k])'
    <3>1. cache.items[k].expiresAt \in Nat /\ EntryOK(k, cache.items[k])
      BY DEF IInv, CacheOK, Whole, Cache!IsCache, Cache!Entry
    <3>2. cache.items[k].expiresAt <= now' + TTL
      BY <1>1, <3>1, Times DEF EntryOK
    <3> QED BY <1>1, <1>4, <3>1, <3>2 DEF EntryOK
  <2> QED BY <1>1, <2>1 DEF IInv, CacheOK, Whole
<1>7. RequestsOK'
  <2>1. ASSUME NEW q \in Request PROVE RequestOK(req[q])'
    <3>1. CASE req[q] = Idle
      BY <1>1, <3>1 DEF Idle, InFlight, RequestOK, Underway, InstallationStage,
         MembershipStage, RepositoryStage, Answered
    <3>2. CASE req[q].at \in InFlight /\ now < req[q].sent + HttpTimeout
      <4>1. RequestOK(req[q]) /\ req[q].sent \in Nat /\ HttpTimeout \in Nat
        BY RequestFacts, Times
      <4>2. Underway(req[q])'
        BY <1>1, <3>2, <4>1 DEF RequestOK, Underway
      <4>3. /\ InstallationStage(req[q])' /\ MembershipStage(req[q])'
            /\ RepositoryStage(req[q])' /\ Answered(req[q])'
        BY <1>1, <1>2, <1>3, <3>2, <4>1 DEF RequestOK, InFlight, InstallationStage,
           MembershipStage, RepositoryStage, Answered
      <4> QED BY <4>2, <4>3 DEF RequestOK
    <3> QED BY <3>1, <3>2 DEF Tick
  <2> QED BY <1>1, <2>1 DEF IInv, RequestsOK
<1> QED BY <1>5, <1>6, <1>7 DEF IInv

LEMMA ChangeKeepsWorld ==
  ASSUME WorldOK, GitHubChange
  PROVE  WorldOK'
<1>1. PICK g : Becomes(g)
  BY DEF GitHubChange
<1>2. now' = now /\ changes' \in 0..MaxChanges /\ now \in 0..MaxTime
  BY LimitsAssumption DEF GitHubChange, WorldOK
<1>3. ended' \in [Fact -> Never..MaxTime]
  <2>1. now \in Never..MaxTime
    BY <1>2, LimitsAssumption DEF Never
  <2> QED BY <1>1, <2>1 DEF Becomes, WorldOK
<1>4. github' \in GitHubStates
  <2>1. CASE \E p \in Path, r \in Repo : Becomes([github EXCEPT !.at[p] = r])
    <3>1. PICK p \in Path, r \in Repo : github' = [github EXCEPT !.at[p] = r]
      BY <2>1 DEF Becomes
    <3>2. [github.at EXCEPT ![p] = r] \in [Path -> Repo]
      BY DEF WorldOK, GitHubStates
    <3> QED BY <3>1, <3>2 DEF WorldOK, GitHubStates
  <2>2. CASE \E r \in Repo, i \in Installation \cup {None} :
               Becomes([github EXCEPT !.inst[r] = i])
    <3>1. PICK r \in Repo, i \in Installation \cup {None} :
            github' = [github EXCEPT !.inst[r] = i]
      BY <2>2 DEF Becomes
    <3>2. [github.inst EXCEPT ![r] = i] \in [Repo -> Installation \cup {None}]
      BY DEF WorldOK, GitHubStates
    <3> QED BY <3>1, <3>2 DEF WorldOK, GitHubStates
  <2>3. CASE \E m \in Token \X Installation :
               \/ Becomes([github EXCEPT !.member = @ \cup {m}])
               \/ Becomes([github EXCEPT !.member = @ \ {m}])
    <3>1. PICK m \in Token \X Installation :
            \/ github' = [github EXCEPT !.member = @ \cup {m}]
            \/ github' = [github EXCEPT !.member = @ \ {m}]
      BY <2>3 DEF Becomes
    <3>2. /\ github.member \cup {m} \in SUBSET (Token \X Installation)
          /\ github.member \ {m} \in SUBSET (Token \X Installation)
      BY DEF WorldOK, GitHubStates
    <3> QED BY <3>1, <3>2 DEF WorldOK, GitHubStates
  <2>4. CASE \E m \in Token \X Repo, p \in Permission :
               Becomes([github EXCEPT !.perm[m] = p])
    <3>1. PICK m \in Token \X Repo, p \in Permission :
            github' = [github EXCEPT !.perm[m] = p]
      BY <2>4 DEF Becomes
    <3>2. [github.perm EXCEPT ![m] = p] \in [Token \X Repo -> Permission]
      BY DEF WorldOK, GitHubStates
    <3>3. github' = [github EXCEPT !.perm = [github.perm EXCEPT ![m] = p]]
      BY <3>1
    <3> QED BY <3>2, <3>3 DEF WorldOK, GitHubStates
  <2> QED BY <2>1, <2>2, <2>3, <2>4 DEF GitHubChange
<1> QED BY <1>2, <1>3, <1>4 DEF WorldOK

\* Whatever changes, what was true since some time still was.
LEMMA ChangeKeeps ==
  ASSUME IInv, GitHubChange
  PROVE  IInv'
<1>1. /\ now \in Nat /\ UNCHANGED <<now, cache, req>> /\ WorldOK
      /\ HttpTimeout \in Nat /\ TTL \in Nat \ {0}
      /\ MaxPages \in Nat /\ Span(1 + MaxPages) \in Nat
  BY LimitsAssumption, Times DEF IInv, WorldOK, GitHubChange
<1>2. CacheOK'
  <2>1. ASSUME NEW k \in DOMAIN cache.items PROVE EntryOK(k, cache.items[k])'
    <3> DEFINE e == cache.items[k]
    <3>1. /\ e.expiresAt \in Nat /\ e.value \in Authorization /\ EntryOK(k, e)
          /\ k[1] \in Token /\ k[2] \in Path
      BY DEF IInv, CacheOK, Whole, Cache!IsCache, Cache!Entry
    <3>2. e.expiresAt - TTL \in Int /\ e.expiresAt - TTL <= now
      BY <1>1, <3>1 DEF EntryOK
    <3>3. Backed(k[1], k[2], e.value, e.expiresAt - TTL)'
      <4> HIDE DEF e
      <4>1. e' = e
        BY <1>1 DEF e
      <4>2. Backed(k[1], k[2], e.value, e.expiresAt - TTL)
        BY <3>1 DEF EntryOK
      <4> QED BY <1>1, <3>1, <3>2, <4>1, <4>2, BackedStays
    <3> QED BY <1>1, <3>1, <3>3 DEF EntryOK
  <2> QED BY <1>1, <2>1 DEF IInv, CacheOK, Whole
<1>3. ASSUME NEW q \in Request PROVE RequestOK(req[q])'
  <2>1. \A f \in Fact, x \in Int : x <= now /\ Since(f, x) => Since(f, x)'
    BY <1>1, SinceStays
  <2>2. \A t \in Token, p \in Path, a \in Authorization, x \in Int :
          x <= now /\ Backed(t, p, a, x) => Backed(t, p, a, x)'
    BY <1>1, BackedStays
  <2>5. \A p \in Path, i \in Installation \cup {None}, x \in Int :
          x <= now /\ Housed(p, i, x) => Housed(p, i, x)'
    BY <1>1, HousedStays
  <2>6. \A p \in Path, s \in Repo, i \in Installation \cup {None}, x \in Int :
          x <= now /\ Admissible(p, s, i, x) => Admissible(p, s, i, x)'
    BY <1>1, AdmissibleStays DEF Admissible
  <2> DEFINE Kept(r) ==
        r \in RequestRecord /\ RequestOK(r) => RequestOK(r)'
  <2>3. ASSUME NEW r PROVE Kept(r)
    <3> SUFFICES ASSUME r \in RequestRecord, RequestOK(r) PROVE RequestOK(r)'
      OBVIOUS
    <3>1. Underway(r)' /\ r.sent \in Nat
      BY <1>1 DEF RequestRecord, RequestOK, Underway
    <3>2. CASE r.at = "installation"
      <4>1. r.path \in Path /\ r.sent \in Int /\ r.sent <= now
        BY <3>1, <3>2 DEF RequestOK, Underway, InFlight
      <4>2. InstallationStage(r)'
        BY <2>1, <2>5, <3>2, <4>1, Facts DEF RequestOK, InstallationStage
      <4> QED BY <3>1, <3>2, <4>2 DEF RequestOK, MembershipStage, RepositoryStage, Answered
    <3>3. CASE r.at = "membership"
      <4>1. r.path \in Path /\ r.token \in Token /\ r.sent \in Int /\ r.sent <= now
        BY <3>1, <3>3 DEF RequestOK, Underway, InFlight
      <4>2. MembershipStage(r)
        BY DEF RequestOK
      <4>3. r.inst \in Allowed /\ r.inst \in Installation /\ r.page \in 1..MaxPages
        BY <3>3, <4>2, AllowedAssumption DEF MembershipStage
      <4>4. Span(r.page) \in Nat
        <5>1. r.page \in Nat
          BY <1>1, <4>3
        <5> QED BY <5>1, SpanLemma
      <4>5. r.sent - Span(r.page) \in Int /\ r.sent - Span(r.page) <= now
        BY <1>1, <4>1, <4>4
      <4>6. MembershipStage(r)'
        BY <2>1, <2>5, <3>3, <4>1, <4>2, <4>3, <4>5, Facts DEF MembershipStage
      <4> QED BY <3>1, <3>3, <4>6 DEF RequestOK, InstallationStage, RepositoryStage, Answered
    <3>4. CASE r.at = "repository"
      <4>1. r.path \in Path /\ r.token \in Token /\ r.sent \in Int /\ r.sent <= now
        BY <3>1, <3>4 DEF RequestOK, Underway, InFlight
      <4>2. RepositoryStage(r)
        BY DEF RequestOK
      <4>3. r.inst \in Allowed /\ r.inst \in Installation
        BY <3>4, <4>2, AllowedAssumption DEF RepositoryStage
      <4>4. /\ r.sent - Span(1 + MaxPages) \in Int /\ r.sent - Span(1 + MaxPages) <= now
            /\ r.sent - HttpTimeout \in Int /\ r.sent - HttpTimeout <= now
        BY <1>1, <4>1
      <4>5. /\ Since(InstFact(r.path, r.inst), r.sent - Span(1 + MaxPages))'
            /\ Housed(r.path, r.inst, r.sent - Span(1 + MaxPages))'
            /\ Since(MemberFact(r.token, r.inst), r.sent - HttpTimeout)'
        BY <2>1, <2>5, <3>4, <4>1, <4>2, <4>3, <4>4, Facts DEF RepositoryStage
      <4>6. ASSUME NEW a \in Authorization,
                   Since(PermFact(r.token, a.repo, a.perm), r.sent),
                   Since(AtFact(r.path, a.repo), r.sent),
                   Admissible(r.path, a.repo, r.inst, r.sent - Span(1 + MaxPages))
            PROVE  /\ Since(PermFact(r.token, a.repo, a.perm), r.sent)'
                   /\ Since(AtFact(r.path, a.repo), r.sent)'
                   /\ Admissible(r.path, a.repo, r.inst, r.sent - Span(1 + MaxPages))'
        <5>1. a.repo \in Repo /\ a.perm \in Permission
          BY DEF Authorization
        <5>2. Admissible(r.path, a.repo, r.inst, r.sent - Span(1 + MaxPages))'
          BY <2>6, <4>1, <4>3, <4>4, <4>6, <5>1
        <5> QED BY <2>1, <4>1, <4>6, <5>1, <5>2, Facts
      <4>7. RepositoryStage(r)'
        BY <3>4, <4>2, <4>3, <4>5, <4>6 DEF RepositoryStage
      <4> QED BY <3>1, <3>4, <4>7 DEF RequestOK, InstallationStage, MembershipStage, Answered
    <3>5. CASE r.at \in {"put", "granted"}
      <4>1. /\ r.auth \in Authorization /\ r.token \in Token /\ r.path \in Path
            /\ now - (TTL - 1) \in Int /\ now - (TTL - 1) <= now
        BY <1>1, <3>5 DEF RequestOK, Answered, Underway
      <4>2. Answered(r)'
        BY <1>1, <2>2, <3>5, <4>1 DEF RequestOK, Answered
      <4> QED BY <3>1, <3>5, <4>2 DEF RequestOK, InstallationStage, MembershipStage,
                                      RepositoryStage
    <3>6. CASE r.at = "idle"
      BY <3>1, <3>6 DEF RequestOK, InstallationStage, MembershipStage, RepositoryStage, Answered
    <3> QED BY <3>2, <3>3, <3>4, <3>5, <3>6 DEF RequestRecord, InFlight
  <2>4. \A r : Kept(r)
    BY <2>3
  <2> QED BY <1>1, <2>4, RequestFacts
<1> QED BY <1>1, <1>2, <1>3, ChangeKeepsWorld DEF IInv, RequestsOK

LEMMA InitIInv == Init => IInv
<1> SUFFICES ASSUME Init PROVE IInv
  OBVIOUS
<1>1. WorldOK
  BY InitialAssumption, LimitsAssumption DEF Init, WorldOK, Never
<1>2. CacheOK
  <2>1. CacheLemmas!WellFormed(CacheLemmas!EmptyCache)
    BY CacheLemmas!EmptyCacheLemma, LimitsAssumption
  <2>2. Whole(cache)
    BY <2>1 DEF Init, Whole, CacheLemmas!WellFormed, Cache!IsCache, CacheLemmas!IsCache,
         Cache!Linked, CacheLemmas!Linked, Cache!Entry, CacheLemmas!Entry,
         Cache!IsInjective, CacheLemmas!IsInjective, Cache!ToSet, CacheLemmas!ToSet,
         Cache!EmptyCache, CacheLemmas!EmptyCache
  <2>3. DOMAIN cache.items = {}
    BY DEF Init, Cache!EmptyCache
  <2> QED BY <2>2, <2>3 DEF CacheOK
<1>3. RequestsOK
  BY IdleMoves DEF Init, RequestsOK
<1> QED BY <1>1, <1>2, <1>3 DEF IInv

LEMMA NextKeeps == IInv /\ [Next]_vars => IInv'
<1> SUFFICES ASSUME IInv, [Next]_vars PROVE IInv'
  OBVIOUS
<1>1. CASE UNCHANGED vars
  <2>1. WorldOK' /\ CacheOK'
    BY <1>1, CacheStays DEF vars, IInv, WorldOK, GitHubStates, Fact
  <2>2. RequestsOK'
    BY <1>1, SameWorld DEF vars, IInv, RequestsOK
  <2> QED BY <2>1, <2>2 DEF IInv
<1>2. CASE Next
  BY <1>2, ChangeKeeps, TickKeeps, StepKeeps DEF Next
<1> QED BY <1>1, <1>2

LEMMA Invariance == Spec => []IInv
  BY InitIInv, NextKeeps, PTL DEF Spec

-----------------------------------------------------------------------------
(* What a granted request rests on                                         *)

\* Since and HeldWithin count from opposite ends.
LEMMA SinceHeld ==
  ASSUME WorldOK, NEW f \in Fact, NEW d \in Int, Since(f, now - d + 1)
  PROVE  HeldWithin(f, d)
<1>1. now \in Int /\ ended[f] \in Int
  BY LimitsAssumption DEF WorldOK, Never
<1> QED BY <1>1 DEF Since, HeldWithin, EndedWithin

LEMMA GrantedIsBacked ==
  ASSUME IInv, NEW q \in Request, Granted(q)
  PROVE  LET g == req[q]
         IN  /\ g.token \in Token /\ g.path \in Path /\ g.auth \in Authorization
             /\ g.auth.repo \in Repo /\ g.auth.perm \in Permission
             /\ Backed(g.token, g.path, g.auth, now - (TTL - 1))
  BY RequestFacts DEF Granted, RequestOK, Answered, Authorization

LEMMA RecentPermission == IInv => PermissionRecent
<1> SUFFICES ASSUME IInv, NEW q \in Request, Granted(q)
             PROVE  LET g == req[q]
                        d == TTL + HttpTimeout
                    IN  /\ HeldWithin(PermFact(g.token, g.auth.repo, g.auth.perm), d)
                        /\ HeldWithin(AtFact(g.path, g.auth.repo), d)
  BY DEF PermissionRecent
<1> DEFINE g == req[q]
           d == TTL + HttpTimeout
<1>1. /\ g.token \in Token /\ g.path \in Path
      /\ g.auth.repo \in Repo /\ g.auth.perm \in Permission
      /\ Backed(g.token, g.path, g.auth, now - (TTL - 1))
  BY GrantedIsBacked
<1>2. d \in Int /\ now - (TTL - 1) - HttpTimeout = now - d + 1
  BY Times, RequestFacts
<1> HIDE DEF g, d
<1>3. /\ Since(PermFact(g.token, g.auth.repo, g.auth.perm), now - d + 1)
      /\ Since(AtFact(g.path, g.auth.repo), now - d + 1)
  BY <1>1, <1>2 DEF Backed
<1> QED BY <1>1, <1>2, <1>3, Facts, SinceHeld DEF IInv, g, d

LEMMA AdmittedRepository == IInv => RepositoryAdmitted
<1> DEFINE d == TTL + (2 + MaxPages) * HttpTimeout
<1> SUFFICES ASSUME IInv, NEW q \in Request, Granted(q)
             PROVE  \E i \in Allowed, r \in Repo :
                      /\ HeldWithin(HomeFact(r, i), d)
                      /\ r = req[q].auth.repo \/ EndedWithin(AtFact(req[q].path, r), d)
  BY DEF RepositoryAdmitted
<1> DEFINE g == req[q]
           x == now - (TTL - 1) - Span(2 + MaxPages)
<1>1. g.path \in Path /\ Backed(g.token, g.path, g.auth, now - (TTL - 1))
  BY GrantedIsBacked
<1>2. d \in Int /\ x = now - d + 1
  <2>1. d = TTL + Span(2 + MaxPages)
    BY DEF Span
  <2> HIDE DEF d
  <2> QED BY <2>1, Times, RequestFacts
<1> HIDE DEF d
<1>3. PICK i \in Allowed : Admissible(g.path, g.auth.repo, i, x)
  BY <1>1 DEF Backed
<1> HIDE DEF x
<1>4. PICK r \in Repo : /\ Since(HomeFact(r, i), x)
                        /\ r = g.auth.repo \/ Ended(AtFact(g.path, r), x)
  BY <1>3 DEF Admissible
<1>5. i \in Installation
  BY AllowedAssumption
<1> HIDE DEF g
<1>6. HeldWithin(HomeFact(r, i), d)
  BY <1>2, <1>4, <1>5, Facts, SinceHeld DEF IInv
<1>7. Ended(AtFact(g.path, r), x) => EndedWithin(AtFact(g.path, r), d)
  <2>1. now \in Int /\ ended[AtFact(g.path, r)] \in Int
    BY <1>1, Facts, LimitsAssumption DEF IInv, WorldOK, Never
  <2> QED BY <1>2, <2>1 DEF Ended, EndedWithin
<1> QED BY <1>4, <1>6, <1>7 DEF g

LEMMA RecentInstallation == IInv => InstallationRecent
<1> SUFFICES ASSUME IInv, NEW q \in Request, Granted(q)
             PROVE  \E i \in Allowed :
                      /\ HeldWithin(InstFact(req[q].path, i), TTL + (2 + MaxPages) * HttpTimeout)
                      /\ HeldWithin(MemberFact(req[q].token, i), TTL + 2 * HttpTimeout)
  BY DEF InstallationRecent
<1> DEFINE g == req[q]
           d == TTL + Span(2 + MaxPages)
           e == TTL + Span(2)
<1>1. /\ g.token \in Token /\ g.path \in Path
      /\ Backed(g.token, g.path, g.auth, now - (TTL - 1))
  BY GrantedIsBacked
<1>2. /\ d \in Int /\ now - (TTL - 1) - Span(2 + MaxPages) = now - d + 1
      /\ e \in Int /\ now - (TTL - 1) - Span(2) = now - e + 1
  BY Times, RequestFacts
<1>3. PICK i \in Allowed : /\ Since(InstFact(g.path, i), now - (TTL - 1) - Span(2 + MaxPages))
                           /\ Since(MemberFact(g.token, i), now - (TTL - 1) - Span(2))
  BY <1>1 DEF Backed
<1>4. i \in Installation
  BY AllowedAssumption
<1> HIDE DEF g, d, e
<1>5. HeldWithin(InstFact(g.path, i), d) /\ HeldWithin(MemberFact(g.token, i), e)
  BY <1>1, <1>2, <1>3, <1>4, Facts, SinceHeld DEF IInv
<1>6. d = TTL + (2 + MaxPages) * HttpTimeout /\ e = TTL + 2 * HttpTimeout
  BY DEF d, e, Span
<1> QED BY <1>5, <1>6 DEF g

(***************************************************************************)
(* The cache's map and list stay in step, and what is granted is an        *)
(* authorization, whatever requests meet in the cache (handler.go:373-387, *)
(* cache.go:95-131).                                                       *)
(***************************************************************************)
THEOREM AuthorizeType == Spec => []TypeOK
<1>1. IInv => TypeOK
  <2> SUFFICES ASSUME IInv PROVE TypeOK
    OBVIOUS
  <2>1. \A q \in Request :
          /\ req[q].at \in InFlight \cup {"idle", "put", "granted"}
          /\ req[q].auth \in Authorization \cup {None}
    BY DEF IInv, RequestsOK, RequestRecord
  <2>2. \A q \in Request : Granted(q) => req[q].auth # None
    BY GrantedIsBacked, NoneAssumption
  <2> QED BY <2>1, <2>2 DEF TypeOK, IInv, WorldOK, CacheOK, Whole
<1> QED BY <1>1, Invariance, PTL

(***************************************************************************)
(* A granted permission was the user's, and the repository at the path,    *)
(* less than TTL + HttpTimeout ago (handler.go:382-386).                   *)
(***************************************************************************)
THEOREM PermissionIsRecent == Spec => []PermissionRecent
  BY RecentPermission, Invariance, PTL

(***************************************************************************)
(* An allowed installation was that of the path, and open to the user, not *)
(* longer ago than the requests in between take (github.go:145-174).       *)
(***************************************************************************)
THEOREM InstallationIsRecent == Spec => []InstallationRecent
  BY RecentInstallation, Invariance, PTL

(***************************************************************************)
(* A granted repository was in an allowed installation, or its path named  *)
(* one that was until not longer ago than the requests in between take:    *)
(* only a renaming between the first and the third read gets another one   *)
(* past the allowlist (github.go:145-174).                                 *)
(***************************************************************************)
THEOREM RepositoryIsAdmitted == Spec => []RepositoryAdmitted
  BY AdmittedRepository, Invariance, PTL

-----------------------------------------------------------------------------
(* Batches and presigned URLs                                              *)

\* How old what is granted may be at the request's arrival.
Age == TTL - 1 + HttpTimeout

\* The user and the repository b names were entitled to it, at x or later.
Entitled(b, x) ==
  /\ \E m \in Needed(b.op)..PermissionWrite : Since(PermFact(b.token, b.repo, m), x)
  /\ Since(AtFact(b.path, b.repo), x)

BatchesOK ==
  /\ arrived \in [Request -> 0..MaxTime]
  /\ batch \in [Request -> Batch \cup {None}]
  /\ \A q \in Request : arrived[q] <= now
  /\ \A q \in Request : batch[q] # None => Entitled(batch[q], arrived[q] - Age)

URLOK ==
  /\ url \in URL \cup {None}
  /\ url # None => /\ now < url.until /\ url.until <= now + PresignTTL
                   /\ Entitled(url, url.until - (PresignTTL + WriteTimeout) - Age)

GolfsInv == IInv /\ BatchesOK /\ URLOK

LEMMA GolfsTimes ==
  /\ WriteTimeout \in Nat \ {0} /\ PresignTTL \in Nat \ {0} /\ Age \in Nat
  /\ Age = TTL - 1 + HttpTimeout /\ TTL \in Nat /\ HttpTimeout \in Nat
  BY TimesAssumption, Times DEF Age

\* Batch and URL name the same things.
Claim == Batch \cup URL

LEMMA ClaimFacts ==
  ASSUME NEW b \in Claim
  PROVE  /\ b.op \in Operation /\ b.repo \in Repo /\ b.token \in Token /\ b.path \in Path
         /\ \A m \in Needed(b.op)..PermissionWrite : m \in Permission
<1>1. b.op \in Operation /\ b.repo \in Repo /\ b.token \in Token /\ b.path \in Path
  BY DEF Claim, Batch, URL
<1>2. Needed(b.op) \in 1..2
  BY DEF Needed, PermissionRead, PermissionWrite
<1> QED BY <1>1, <1>2 DEF Permission, PermissionNone, PermissionWrite

LEMMA EntitledEarlier ==
  ASSUME WorldOK, NEW b \in Claim, NEW x \in Int, NEW y \in Int, x <= y, Entitled(b, y)
  PROVE  Entitled(b, x)
<1>1. PICK m \in Needed(b.op)..PermissionWrite : Since(PermFact(b.token, b.repo, m), y)
  BY DEF Entitled
<1>2. Since(AtFact(b.path, b.repo), y)
  BY DEF Entitled
<1>3. m \in Permission /\ b.repo \in Repo /\ b.token \in Token /\ b.path \in Path
  BY ClaimFacts
<1> QED BY <1>1, <1>2, <1>3, Facts, SinceEarlier DEF Entitled

LEMMA EntitledStays ==
  ASSUME WorldOK, GitHubChange \/ UNCHANGED <<github, ended>>,
         NEW b \in Claim, NEW x \in Int, x <= now, Entitled(b, x)
  PROVE  Entitled(b, x)'
<1>1. PICK m \in Needed(b.op)..PermissionWrite : Since(PermFact(b.token, b.repo, m), x)
  BY DEF Entitled
<1>2. Since(AtFact(b.path, b.repo), x)
  BY DEF Entitled
<1>3. m \in Permission /\ b.repo \in Repo /\ b.token \in Token /\ b.path \in Path
  BY ClaimFacts
<1>4. Since(PermFact(b.token, b.repo, m), x)' /\ Since(AtFact(b.path, b.repo), x)'
  <2>1. CASE GitHubChange
    BY <1>1, <1>2, <1>3, <2>1, Facts, SinceStays
  <2>2. CASE UNCHANGED <<github, ended>>
    BY <1>1, <1>2, <2>2 DEF Since
  <2> QED BY <2>1, <2>2
<1> QED BY <1>1, <1>4 DEF Entitled

\* Every step of GOLFS is one of Authorize, or none.
LEMMA AuthorizeSteps ==
  ASSUME GolfsNext
  PROVE  /\ [Next]_vars
         /\ GitHubChange \/ UNCHANGED <<github, ended>>
         /\ Tick \/ UNCHANGED now
<1>1. /\ Next \/ UNCHANGED vars
  BY DEF GolfsNext, Arrive, Authorizing, Fails, AskBucket, NoBatch, Grant, GrantNothing,
         Reply, Elsewhere, GolfsTick, Next, Step
<1>2. Next => /\ GitHubChange \/ UNCHANGED <<github, ended>>
              /\ Tick \/ UNCHANGED now
  BY DEF Next, Step, GitHubChange, Tick, Hit, Miss, GitHubAnswers, ReceiveInstallation,
         ReceivePage, ReceiveMembership, ReceiveRepository, Put, Fail, Finish
<1> QED BY <1>1, <1>2 DEF vars

LEMMA WorldMoves ==
  ASSUME GolfsInv, GolfsNext
  PROVE  /\ IInv' /\ WorldOK /\ now \in Nat /\ now' \in 0..MaxTime
         /\ now <= now' /\ now' <= now + 1
         /\ \A b \in Claim, x \in Int : x <= now /\ Entitled(b, x) => Entitled(b, x)'
<1>1. IInv' /\ WorldOK /\ now \in Nat
  BY NextKeeps, AuthorizeSteps, LimitsAssumption DEF GolfsInv, IInv, WorldOK
<1>2. now' = now \/ now' = now + 1
  BY AuthorizeSteps DEF Tick
<1>3. \A b \in Claim, x \in Int : x <= now /\ Entitled(b, x) => Entitled(b, x)'
  BY <1>1, AuthorizeSteps, EntitledStays
<1>4. now' \in 0..MaxTime
  BY <1>1 DEF IInv, WorldOK
<1> QED BY <1>1, <1>2, <1>3, <1>4

\* It is enough that the batches waiting next are entitled to now.
LEMMA BatchesMove ==
  ASSUME GolfsInv, GolfsNext,
         arrived' \in [Request -> 0..MaxTime],
         batch' \in [Request -> Batch \cup {None}],
         \A q \in Request : arrived'[q] <= now',
         \A q \in Request : batch'[q] # None => Entitled(batch'[q], arrived'[q] - Age)
  PROVE  BatchesOK'
<1> SUFFICES ASSUME NEW q \in Request, batch'[q] # None
             PROVE  Entitled(batch[q], arrived[q] - Age)'
  BY DEF BatchesOK
<1>1. batch'[q] \in Claim
  BY DEF Claim
<1>2. arrived'[q] \in Nat /\ arrived'[q] <= now' /\ now' \in Nat
  BY WorldMoves, LimitsAssumption
<1>3. Age \in Nat /\ Age >= 1
  BY Times DEF Age
<1>4. arrived'[q] - Age \in Int /\ arrived'[q] - Age <= now
  BY <1>2, <1>3, WorldMoves
<1>5. Age' = Age
  BY DEF Age
<1> QED BY <1>1, <1>4, <1>5, WorldMoves

\* A URL is handed on as it is, or has stopped working.
LEMMA URLStays ==
  ASSUME GolfsInv, GolfsNext,
         \/ url' = None
         \/ url' = url /\ (url # None => now' < url.until)
  PROVE  URLOK'
<1>1. CASE url' = None
  BY <1>1 DEF URLOK
<1>2. CASE url' = url /\ url # None /\ now' < url.until
  <2>1. /\ url \in URL /\ url \in Claim /\ url.until \in Nat
        /\ url.until <= now + PresignTTL
        /\ Entitled(url, url.until - (PresignTTL + WriteTimeout) - Age)
    BY <1>2 DEF GolfsInv, URLOK, Claim, URL
  <2>2. /\ url.until - (PresignTTL + WriteTimeout) - Age \in Int
        /\ url.until - (PresignTTL + WriteTimeout) - Age <= now
        /\ url.until <= now' + PresignTTL
    <3>1. /\ url.until \in Nat /\ now \in Nat /\ now' \in Nat /\ now <= now'
          /\ WriteTimeout \in Nat /\ PresignTTL \in Nat /\ Age \in Nat
      BY <2>1, WorldMoves, GolfsTimes, LimitsAssumption
    <3> QED BY <2>1, <3>1
  <2>3. Entitled(url, url.until - (PresignTTL + WriteTimeout) - Age)'
    <3>1. Age' = Age
      BY DEF Age
    <3> QED BY <1>2, <2>1, <2>2, <3>1, WorldMoves
  <2> QED BY <1>2, <2>1, <2>2, <2>3 DEF URLOK
<1> QED BY <1>1, <1>2

\* The rest of a request: the batch begins with what it was granted.
LEMMA AskBucketKeeps ==
  ASSUME GolfsInv, GolfsNext, NEW q \in Request, NEW op \in Operation, AskBucket(q, op)
  PROVE  BatchesOK'
<1> DEFINE g == req[q]
           b == [op |-> op, repo |-> g.auth.repo, token |-> g.token, path |-> g.path]
<1>1. Granted(q) /\ now' = now
  BY DEF AskBucket, Finish, Granted
<1>2. g.auth.perm >= Needed(op) /\ batch' = [batch EXCEPT ![q] = b] /\ arrived' = arrived
  BY DEF AskBucket
<1>3. /\ g.token \in Token /\ g.path \in Path
      /\ g.auth.repo \in Repo /\ g.auth.perm \in Permission
      /\ Backed(g.token, g.path, g.auth, now - (TTL - 1))
  BY <1>1, GrantedIsBacked DEF GolfsInv
<1>4. b \in Batch /\ b \in Claim
  BY <1>3 DEF Batch, Claim
<1>5. Entitled(b, arrived[q] - Age)
  <2>1. g.auth.perm \in Needed(b.op)..PermissionWrite
    BY <1>2, <1>3 DEF Needed, Permission, PermissionNone, PermissionRead, PermissionWrite
  <2>2. Entitled(b, now - (TTL - 1) - HttpTimeout)
    BY <1>3, <2>1 DEF Entitled, Backed
  <2>3. arrived[q] \in Nat /\ arrived[q] <= now /\ now \in Nat
    BY WorldMoves, LimitsAssumption DEF GolfsInv, BatchesOK
  <2>4. /\ now - (TTL - 1) - HttpTimeout \in Int /\ arrived[q] - Age \in Int
        /\ arrived[q] - Age <= now - (TTL - 1) - HttpTimeout
    BY <2>3, GolfsTimes
  <2> HIDE DEF b
  <2> QED BY <1>4, <2>2, <2>4, WorldMoves, EntitledEarlier
<1> HIDE DEF b
<1>6. batch' \in [Request -> Batch \cup {None}]
  BY <1>2, <1>4 DEF GolfsInv, BatchesOK
<1> QED BY <1>1, <1>2, <1>5, <1>6, BatchesMove DEF GolfsInv, BatchesOK

LEMMA LeaveKeeps ==
  ASSUME GolfsInv, GolfsNext, NEW q \in Request, Leave(q), now' = now,
         batch' = batch \/ batch' = [batch EXCEPT ![q] = None]
  PROVE  BatchesOK'
<1>1. /\ arrived \in [Request -> 0..MaxTime] /\ batch \in [Request -> Batch \cup {None}]
      /\ \A o \in Request : arrived[o] <= now
      /\ \A o \in Request : batch[o] # None => Entitled(batch[o], arrived[o] - Age)
      /\ now \in Nat
  BY WorldMoves DEF GolfsInv, BatchesOK
<1>2. arrived' = [arrived EXCEPT ![q] = 0]
  BY DEF Leave
<1>3. arrived' \in [Request -> 0..MaxTime] /\ \A o \in Request : arrived'[o] <= now'
  BY <1>1, <1>2, LimitsAssumption
<1>4. batch' \in [Request -> Batch \cup {None}]
  BY <1>1
<1>5. ASSUME NEW o \in Request, batch'[o] # None
      PROVE  Entitled(batch'[o], arrived'[o] - Age)
  <2>1. batch'[o] = batch[o] /\ batch[o] \in Claim /\ Entitled(batch[o], arrived[o] - Age)
    BY <1>1, <1>5 DEF Claim
  <2>2. /\ arrived'[o] - Age \in Int /\ arrived[o] - Age \in Int
        /\ arrived'[o] - Age <= arrived[o] - Age
    <3>1. arrived'[o] \in Nat /\ arrived[o] \in Nat /\ arrived'[o] <= arrived[o]
      BY <1>1, <1>2, LimitsAssumption
    <3> QED BY <3>1, GolfsTimes
  <2> QED BY <2>1, <2>2, WorldMoves, EntitledEarlier
<1> QED BY <1>3, <1>4, <1>5, BatchesMove

LEMMA ArriveKeeps ==
  ASSUME GolfsInv, GolfsNext, NEW q \in Request, NEW t \in Token, NEW p \in Path,
         Arrive(q, t, p)
  PROVE  BatchesOK'
<1>1. /\ batch' = batch /\ batch[q] = None /\ now' = now
      /\ arrived' = [arrived EXCEPT ![q] = now]
  BY DEF Arrive, Hit, Miss
<1>2. now \in 0..MaxTime /\ now \in Nat
  BY WorldMoves DEF GolfsInv, WorldOK
<1> QED BY <1>1, <1>2, BatchesMove DEF GolfsInv, BatchesOK

\* The lifetime of the URL begins within WriteTimeout of the arrival.
LEMMA GrantKeeps ==
  ASSUME GolfsInv, GolfsNext, NEW q \in Request, Grant(q)
  PROVE  URLOK'
<1> DEFINE b == batch[q]
           u == [op |-> b.op, repo |-> b.repo, token |-> b.token, path |-> b.path,
                 until |-> now + PresignTTL]
           x == now - WriteTimeout - Age
<1>1. /\ b # None /\ now <= arrived[q] + WriteTimeout /\ url' = u /\ now' = now
  BY DEF Grant, Reply, Deliverable, vars
<1>2. /\ b \in Batch /\ b \in Claim /\ Entitled(b, arrived[q] - Age)
      /\ arrived[q] \in Nat /\ now \in Nat
  BY <1>1, WorldMoves, LimitsAssumption DEF GolfsInv, BatchesOK, Claim
<1>3. /\ x \in Int /\ arrived[q] - Age \in Int /\ x <= arrived[q] - Age /\ x <= now
      /\ \A y \in Nat : y = now + PresignTTL => y - (PresignTTL + WriteTimeout) - Age = x
      /\ now + PresignTTL \in Nat /\ now < now + PresignTTL
  BY <1>1, <1>2, GolfsTimes
<1>4. u \in URL /\ u \in Claim
  BY <1>2, <1>3 DEF URL, Batch, Claim
<1>5. Entitled(b, x)
  BY <1>2, <1>3, WorldMoves, EntitledEarlier
<1>6. Entitled(u, x)
  BY <1>5 DEF Entitled
<1> HIDE DEF b, x
<1>7. u.until = now + PresignTTL
  OBVIOUS
<1> HIDE DEF u
<1>8. \A v \in Claim, y \in Int : y <= now /\ Entitled(v, y) => Entitled(v, y)'
  BY WorldMoves
<1>9. Entitled(url, url.until - (PresignTTL + WriteTimeout) - Age)'
  <2>1. url'.until - (PresignTTL + WriteTimeout) - Age = x
    <3>1. url'.until = now + PresignTTL /\ url'.until \in Nat
      BY <1>1, <1>3, <1>7
    <3> QED BY <1>3, <3>1
  <2>2. Age' = Age
    BY DEF Age
  <2> QED BY <1>1, <1>3, <1>4, <1>6, <1>8, <2>1, <2>2
<1> QED BY <1>1, <1>3, <1>4, <1>7, <1>9 DEF URLOK

LEMMA GolfsStart == GolfsInit => GolfsInv
<1> SUFFICES ASSUME GolfsInit PROVE GolfsInv
  OBVIOUS
<1>1. IInv
  BY InitIInv DEF GolfsInit
<1>2. now = 0 /\ 0 \in 0..MaxTime
  BY LimitsAssumption DEF GolfsInit, Init
<1>3. BatchesOK
  BY <1>2 DEF GolfsInit, BatchesOK
<1> QED BY <1>1, <1>3 DEF GolfsInit, GolfsInv, URLOK

LEMMA GolfsStep == GolfsInv /\ [GolfsNext]_golfsVars => GolfsInv'
<1> SUFFICES ASSUME GolfsInv, [GolfsNext]_golfsVars PROVE GolfsInv'
  OBVIOUS
<1>1. CASE UNCHANGED golfsVars
  <2>1. IInv' /\ now' = now /\ UNCHANGED <<arrived, batch, url, github, ended>>
    BY <1>1, NextKeeps DEF GolfsInv, golfsVars, vars
  <2>2. \A b, x : Entitled(b, x)' <=> Entitled(b, x)
    BY <2>1 DEF Entitled, Since
  <2> QED BY <2>1, <2>2 DEF GolfsInv, BatchesOK, URLOK, Age
<1>2. CASE GolfsNext
  <2>1. IInv' /\ now \in Nat
    BY <1>2, WorldMoves
  <2>2. ASSUME UNCHANGED <<arrived, batch>> PROVE BatchesOK'
    <3>1. \A q \in Request : arrived'[q] <= now'
      <4>1. now' \in Nat /\ now <= now' /\ \A q \in Request : arrived[q] \in Nat /\ arrived[q] <= now
        BY <1>2, WorldMoves, LimitsAssumption DEF GolfsInv, BatchesOK
      <4> QED BY <2>1, <2>2, <4>1
    <3> QED BY <1>2, <2>2, <3>1, BatchesMove DEF GolfsInv, BatchesOK
  <2>3. ASSUME UNCHANGED <<url, now>> PROVE URLOK'
    BY <1>2, <2>3, URLStays DEF GolfsInv, URLOK
  <2>4. CASE \E q \in Request : \E t \in Token, p \in Path : Arrive(q, t, p)
    BY <1>2, <2>1, <2>3, <2>4, ArriveKeeps DEF GolfsInv, Arrive, Hit, Miss
  <2>5. CASE \E q \in Request : Authorizing(q)
    BY <2>1, <2>2, <2>3, <2>5 DEF GolfsInv, Authorizing, GitHubAnswers, ReceiveInstallation,
       ReceivePage, ReceiveMembership, ReceiveRepository, Put
  <2>6. CASE \E q \in Request : Fails(q) \/ NoBatch(q)
    BY <1>2, <2>1, <2>3, <2>6, LeaveKeeps DEF GolfsInv, Fails, NoBatch, Fail, Finish
  <2>7. CASE \E q \in Request, op \in Operation : AskBucket(q, op)
    BY <1>2, <2>1, <2>3, <2>7, AskBucketKeeps DEF GolfsInv, AskBucket, Finish
  <2>8. CASE \E q \in Request : Grant(q) \/ GrantNothing(q)
    <3>1. PICK q \in Request : Grant(q) \/ GrantNothing(q)
      BY <2>8
    <3>2. Leave(q) /\ now' = now /\ batch' = [batch EXCEPT ![q] = None]
      BY <3>1 DEF Grant, GrantNothing, Reply, vars
    <3> QED BY <1>2, <2>1, <2>3, <3>1, <3>2, LeaveKeeps, GrantKeeps DEF GolfsInv, GrantNothing
  <2>9. CASE Elsewhere
    BY <2>1, <2>2, <2>3, <2>9 DEF GolfsInv, Elsewhere, GitHubChange
  <2>10. CASE GolfsTick
    <3>1. URLOK'
      BY <1>2, <2>10, URLStays DEF GolfsTick, Working
    <3> QED BY <2>1, <2>2, <2>10, <3>1 DEF GolfsInv, GolfsTick
  <2> QED BY <1>2, <2>4, <2>5, <2>6, <2>7, <2>8, <2>9, <2>10 DEF GolfsNext
<1> QED BY <1>1, <1>2

LEMMA GolfsInvariance == GolfsSpec => []GolfsInv
  BY GolfsStart, GolfsStep, PTL DEF GolfsSpec

(***************************************************************************)
(* GOLFS authorizes as Authorize does: what is proved of the one holds of  *)
(* the other (handler.go:159-186, 373-387).                                *)
(***************************************************************************)
THEOREM GolfsAuthorizes == GolfsSpec => Spec
<1>1. GolfsInit => Init
  BY DEF GolfsInit
<1>2. [GolfsNext]_golfsVars => [Next]_vars
  BY AuthorizeSteps DEF golfsVars
<1> QED BY <1>1, <1>2, PTL DEF GolfsSpec, Spec

(***************************************************************************)
(* A batch waits with what it was granted, and a URL that works was        *)
(* presigned not longer ago than it lasts (handler.go:162-186,             *)
(* s3store.go:103-145).                                                    *)
(***************************************************************************)
THEOREM GolfsType == GolfsSpec => []GolfsTypeOK
<1>1. GolfsInv /\ TypeOK => GolfsTypeOK
  BY DEF GolfsInv, BatchesOK, URLOK, GolfsTypeOK
<1> QED BY <1>1, GolfsInvariance, GolfsAuthorizes, AuthorizeType, PTL

(***************************************************************************)
(* What GitHub took back stops mattering: a URL that works was given to    *)
(* one who had the permission less than HttpTimeout + (TTL - 1) +          *)
(* WriteTimeout + PresignTTL ago, on a repository that was at the path     *)
(* (handler.go:162-174, 382-386; main.go:138-147; s3store.go:103-145).     *)
(***************************************************************************)
THEOREM RevocationIsBounded == GolfsSpec => []RevocationBound
<1>1. GolfsInv => RevocationBound
  <2> DEFINE d == HttpTimeout + (TTL - 1) + WriteTimeout + PresignTTL
             x == url.until - (PresignTTL + WriteTimeout) - Age
  <2> SUFFICES ASSUME GolfsInv, url # None
               PROVE  /\ HadWithin(url.token, url.repo,
                                   IF url.op = "upload" THEN PermissionWrite ELSE PermissionRead, d)
                      /\ HeldWithin(AtFact(url.path, url.repo), d)
    BY DEF RevocationBound
  <2>1. /\ url \in URL /\ url \in Claim /\ url.until \in Nat /\ now < url.until
        /\ Entitled(url, x) /\ WorldOK /\ now \in Nat
    BY LimitsAssumption DEF GolfsInv, URLOK, Claim, URL, IInv, WorldOK
  <2>2. x \in Int /\ d \in Int /\ now - d + 1 \in Int /\ now - d + 1 <= x
    BY <2>1, GolfsTimes
  <2> HIDE DEF x, d
  <2>3. Entitled(url, now - d + 1)
    BY <2>1, <2>2, EntitledEarlier
  <2>4. PICK m \in Needed(url.op)..PermissionWrite :
          Since(PermFact(url.token, url.repo, m), now - d + 1)
    BY <2>3 DEF Entitled
  <2>5. /\ url.repo \in Repo /\ url.token \in Token /\ url.path \in Path
        /\ url.op \in Operation /\ m \in Permission
    BY <2>1, ClaimFacts
  <2>6. /\ HeldWithin(PermFact(url.token, url.repo, m), d)
        /\ HeldWithin(AtFact(url.path, url.repo), d)
    BY <2>1, <2>2, <2>3, <2>4, <2>5, Facts, SinceHeld DEF Entitled
  <2>7. Needed(url.op) = IF url.op = "upload" THEN PermissionWrite ELSE PermissionRead
    BY <2>5 DEF Needed, Operation
  <2> QED BY <2>4, <2>6, <2>7 DEF HadWithin
<1> QED BY <1>1, GolfsInvariance, PTL
=============================================================================
