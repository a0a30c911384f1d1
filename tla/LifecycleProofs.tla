-------------------------- MODULE LifecycleProofs --------------------------
(***************************************************************************)
(* A GOLFS process for any environments, allowlists and times, any number  *)
(* of requests and any changes at GitHub and S3: what it may start         *)
(* listening on, and what it leaves behind as it ends.                     *)
(***************************************************************************)
EXTENDS Lifecycle, FiniteSetTheorems, TLAPS

-----------------------------------------------------------------------------
(* The environment                                                         *)

\* As many different entries as there are entries.
LEMMA InjectiveCount ==
  ASSUME NEW S, NEW s \in Seq(S)
  PROVE  IsInjective(s) <=> Cardinality(ToSet(s)) = Len(s)
<1>1. Len(s) \in Nat /\ DOMAIN s = 1..Len(s) /\ s \in [1..Len(s) -> S]
  OBVIOUS
<1>2. ToSet(s) = {s[n] : n \in 1..Len(s)}
  BY <1>1 DEF ToSet
<1>3. s \in [1..Len(s) -> ToSet(s)]
  BY <1>1, <1>2
<1>4. s \in Surjection(1..Len(s), ToSet(s))
  BY <1>2, <1>3 DEF Surjection
<1>5. IsFiniteSet(1..Len(s)) /\ Cardinality(1..Len(s)) = Len(s)
  BY <1>1, FS_Interval
<1>6. Cardinality(ToSet(s)) = Len(s) <=> s \in Injection(1..Len(s), ToSet(s))
  BY <1>4, <1>5, FS_Surjection
<1> QED BY <1>3, <1>6 DEF Injection

LEMMA ListAsDocumented ==
  ASSUME NEW ids \in {Unset, Blank} \cup Seq(Id \cup Absent)
  PROVE  AllowlistValid(ids) <=>
           /\ ids \notin {Unset, Blank}
           /\ ids # <<>> /\ ToSet(ids) \subseteq 1..MaxId
           /\ Cardinality(ToSet(ids)) = Len(ids)
<1>1. CASE ids \in {Unset, Blank}
  BY <1>1 DEF AllowlistValid
<1>2. CASE ids \notin {Unset, Blank}
  <2>1. ids \in Seq(Id \cup Absent)
    BY <1>2
  <2>2. IsInjective(ids) <=> Cardinality(ToSet(ids)) = Len(ids)
    BY <2>1, InjectiveCount
  <2>3. \A v \in Id \cup Absent : Parsed(v) /\ v # Unset /\ v > 0 <=> v \in 1..MaxId
    BY EnvironmentsAssumption, StartupAssumption DEF Parsed, Id, Absent
  <2>4. \A n \in DOMAIN ids : ids[n] \in Id \cup Absent
    BY <2>1
  <2>5. (\A n \in DOMAIN ids : Parsed(ids[n]) /\ ids[n] # Unset /\ ids[n] > 0)
          <=> ToSet(ids) \subseteq 1..MaxId
    BY <2>3, <2>4 DEF ToSet
  <2> QED BY <1>2, <2>2, <2>5 DEF AllowlistValid
<1> QED BY <1>1, <1>2

LEMMA FlagAsDocumented ==
  ASSUME NEW d \in BOOLEAN \cup Absent
  PROVE  /\ Parsed(EnvOr(d, FALSE)) <=> EnvOr(d, FALSE) \in BOOLEAN
         /\ EnvOr(d, FALSE) = TRUE <=> d = TRUE
<1>1. Unset # TRUE /\ Unset # FALSE /\ Blank \notin BOOLEAN /\ Word \notin BOOLEAN
      /\ Unset # Blank /\ Unset # Word
  BY EnvironmentsAssumption DEF Absent
<1> QED BY <1>1 DEF Parsed, EnvOr, Absent

LEMMA NumberAsDocumented ==
  ASSUME NEW v \in Int \cup Absent, NEW most \in Nat \ {0}, NEW fallback \in 1..most
  PROVE  Parsed(EnvOr(v, fallback)) /\ EnvOr(v, fallback) \in 1..most
           <=> EnvOr(v, 1) \in 1..most
<1>1. Blank \notin Int /\ Word \notin Int /\ Unset \notin Int
  BY EnvironmentsAssumption DEF Absent
<1> QED BY <1>1 DEF Parsed, EnvOr, Absent

LEMMA ListenersAsDocumented ==
  ASSUME NEW a, NEW b
  PROVE  a # b <=> Cardinality({a, b}) = 2
<1>1. CASE a = b
  <2>1. Cardinality({a}) = 1 /\ {a, b} = {a}
    BY <1>1, FS_Singleton
  <2> QED BY <1>1, <2>1
<1>2. CASE a # b
  <2>1. {a, b} = {a} \cup {b} /\ b \notin {a}
    BY <1>2
  <2>2. IsFiniteSet({a}) /\ Cardinality({a}) = 1
    BY FS_Singleton
  <2>3. Cardinality({a} \cup {b}) = 2
    BY <2>1, <2>2, FS_AddElement
  <2> QED BY <1>2, <2>1, <2>3
<1> QED BY <1>1, <1>2

LEMMA AddressAsDocumented ==
  ASSUME NEW a \in Address \cup Absent, NEW fallback \in Address
  PROVE  EnvOr(a, fallback) \in {Blank, Word} <=> a \in {Blank, Word}
<1>1. fallback \notin Absent /\ Unset # Blank /\ Unset # Word
  BY EnvironmentsAssumption
<1> QED BY <1>1 DEF EnvOr, Absent

\* What is asked of a URL, where http is allowed or not.
Endpoint(u, http) ==
  /\ u \in URL /\ u.scheme \in {"https"} \cup (IF http THEN {"http"} ELSE {})
  /\ u.host /\ ~u.user
  /\ "some" \notin {u.query, u.fragment}

LEMMA URLAsDocumented ==
  ASSUME NEW u \in URL \cup Absent, NEW http \in BOOLEAN
  PROVE  /\ Endpoint(u, http) <=>
              /\ Given(Trimmed(u)) /\ Trimmed(u) # Word
              /\ Absolute(Trimmed(u)) /\ SchemeAllowed(Trimmed(u), http)
         /\ Endpoint(u, http) => (Trimmed(u).path \in {"none", "root"} <=> u.path # "some")
<1>1. CASE u \in URL
  <2>1. Trimmed(u) \in URL
    BY <1>1 DEF Trimmed, URL
  <2>2. Given(Trimmed(u)) /\ Trimmed(u) # Word
    BY <2>1, EnvironmentsAssumption DEF Given, Absent
  <2>3. /\ Trimmed(u).scheme = u.scheme /\ Trimmed(u).host = u.host /\ Trimmed(u).user = u.user
        /\ Trimmed(u).query = u.query /\ Trimmed(u).fragment = u.fragment
        /\ Trimmed(u).path \in {"none", "root"} <=> u.path # "some"
    BY <1>1 DEF Trimmed, URL
  <2>4. Absolute(Trimmed(u)) <=> /\ u.scheme # "" /\ u.host /\ ~u.user
                                 /\ u.query # "some" /\ u.fragment # "some"
    BY <2>3 DEF Absolute
  <2>5. SchemeAllowed(Trimmed(u), http) <=> u.scheme = "https" \/ (http /\ u.scheme = "http")
    BY <2>3 DEF SchemeAllowed
  <2> HIDE <1>1
  <2>6. Endpoint(u, http) <=> /\ u.scheme = "https" \/ (http /\ u.scheme = "http")
                              /\ u.host /\ ~u.user
                              /\ u.query # "some" /\ u.fragment # "some"
    BY <1>1 DEF Endpoint
  <2> QED BY <2>2, <2>3, <2>4, <2>5, <2>6
<1>2. CASE u \notin URL
  <2>1. u \in Absent /\ Trimmed(u) = u /\ ~Endpoint(u, http)
    BY <1>2 DEF Trimmed, Endpoint
  <2> QED BY <2>1 DEF Given, Absent
<1> QED BY <1>1, <1>2

-----------------------------------------------------------------------------
(* The start                                                               *)

ListEntry == Id \cup Absent

AppFound == \E f \in seen : f.app \in Own

\* Entry n of the allowlist was found installed.
InstallationFound(n) ==
  cfg.allowed[n] \in Installation /\ \E f \in seen : f.of[cfg.allowed[n]] \in Own

\* What has been found out at each stage, and that it was found out in time.
Progress ==
  /\ at # "over" => env \in Environments
  /\ at \notin {"load", "over"} => cfg = Load(env)
  /\ at = "load" => next = 1
  /\ at \in Asking \cup {"github", "validated"} => cfg # Refused
  /\ at \in {"installation", "bucket", "validated"} => AppFound
  /\ at = "installation" => \A n \in 1..(next - 1) : InstallationFound(n)
  /\ at \in {"bucket", "validated"} => \A n \in 1..Len(cfg.allowed) : InstallationFound(n)
  /\ at = "validated" => \E f \in seen : f.bucket

SInv == StartupTypeOK /\ Progress

\* What is accepted has a list with something in it.
LEMMA LoadedList ==
  ASSUME NEW e \in Environments, Load(e) # Refused
  PROVE  /\ Load(e).allowed \in Seq(ListEntry)
         /\ Len(Load(e).allowed) \in Nat \ {0}
<1>1. Load(e) = Configuration(e) /\ AllowlistValid(e.allowed)
  BY DEF Load, Loads
<1>2. Load(e).allowed = e.allowed
  BY <1>1 DEF Configuration
<1>3. e.allowed \in Seq(ListEntry) /\ e.allowed # << >>
  BY <1>1, EnvironmentsAssumption DEF AllowlistValid, ListEntry, Environment
<1> QED BY <1>2, <1>3

LEMMA StartFacts ==
  ASSUME SInv, cfg # Refused, at # "over"
  PROVE  /\ cfg = Load(env) /\ cfg.allowed \in Seq(ListEntry)
         /\ Len(cfg.allowed) \in Nat \ {0}
         /\ next \in 1..Len(cfg.allowed) /\ next \in Nat
<1>1. cfg = Load(env) /\ env \in Environments /\ next \in 1..Len(cfg.allowed)
  BY DEF SInv, StartupTypeOK, Progress
<1>2. cfg.allowed \in Seq(ListEntry) /\ Len(cfg.allowed) \in Nat \ {0}
  BY <1>1, LoadedList
<1> QED BY <1>1, <1>2

LEMMA StartTypes ==
  ASSUME SInv
  PROVE  /\ Deadline \in Nat /\ waited \in Nat /\ sent \in Nat
         /\ waited <= Deadline /\ sent <= waited
         /\ at # "over" => facts \in FactSets /\ facts \in seen
  BY StartupAssumption DEF SInv, StartupTypeOK

\* An answer that matches names no App but the configured one.
LEMMA MatchIsOwn ==
  ASSUME NEW a \in App, NEW answer \in Answers(a), Matches(answer)
  PROVE  a \in Own
  BY DEF App, Answers, Matches, Own

LEMMA LoadConfigKeeps ==
  ASSUME SInv, LoadConfig
  PROVE  SInv'
<1>1. /\ at = "load" /\ cfg' = Load(env) /\ at' \in {"stopped", "github"} /\ next = 1
      /\ at' = "github" => cfg' # Refused
      /\ UNCHANGED <<env, next, waited, sent, facts, seen, changes>>
      /\ env \in Environments
  BY DEF LoadConfig, SInv, Progress
<1>2. cfg' # Refused => next' \in 1..Len(cfg'.allowed)
  BY <1>1, LoadedList
<1>3. StartupTypeOK'
  BY <1>1, <1>2, StartTypes DEF SInv, StartupTypeOK, Stages, Asking
<1> QED BY <1>1, <1>3 DEF SInv, Progress, Asking

\* All that a stage asks for and does not change.
Kept == UNCHANGED <<env, cfg, waited, facts, seen, changes>>

\* A stage gives up.
LEMMA StopKeeps ==
  ASSUME SInv, at \notin {"load", "over"}, Kept,
         at' = "stopped", UNCHANGED <<next, sent>>
  PROVE  SInv'
<1>1. StartupTypeOK'
  BY StartTypes DEF SInv, StartupTypeOK, Kept, Stages
<1> QED BY <1>1 DEF SInv, Progress, Kept, Asking

\* The next stage is asked for, and what it presupposes was found.
LEMMA AskKeeps ==
  ASSUME SInv, at \in Asking \cup {"github"}, Kept, NEW stage \in Asking,
         NEW n \in 1..Len(cfg.allowed), Ask(stage, n),
         stage # "app" => AppFound,
         stage = "installation" => \A m \in 1..(n - 1) : InstallationFound(m),
         stage = "bucket" => \A m \in 1..Len(cfg.allowed) : InstallationFound(m)
  PROVE  SInv'
<1>1. at' = stage /\ next' = n /\ sent' = waited /\ cfg # Refused /\ at # "over"
  BY DEF Ask, SInv, Progress, Asking
<1>2. StartupTypeOK'
  BY <1>1, StartTypes DEF SInv, StartupTypeOK, Kept, Stages
<1>3. AppFound' <=> AppFound
  BY DEF AppFound, Kept
<1>4. \A m : InstallationFound(m)' <=> InstallationFound(m)
  BY DEF InstallationFound, Kept
<1>5. Progress'
  BY <1>1, <1>3, <1>4 DEF SInv, Progress, Kept, Asking
<1> QED BY <1>2, <1>5 DEF SInv

LEMMA NewClientsKeeps ==
  ASSUME SInv, NewClients
  PROVE  SInv'
<1>1. at = "github" /\ Kept /\ cfg # Refused
  BY DEF NewClients, Kept, SInv, Progress
<1>2. CASE at' = "stopped" /\ UNCHANGED <<next, sent>>
  BY <1>1, <1>2, StopKeeps
<1>3. CASE Ask("app", 1)
  <2>1. 1 \in 1..Len(cfg.allowed)
    BY <1>1, StartFacts
  <2> QED BY <1>1, <1>3, <2>1, AskKeeps DEF Asking
<1> QED BY <1>2, <1>3 DEF NewClients

LEMMA AppAnsweredKeeps ==
  ASSUME SInv, AppAnswered
  PROVE  SInv'
<1>1. at = "app" /\ Kept /\ cfg # Refused
  BY DEF AppAnswered, Kept, SInv, Progress, Asking
<1>2. PICK answer \in Answers(facts.app) :
        IF Matches(answer) THEN Ask("installation", 1) ELSE Stop
  BY DEF AppAnswered
<1>3. CASE Matches(answer)
  <2>1. facts \in FactSets /\ facts \in seen
    BY <1>1, StartTypes
  <2>2. AppFound
    BY <1>3, <2>1, MatchIsOwn DEF FactSets, AppFound
  <2>3. 1 \in 1..Len(cfg.allowed)
    BY <1>1, StartFacts
  <2>4. "installation" \in Asking /\ \A m \in 1..(1 - 1) : InstallationFound(m)
    BY DEF Asking
  <2> QED BY <1>1, <1>2, <1>3, <2>2, <2>3, <2>4, AskKeeps DEF Asking
<1>4. CASE ~Matches(answer)
  BY <1>1, <1>2, <1>4, StopKeeps DEF Stop
<1> QED BY <1>3, <1>4

LEMMA InstallationAnsweredKeeps ==
  ASSUME SInv, InstallationAnswered
  PROVE  SInv'
<1> DEFINE id == cfg.allowed[next]
<1>1. at = "installation" /\ Kept /\ cfg # Refused /\ AppFound
  BY DEF InstallationAnswered, Kept, SInv, Progress, Asking
<1>2. PICK i \in Installation : \E answer \in Answers(facts.of[i]) :
        IF SameId(i, id) /\ Matches(answer) THEN AfterInstallation(next) ELSE Stop
  BY DEF InstallationAnswered
<1>3. CASE \E answer \in Answers(facts.of[i]) :
             SameId(i, id) /\ Matches(answer) /\ AfterInstallation(next)
  <2>1. facts \in FactSets /\ facts \in seen
    BY <1>1, StartTypes
  <2>2. PICK answer \in Answers(facts.of[i]) :
          i = id /\ Matches(answer) /\ AfterInstallation(next)
    BY <1>3 DEF SameId
  <2>3. facts.of[i] \in App
    BY <2>1 DEF FactSets
  <2>4. InstallationFound(next)
    BY <2>1, <2>2, <2>3, MatchIsOwn DEF InstallationFound
  <2>5. next \in 1..Len(cfg.allowed) /\ Len(cfg.allowed) \in Nat /\ next \in Nat
    BY <1>1, StartFacts
  <2>6. \A m \in 1..next : InstallationFound(m)
    BY <1>1, <2>4, <2>5 DEF SInv, Progress
  <2>7. CASE next < Len(cfg.allowed)
    <3>1. Ask("installation", next + 1) /\ next + 1 \in 1..Len(cfg.allowed)
      BY <2>2, <2>5, <2>7 DEF AfterInstallation
    <3>2. \A m \in 1..((next + 1) - 1) : InstallationFound(m)
      BY <2>5, <2>6
    <3> QED BY <1>1, <3>1, <3>2, AskKeeps DEF Asking
  <2>8. CASE ~(next < Len(cfg.allowed))
    <3>1. Ask("bucket", next) /\ next = Len(cfg.allowed)
      BY <2>2, <2>5, <2>8 DEF AfterInstallation
    <3> QED BY <1>1, <2>5, <2>6, <3>1, AskKeeps DEF Asking
  <2> QED BY <2>7, <2>8
<1>4. CASE Stop
  BY <1>1, <1>4, StopKeeps DEF Stop
<1> QED BY <1>2, <1>3, <1>4

LEMMA BucketAnsweredKeeps ==
  ASSUME SInv, BucketAnswered
  PROVE  SInv'
<1>1. at = "bucket" /\ Kept /\ cfg # Refused
  BY DEF BucketAnswered, Kept, SInv, Progress, Asking
<1>2. CASE Stop
  BY <1>1, <1>2, StopKeeps DEF Stop
<1>3. CASE facts.bucket /\ at' = "validated" /\ UNCHANGED <<next, sent>>
  <2>1. StartupTypeOK'
    BY <1>1, <1>3, StartTypes DEF SInv, StartupTypeOK, Kept, Stages
  <2>2. AppFound' /\ \A m \in 1..Len(cfg.allowed) : InstallationFound(m)'
    BY <1>1 DEF SInv, Progress, AppFound, InstallationFound, Kept
  <2>3. \E f \in seen' : f.bucket
    BY <1>1, <1>3, StartTypes DEF Kept
  <2> QED BY <1>1, <1>3, <2>1, <2>2, <2>3 DEF SInv, Progress, Kept, Asking
<1> QED BY <1>2, <1>3 DEF BucketAnswered

\* What was seen stays seen.
LEMMA ChangeKeeps ==
  ASSUME SInv, Change
  PROVE  SInv'
<1>1. /\ at \in Asking /\ seen' = seen \cup {facts'}
      /\ UNCHANGED <<env, cfg, at, next, waited, sent>>
  BY DEF Change
<1>2. facts \in FactSets /\ seen \subseteq FactSets
  BY <1>1 DEF SInv, StartupTypeOK, Asking
<1>3. facts' \in FactSets
  <2>1. ASSUME NEW a \in App, facts' = [facts EXCEPT !.app = a] PROVE facts' \in FactSets
    BY <1>2, <2>1 DEF FactSets
  <2>2. ASSUME NEW i \in Installation, NEW a \in App, facts' = [facts EXCEPT !.of[i] = a]
        PROVE  facts' \in FactSets
    BY <1>2, <2>2 DEF FactSets
  <2>3. ASSUME facts' = [facts EXCEPT !.bucket = ~@] PROVE facts' \in FactSets
    BY <1>2, <2>3 DEF FactSets
  <2> QED BY <2>1, <2>2, <2>3 DEF Change
<1>4. changes' \in 0..MaxChanges
  BY StartupAssumption DEF Change, SInv, StartupTypeOK
<1>5. StartupTypeOK'
  BY <1>1, <1>2, <1>3, <1>4 DEF SInv, StartupTypeOK
<1>6. AppFound => AppFound'
  BY <1>1 DEF AppFound
<1>7. \A m : InstallationFound(m) => InstallationFound(m)'
  BY <1>1 DEF InstallationFound
<1> QED BY <1>1, <1>5, <1>6, <1>7 DEF SInv, Progress, Asking

LEMMA StartupTickKeeps ==
  ASSUME SInv, StartupTick
  PROVE  SInv'
<1>1. /\ waited' = waited + 1 /\ waited < Deadline
      /\ UNCHANGED <<env, cfg, at, next, sent, facts, seen, changes>>
  BY DEF StartupTick
<1>2. StartupTypeOK'
  BY <1>1, StartTypes DEF SInv, StartupTypeOK
<1> QED BY <1>1, <1>2 DEF SInv, Progress, AppFound, InstallationFound

LEMMA StartupStep ==
  ASSUME SInv, StartupNext
  PROVE  SInv' /\ at' # "over"
<1>1. SInv'
  <2>1. ASSUME TimeOut \/ AskFails PROVE SInv'
    BY <2>1, StopKeeps DEF TimeOut, AskFails, Stop, Kept, Asking
  <2> QED BY <2>1, LoadConfigKeeps, NewClientsKeeps, AppAnsweredKeeps,
             InstallationAnsweredKeeps, BucketAnsweredKeeps, ChangeKeeps, StartupTickKeeps
          DEF StartupNext, Start
<1>2. at' # "over"
  BY DEF StartupNext, Start, LoadConfig, NewClients, TimeOut, AskFails, AppAnswered,
         InstallationAnswered, BucketAnswered, Change, StartupTick, Stop, Ask,
         AfterInstallation, Asking
<1> QED BY <1>1, <1>2

LEMMA StartupOverKeeps ==
  ASSUME SInv, StartupOver
  PROVE  SInv'
<1>1. StartupTypeOK'
  BY StartupAssumption DEF StartupOver, StartupTypeOK, Stages
<1> QED BY <1>1 DEF StartupOver, SInv, Progress, Asking

LEMMA StartupInitInv == StartupInit => SInv
<1> SUFFICES ASSUME StartupInit PROVE SInv
  OBVIOUS
<1>1. StartupTypeOK
  BY StartupAssumption, FactsAssumption DEF StartupInit, StartupTypeOK, Stages
<1> QED BY <1>1 DEF StartupInit, SInv, Progress, Asking

LEMMA StartupStays ==
  ASSUME SInv, UNCHANGED starting
  PROVE  SInv'
<1>1. StartupTypeOK'
  BY DEF SInv, StartupTypeOK, starting
<1> QED BY <1>1 DEF SInv, Progress, AppFound, InstallationFound, starting

\* What Load and Validate ask, said of the environment as it is.
Conditions(e) ==
  LET http == e.dev_allow_http = TRUE
      public == EnvOr(e.http_addr, DefaultHTTPAddress)
      admin == EnvOr(e.admin_addr, DefaultAdminAddress)
  IN  /\ \A v \in {"client_id", "private_key", "s3_region", "s3_bucket", "allowed"} :
           e[v] \notin {Unset, Blank}
      /\ Endpoint(e.public_url, http) /\ e.public_url.path # "some"
      /\ Endpoint(e.s3_endpoint, http)
      /\ e.allowed # <<>> /\ ToSet(e.allowed) \subseteq 1..MaxId
      /\ Cardinality(ToSet(e.allowed)) = Len(e.allowed)
      /\ public # admin /\ {public, admin} \cap {Blank, Word} = {}
      /\ EnvOr(e.dev_allow_http, FALSE) \in BOOLEAN
      /\ EnvOr(e.s3_use_path_style, FALSE) \in BOOLEAN
      /\ EnvOr(e.presign_ttl, 1) \in 1..MaxPresignTTL
      /\ EnvOr(e.max_object_size, 1) \in 1..MaximumMaxObjectSize
      /\ EnvOr(e.log_level, "info") \in LogLevels

LEMMA LoadConditions ==
  ASSUME NEW e \in Environments
  PROVE  Load(e) # Refused <=> Conditions(e)
<1> DEFINE c == Configuration(e)
<1>1. e \in Environment
  BY EnvironmentsAssumption
<1>2. Load(e) # Refused <=> Loads(e) /\ Valid(c)
  <2>1. c # Refused
    BY DEF Configuration, Refused
  <2> QED BY <2>1 DEF Load
<1>3. AllowlistValid(e.allowed) <=>
        /\ e.allowed \notin {Unset, Blank}
        /\ e.allowed # <<>> /\ ToSet(e.allowed) \subseteq 1..MaxId
        /\ Cardinality(ToSet(e.allowed)) = Len(e.allowed)
  BY <1>1, ListAsDocumented DEF Environment
<1>4. /\ Parsed(DevAllowHTTP(e)) <=> EnvOr(e.dev_allow_http, FALSE) \in BOOLEAN
      /\ Parsed(PathStyle(e)) <=> EnvOr(e.s3_use_path_style, FALSE) \in BOOLEAN
      /\ DevAllowHTTP(e) = TRUE <=> e.dev_allow_http = TRUE
  BY <1>1, FlagAsDocumented DEF Environment, DevAllowHTTP, PathStyle
<1>5. Parsed(PresignTTL(e)) /\ PresignTTL(e) \in 1..MaxPresignTTL
        <=> EnvOr(e.presign_ttl, 1) \in 1..MaxPresignTTL
  <2>1. /\ e.presign_ttl \in Int \cup Absent
        /\ MaxPresignTTL \in Nat \ {0} /\ DefaultPresignTTL \in 1..MaxPresignTTL
    BY <1>1, DefaultsAssumption DEF Environment
  <2> QED BY <2>1, NumberAsDocumented DEF PresignTTL
<1>6. Parsed(ObjectSize(e)) /\ ObjectSize(e) \in 1..MaximumMaxObjectSize
        <=> EnvOr(e.max_object_size, 1) \in 1..MaximumMaxObjectSize
  <2>1. /\ e.max_object_size \in Int \cup Absent
        /\ MaximumMaxObjectSize \in Nat \ {0}
        /\ MaximumMaxObjectSize \in 1..MaximumMaxObjectSize
    BY <1>1, DefaultsAssumption DEF Environment
  <2> QED BY <2>1, NumberAsDocumented DEF ObjectSize
<1>7. Parsed(LogLevel(e)) /\ LogLevel(e) \in LogLevels
        <=> EnvOr(e.log_level, "info") \in LogLevels
  BY EnvironmentsAssumption DEF LogLevel, Parsed, Absent
<1>8. /\ c.publicURL = Trimmed(e.public_url) /\ c.endpoint = Trimmed(e.s3_endpoint)
      /\ c.http = EnvOr(e.http_addr, DefaultHTTPAddress)
      /\ c.admin = EnvOr(e.admin_addr, DefaultAdminAddress)
      /\ c.clientID = e.client_id /\ c.key = e.private_key
      /\ c.region = e.s3_region /\ c.bucket = e.s3_bucket
      /\ c.allowHTTP = DevAllowHTTP(e) /\ c.ttl = PresignTTL(e) /\ c.maxSize = ObjectSize(e)
  BY DEF Configuration
<1>9. e.public_url \in URL \cup Absent /\ e.s3_endpoint \in URL \cup Absent
  BY <1>1 DEF Environment
<1> DEFINE http == e.dev_allow_http = TRUE
<1> HIDE DEF c
<1>10. ASSUME Loads(e) \/ Conditions(e)
       PROVE  DevAllowHTTP(e) = http /\ http \in BOOLEAN
  <2>1. EnvOr(e.dev_allow_http, FALSE) \in BOOLEAN
    BY <1>4, <1>10 DEF Loads, Conditions
  <2> QED BY <1>4, <2>1 DEF DevAllowHTTP
<1>11. ASSUME Loads(e), Valid(c) PROVE Conditions(e)
  <2>1. /\ Endpoint(e.public_url, http) /\ Endpoint(e.s3_endpoint, http)
        /\ e.public_url.path # "some"
    BY <1>8, <1>9, <1>10, <1>11, URLAsDocumented DEF Valid, Required
  <2>2. \A v \in {"client_id", "private_key", "s3_region", "s3_bucket", "allowed"} :
          e[v] \notin {Unset, Blank}
    BY <1>3, <1>8, <1>11 DEF Valid, Required, Given, Loads
  <2> QED BY <1>3, <1>4, <1>5, <1>6, <1>7, <1>8, <1>11, <2>1, <2>2
          DEF Conditions, Loads, Valid
<1>12. ASSUME Conditions(e) PROVE Loads(e) /\ Valid(c)
  <2>1. Loads(e)
    BY <1>3, <1>4, <1>5, <1>6, <1>7, <1>12 DEF Conditions, Loads
  <2>2. /\ Endpoint(e.public_url, http) /\ Endpoint(e.s3_endpoint, http)
        /\ e.public_url.path # "some"
    BY <1>12 DEF Conditions
  <2>3. \A v \in Required : Given(c[v])
    <3>1. \A v \in {"client_id", "private_key", "s3_region", "s3_bucket"} : Given(e[v])
      BY <1>12 DEF Conditions, Given
    <3>2. Given(c.publicURL) /\ Given(c.endpoint)
      BY <1>8, <1>9, <1>10, <1>12, <2>2, URLAsDocumented
    <3> QED BY <1>8, <3>1, <3>2 DEF Required
  <2>4. c.http # c.admin /\ {c.http, c.admin} \cap {Blank, Word} = {}
    BY <1>8, <1>12 DEF Conditions
  <2>5. /\ c.publicURL # Word /\ Absolute(c.publicURL)
        /\ c.publicURL.path \in {"none", "root"}
        /\ SchemeAllowed(c.publicURL, c.allowHTTP)
        /\ c.endpoint # Word /\ Absolute(c.endpoint)
        /\ SchemeAllowed(c.endpoint, c.allowHTTP)
    BY <1>8, <1>9, <1>10, <1>12, <2>2, URLAsDocumented
  <2>6. c.ttl \in 1..MaxPresignTTL /\ c.maxSize \in 1..MaximumMaxObjectSize
    BY <1>5, <1>6, <1>8, <1>12 DEF Conditions
  <2> QED BY <2>1, <2>3, <2>4, <2>5, <2>6 DEF Valid
<1> QED BY <1>2, <1>11, <1>12

\* These are what the document says and the error messages add.
LEMMA LoadAsDocumented ==
  ASSUME NEW e \in Environments
  PROVE  Load(e) # Refused <=> Documented(WarnForWarning(e)) /\ SaidOnRefusal(e)
<1> DEFINE w == WarnForWarning(e)
           http == e.dev_allow_http = TRUE
<1>1. e \in Environment
  BY EnvironmentsAssumption
<1>2. /\ w.public_url = e.public_url /\ w.s3_endpoint = e.s3_endpoint
      /\ w.http_addr = e.http_addr /\ w.admin_addr = e.admin_addr
      /\ w.allowed = e.allowed /\ w.dev_allow_http = e.dev_allow_http
      /\ w.presign_ttl = e.presign_ttl /\ w.max_object_size = e.max_object_size
      /\ \A v \in {"client_id", "private_key", "s3_region", "s3_bucket", "allowed"} : w[v] = e[v]
      /\ w.log_level = IF e.log_level = "warning" THEN "warn" ELSE e.log_level
  BY <1>1 DEF WarnForWarning, Environment
<1>3. EnvOr(w.log_level, "info") \in {"debug", "info", "warn", "error"}
        <=> EnvOr(e.log_level, "info") \in LogLevels
  BY <1>2, EnvironmentsAssumption DEF EnvOr, Absent, LogLevels
<1> DEFINE public == EnvOr(e.http_addr, DefaultHTTPAddress)
           admin == EnvOr(e.admin_addr, DefaultAdminAddress)
<1>4. {public, admin} \cap {Blank, Word} = {} <=> {Blank, Word} \cap {e.http_addr, e.admin_addr} = {}
  <2>1. DefaultHTTPAddress \in Address /\ DefaultAdminAddress \in Address
    BY EnvironmentsAssumption
  <2>2. e.http_addr \in Address \cup Absent /\ e.admin_addr \in Address \cup Absent
    BY <1>1 DEF Environment
  <2>3. public \in {Blank, Word} <=> e.http_addr \in {Blank, Word}
    BY <2>1, <2>2, AddressAsDocumented
  <2>4. admin \in {Blank, Word} <=> e.admin_addr \in {Blank, Word}
    BY <2>1, <2>2, AddressAsDocumented
  <2> HIDE DEF public, admin
  <2> QED BY <2>3, <2>4
<1>5. public # admin <=> Cardinality({public, admin}) = 2
  BY ListenersAsDocumented
<1>6. \A u : Endpoint(u, http) <=>
        /\ u \in URL /\ u.scheme \in {"https"} \cup (IF http THEN {"http"} ELSE {}) /\ u.host
        /\ ~u.user /\ "some" \notin {u.query, u.fragment}
  BY DEF Endpoint
<1>7. Load(e) # Refused <=> Conditions(e)
  BY LoadConditions
<1>8. Conditions(e) => Documented(w) /\ SaidOnRefusal(e)
  BY <1>2, <1>3, <1>4, <1>5, <1>6 DEF Conditions, Documented, SaidOnRefusal
<1>9. Documented(w) /\ SaidOnRefusal(e) => Conditions(e)
  BY <1>2, <1>3, <1>4, <1>5, <1>6 DEF Conditions, Documented, SaidOnRefusal
<1> QED BY <1>7, <1>8, <1>9

-----------------------------------------------------------------------------
(* The process                                                             *)

Ending == {"shutdown", "drain", "return"}

ProcessType ==
  /\ main \in Places /\ (main # "startup" <=> at = "over")
  /\ draining \in Listener
  /\ {ready, failed, pending, signalled} \subseteq BOOLEAN
  /\ listener \in [Listener -> {"none", "new", "open", "closed", "failed"}]
  /\ closing \in [Listener -> BOOLEAN]
  /\ inflight \in [Listener -> 0..MaxRequests]
  /\ failures \subseteq Listener
  /\ elapsed \in 0..Drain
  /\ exit \in {"running", "ok", "error", "killed"}

\* What run() has done by each of its places, and not before.
Order ==
  /\ main = "startup" => \A l \in Listener : listener[l] = "none" /\ inflight[l] = 0
  /\ ready => main \in {"notify", "select", "unready"}
  /\ \A l \in Listener : closing[l] => main \in Ending /\ listener[l] # "open"
  /\ draining = Operations => main \in Ending
  /\ main = "drain" => closing[draining]

\* It ends because it was told to.
Told ==
  /\ pending => signalled
  /\ main \in Ending \cup {"unready"} => signalled \/ failed

\* The Shutdown of l has returned.
ShutdownOver(l) == main = "return" \/ (l = Public /\ draining = Operations)

\* It returned because all was done, or with an error as the time was over;
\* and no request came after it.
Drained ==
  \A l \in Listener :
    ShutdownOver(l) => closing[l] /\ (inflight[l] > 0 => failed /\ elapsed = Drain)

Exited ==
  /\ exit = "ok" => main = "return" /\ ~failed
  /\ exit = "error" => main \in {"startup", "return"}

IInv ==
  /\ SInv
  /\ ProcessType
  /\ Order
  /\ Told
  /\ Drained
  /\ Exited

LEMMA InitIInv == Init => IInv
<1> SUFFICES ASSUME Init PROVE IInv
  OBVIOUS
<1>1. SInv
  BY StartupInitInv DEF Init
<1>2. at # "over"
  BY DEF Init, StartupInit
<1>3. ProcessType
  <2>1. 0 \in 0..MaxRequests /\ 0 \in 0..Drain /\ Public \in Listener
    BY LimitsAssumption DEF Listener
  <2>2. /\ inflight \in [Listener -> 0..MaxRequests]
        /\ closing \in [Listener -> BOOLEAN]
        /\ listener \in [Listener -> {"none", "new", "open", "closed", "failed"}]
    BY <2>1 DEF Init
  <2>3. {ready, failed, pending, signalled} \subseteq BOOLEAN
    BY DEF Init
  <2> QED BY <1>2, <2>1, <2>2, <2>3 DEF Init, ProcessType, Places
<1>4. Order /\ Told /\ Drained /\ Exited
  BY ListenerAssumption DEF Init, Order, Told, Drained, Exited, ShutdownOver, Ending
<1> QED BY <1>1, <1>3, <1>4 DEF IInv

\* Up to the first listener nothing can be lost.
LEMMA BeginningKeeps ==
  ASSUME IInv, Starting \/ StartupFails \/ StartListeners \/ Announce \/ Notify
  PROVE  IInv'
<1> USE DEF Running, Step, run, servers, signals, process
<1>1. CASE Starting
  <2>1. SInv' /\ at' # "over" /\ at # "over"
    BY <1>1, StartupStep DEF Starting, IInv, ProcessType
  <2> QED BY <1>1, <2>1 DEF Starting, IInv, ProcessType, Order, Told, Drained, ShutdownOver, Exited
<1>2. CASE StartupFails
  <2>1. SInv'
    BY <1>2, StartupStays DEF StartupFails, IInv
  <2> QED BY <1>2, <2>1 DEF StartupFails, IInv, ProcessType, Order, Told, Drained, ShutdownOver,
                            Exited, starting
<1>3. CASE StartListeners
  <2>1. SInv' /\ at' = "over"
    BY <1>3, StartupOverKeeps DEF StartListeners, StartupOver, IInv
  <2> QED BY <1>3, <2>1 DEF StartListeners, IInv, ProcessType, Order, Told, Drained, ShutdownOver,
                            Exited, Ending, Places
<1>4. CASE Announce \/ Notify
  <2>1. SInv' /\ at' = at
    BY <1>4, StartupStays DEF Announce, Notify, IInv, starting
  <2>2. CASE Announce
    BY <2>1, <2>2 DEF Announce, IInv, ProcessType, Order, Told, Drained, ShutdownOver, Exited,
                      Ending, Places
  <2>3. CASE Notify
    BY <2>1, <2>3 DEF Notify, IInv, ProcessType, Order, Told, Drained, ShutdownOver, Exited,
                      Ending, Places
  <2> QED BY <1>4, <2>2, <2>3
<1> QED BY <1>1, <1>2, <1>3, <1>4

\* The select statement, and the flag.
LEMMA TurnKeeps ==
  ASSUME IInv, TakeSignal \/ TakeFailure \/ Unready
  PROVE  IInv'
<1> USE DEF Running, Step, run, servers, signals
<1>1. SInv' /\ at' = at
  BY StartupStays DEF TakeSignal, TakeFailure, Unready, IInv, starting
<1>2. CASE TakeSignal
  BY <1>1, <1>2 DEF TakeSignal, IInv, ProcessType, Order, Told, Drained, ShutdownOver, Exited,
                    Ending, Places
<1>3. CASE TakeFailure
  BY <1>1, <1>3 DEF TakeFailure, IInv, ProcessType, Order, Told, Drained, ShutdownOver, Exited,
                    Ending, Places
<1>4. CASE Unready
  BY <1>1, <1>4 DEF Unready, IInv, ProcessType, Order, Told, Drained, ShutdownOver, Exited,
                    Ending, Places
<1> QED BY <1>2, <1>3, <1>4

\* The two Shutdowns, and the exit.
LEMMA EndingKeeps ==
  ASSUME IInv, ShutdownCloses \/ ShutdownReturns \/ Return
  PROVE  IInv'
<1> USE DEF Running, Step, run, servers, signals
<1>1. SInv' /\ at' = at
  BY StartupStays DEF ShutdownCloses, ShutdownReturns, Return, IInv, starting
<1>2. CASE ShutdownCloses
  BY <1>1, <1>2 DEF ShutdownCloses, IInv, ProcessType, Order, Told, Drained, ShutdownOver, Exited,
                    Ending, Places
<1>3. CASE ShutdownReturns
  <2>1. /\ main = "drain" /\ main' \in {"shutdown", "return"} /\ draining' = Operations
        /\ main' = "return" <=> draining # Public
        /\ UNCHANGED <<ready, listener, closing, inflight, failures, pending, signalled, elapsed, exit>>
        /\ exit = "running" /\ draining \in Listener
    BY <1>3 DEF ShutdownReturns, IInv, ProcessType
  <2>5. /\ inflight[draining] > 0 => elapsed = Drain /\ failed'
        /\ failed => failed'
        /\ failed' \in BOOLEAN
    <3>1. inflight[draining] \in Nat /\ failed \in BOOLEAN
      BY <2>1, LimitsAssumption DEF IInv, ProcessType
    <3>2. CASE inflight[draining] = 0 /\ UNCHANGED failed
      BY <3>1, <3>2
    <3>3. CASE elapsed = Drain /\ failed' = TRUE
      BY <3>1, <3>3
    <3> QED BY <1>3, <3>2, <3>3 DEF ShutdownReturns, Outcome
  <2>2. ProcessType'
    BY <1>1, <2>1, <2>5 DEF IInv, ProcessType, Places, Listener
  <2>3. Order' /\ Told' /\ Exited'
    <3>1. Order'
      BY <2>1 DEF IInv, ProcessType, Order, Ending
    <3>2. Told'
      BY <2>1, <2>5 DEF IInv, Told, Ending
    <3>3. Exited'
      BY <2>1 DEF Exited
    <3> QED BY <3>1, <3>2, <3>3
  <2>4. Drained'
    <3> SUFFICES ASSUME NEW l \in Listener, ShutdownOver(l)'
                 PROVE  closing'[l] /\ (inflight'[l] > 0 => failed' /\ elapsed' = Drain)
      BY DEF Drained
    <3>1. CASE l = draining
      BY <2>1, <2>5, <3>1 DEF IInv, Order
    <3>2. CASE l # draining
      <4>1. ShutdownOver(l)
        BY <2>1, <3>2, ListenerAssumption DEF ShutdownOver, Listener, IInv, ProcessType
      <4>2. closing[l] /\ (inflight[l] > 0 => failed /\ elapsed = Drain)
        BY <4>1 DEF IInv, Drained
      <4> QED BY <2>1, <2>5, <4>2
    <3> QED BY <3>1, <3>2
  <2> QED BY <1>1, <2>2, <2>3, <2>4 DEF IInv
<1>4. CASE Return
  BY <1>1, <1>4 DEF Return, IInv, ProcessType, Order, Told, Drained, ShutdownOver, Exited,
                    Ending, Places
<1> QED BY <1>2, <1>3, <1>4

\* The listeners: one that is being shut down takes no more requests.
LEMMA ListenersKeep ==
  ASSUME IInv, NEW l \in Listener, Bind(l) \/ Break(l) \/ Request(l) \/ Respond(l)
  PROVE  IInv'
<1> USE DEF Running, run, servers, signals
<1>1. SInv' /\ at' = at
  BY StartupStays DEF Bind, Break, Request, Respond, IInv, starting
<1>2. CASE Bind(l)
  BY <1>1, <1>2 DEF Bind, IInv, ProcessType, Order, Told, Drained, ShutdownOver, Exited
<1>3. CASE Break(l)
  BY <1>1, <1>3 DEF Break, IInv, ProcessType, Order, Told, Drained, ShutdownOver, Exited
<1>4. CASE Request(l)
  <2>1. /\ ~closing[l] /\ listener[l] = "open" /\ main # "startup"
        /\ inflight[l] + 1 \in 0..MaxRequests
    BY <1>4, LimitsAssumption DEF Request, IInv, ProcessType, Order
  <2> QED BY <1>1, <1>4, <2>1 DEF Request, IInv, ProcessType, Order, Told, Drained,
                                  ShutdownOver, Exited
<1>5. CASE Respond(l)
  <2>1. /\ inflight[l] > 0 /\ inflight[l] - 1 \in 0..MaxRequests /\ main # "startup"
        /\ inflight[l] \in Nat
    BY <1>5, LimitsAssumption DEF Respond, IInv, ProcessType, Order
  <2> QED BY <1>1, <1>5, <2>1 DEF Respond, IInv, ProcessType, Order, Told, Drained,
                                  ShutdownOver, Exited
<1> QED BY <1>2, <1>3, <1>4, <1>5

LEMMA OutsideKeeps ==
  ASSUME IInv, Signal \/ Tick
  PROVE  IInv'
<1> USE DEF Running, run, servers, signals
<1>1. SInv' /\ at' = at
  BY StartupStays DEF Signal, Tick, IInv, starting
<1>2. CASE Signal
  BY <1>1, <1>2 DEF Signal, IInv, ProcessType, Order, Told, Drained, ShutdownOver, Exited
<1>3. CASE Tick
  <2>1. elapsed' \in 0..Drain /\ elapsed # Drain
    BY <1>3, LimitsAssumption DEF Tick, IInv, ProcessType
  <2> QED BY <1>1, <1>3, <2>1 DEF Tick, IInv, ProcessType, Order, Told, Drained,
                                  ShutdownOver, Exited
<1> QED BY <1>2, <1>3

LEMMA StepIInv == IInv /\ [Next]_vars => IInv'
<1> SUFFICES ASSUME IInv, [Next]_vars PROVE IInv'
  OBVIOUS
<1>1. CASE UNCHANGED vars
  <2>1. SInv'
    BY <1>1, StartupStays DEF vars, IInv
  <2> QED BY <1>1, <2>1 DEF vars, starting, process, run, servers, signals, IInv, ProcessType,
       Order, Told, Drained, ShutdownOver, Exited
<1>2. CASE StartRuns
  BY <1>2, BeginningKeeps DEF StartRuns, Starting, StartupNext
<1>3. CASE Next /\ ~StartRuns
  BY <1>3, BeginningKeeps, TurnKeeps, EndingKeeps, ListenersKeep, OutsideKeeps DEF Next, Main
<1> QED BY <1>1, <1>2, <1>3

LEMMA Invariance == Spec => []IInv
  BY InitIInv, StepIInv, PTL DEF Spec

-----------------------------------------------------------------------------
(***************************************************************************)
(* run() never leaves its places, nothing is started or drained twice, and *)
(* the start never looks past the end of the allowlist (main.go:46-135).   *)
(***************************************************************************)
THEOREM LifecycleType == Spec => []TypeOK
<1>1. IInv => TypeOK
  BY DEF IInv, SInv, ProcessType, TypeOK
<1> QED BY <1>1, Invariance, PTL

(***************************************************************************)
(* Every environment there can be, not the few of a run, is accepted if    *)
(* and only if it is as configuration.md says and as the four conditions   *)
(* say that only error messages state, "warning" read as "warn"            *)
(* (config.go:68-188).                                                     *)
(***************************************************************************)
THEOREM EnvironmentAcceptedAsDocumented == Spec => []AcceptedAsDocumented
<1>1. IInv => AcceptedAsDocumented
  <2> SUFFICES ASSUME IInv, at \notin {"load", "over"}
              PROVE  cfg # Refused <=> Documented(WarnForWarning(env)) /\ SaidOnRefusal(env)
    BY DEF AcceptedAsDocumented
  <2>1. env \in Environments /\ cfg = Load(env)
    BY DEF IInv, SInv, Progress
  <2> QED BY <2>1, LoadAsDocumented
<1> QED BY <1>1, Invariance, PTL

(***************************************************************************)
(* What listens was validated: the App, each installation of an allowlist  *)
(* of any length under its own number, and the bucket (main.go:76-83,      *)
(* github.go:105-129).                                                     *)
(***************************************************************************)
THEOREM ReadyOnlyValidated == Spec => []ReadyIsValidated
<1>1. IInv => ReadyIsValidated
  <2> SUFFICES ASSUME IInv, at = "validated" PROVE ReadyIsValidated
    BY DEF ReadyIsValidated
  <2>1. cfg # Refused /\ SInv /\ at # "over"
    BY DEF IInv, SInv, Progress
  <2>2. DOMAIN cfg.allowed = 1..Len(cfg.allowed)
    BY <2>1, StartFacts
  <2> QED BY <2>1, <2>2 DEF SInv, Progress, AppFound, InstallationFound, ReadyIsValidated
<1> QED BY <1>1, Invariance, PTL

(***************************************************************************)
(* Success is reported only by a process that was told to stop and lost no *)
(* request (main.go:131-135).                                              *)
(***************************************************************************)
THEOREM SuccessOnlyClean == Spec => []SuccessIsClean
<1>1. IInv => SuccessIsClean
  BY DEF IInv, ProcessType, Told, Drained, ShutdownOver, Exited, Ending, SuccessIsClean
<1> QED BY <1>1, Invariance, PTL

(***************************************************************************)
(* A request is cut off only after the whole time to drain                 *)
(* (main.go:124-135).                                                      *)
(***************************************************************************)
THEOREM CutOnlyLate == Spec => []NothingCutEarly
<1>1. IInv => NothingCutEarly
  BY DEF IInv, ProcessType, Order, Drained, ShutdownOver, Exited, Returned, NothingCutEarly
<1> QED BY <1>1, Invariance, PTL

(***************************************************************************)
(* A process does not call itself ready while it closes a listener         *)
(* (main.go:130).                                                          *)
(***************************************************************************)
THEOREM UnreadyBeforeClosing == Spec => []UnreadyFirst
<1>1. IInv => UnreadyFirst
  BY DEF IInv, ProcessType, Order, Ending, UnreadyFirst
<1> QED BY <1>1, Invariance, PTL
-----------------------------------------------------------------------------
(* What the end of a process rests on                                      *)

\* The statements run() is away from its return, but for the second listener.
ToReturn == [startup |-> 7, announce |-> 6, notify |-> 5, select |-> 4,
             unready |-> 3, shutdown |-> 2, drain |-> 1, return |-> 0]

\* What run() has to do until its process is gone, with the time to drain.
ToDo ==
  ToReturn[main] + (IF draining = Public THEN 2 ELSE 0) + (Drain - elapsed)
    + (IF Running THEN 1 ELSE 0)

OnlyForward ==
  [][ToDo' \in 0..ToDo /\ (main # "startup" /\ (Main \/ Tick) => ToDo' # ToDo)]_vars

Called == signalled \/ \E l \in Listener : listener[l] = "failed"

NothingOverheard ==
  Running /\ main = "select" /\ Called => pending \/ failures # {}

\* Until the select statement no signal is survived, and none lost after
\* signal.Notify; no error of a listener is taken.
Heard ==
  /\ main \in {"startup", "announce", "notify"} /\ Running => ~signalled
  /\ main = "select" /\ signalled => pending
  /\ main \notin Ending \cup {"unready"} => \A l \in Listener : listener[l] = "failed" => l \in failures

LEMMA ToReturnLemma ==
  /\ ToReturn["startup"] = 7 /\ ToReturn["announce"] = 6 /\ ToReturn["notify"] = 5
  /\ ToReturn["select"] = 4 /\ ToReturn["unready"] = 3 /\ ToReturn["shutdown"] = 2
  /\ ToReturn["drain"] = 1 /\ ToReturn["return"] = 0
  BY DEF ToReturn

LEMMA ToDoLemma ==
  ASSUME ProcessType
  PROVE  ToDo \in Nat /\ ToReturn[main] \in Nat /\ Drain - elapsed \in Nat
<1>1. ToReturn[main] \in Nat
  BY ToReturnLemma DEF ProcessType, Places
<1>2. Drain - elapsed \in Nat
  BY LimitsAssumption DEF ProcessType
<1> QED BY <1>1, <1>2 DEF ToDo

LEMMA ToDoIsNat == IInv => ToDo \in Nat
  BY ToDoLemma DEF IInv

LEMMA HeardStep == IInv /\ Heard /\ [Next]_vars => Heard'
<1> SUFFICES ASSUME IInv, Heard, [Next]_vars PROVE Heard'
  OBVIOUS
<1> USE DEF Heard, Ending, Running, Step, run, servers, signals, process
<1>1. CASE UNCHANGED vars \/ Starting \/ StartRuns
  BY <1>1 DEF vars, Starting, StartRuns
<1>2. CASE StartupFails \/ StartListeners \/ Announce \/ Notify
  BY <1>2 DEF StartupFails, StartListeners, Announce, Notify
<1>3. CASE TakeSignal \/ TakeFailure \/ Unready \/ ShutdownCloses \/ ShutdownReturns \/ Return
  BY <1>3 DEF TakeSignal, TakeFailure, Unready, ShutdownCloses, ShutdownReturns, Return
<1>4. ASSUME NEW l \in Listener, Bind(l) \/ Break(l) \/ Request(l) \/ Respond(l)
      PROVE  Heard'
  BY <1>4 DEF Bind, Break, Request, Respond, IInv, ProcessType
<1>5. CASE Signal \/ Tick
  BY <1>5 DEF Signal, Tick, IInv, ProcessType
<1> QED BY <1>1, <1>2, <1>3, <1>4, <1>5 DEF Next, Main

LEMMA ForwardStep ==
  ASSUME IInv, ToDo' \in Nat, Next
  PROVE  ToDo' \in 0..ToDo /\ (main # "startup" /\ (Main \/ Tick) => ToDo' # ToDo)
<1> USE DEF Running, Step, run, servers, signals, process
<1>1. ToDo \in Nat /\ ToReturn[main] \in Nat /\ Drain - elapsed \in Nat
  BY ToDoLemma DEF IInv
<1>2. ProcessType /\ Drain \in Nat /\ elapsed \in Nat
  BY LimitsAssumption DEF IInv, ProcessType
<1>3. CASE Starting \/ StartRuns
  <2>1. main = "startup" /\ ToDo' = ToDo
    BY <1>3 DEF Starting, StartRuns, ToDo
  <2> QED BY <1>1, <2>1
<1>4. CASE StartupFails \/ Return
  <2>1. ToDo' = ToDo - 1
    BY <1>1, <1>4 DEF StartupFails, Return, ToDo
  <2> QED BY <1>1, <2>1
<1>5. CASE StartListeners \/ Announce \/ Notify \/ TakeSignal \/ TakeFailure \/ Unready \/ ShutdownCloses
  <2>1. UNCHANGED <<draining, elapsed, exit>> /\ ToReturn[main'] = ToReturn[main] - 1
    BY <1>5, ToReturnLemma
       DEF StartListeners, Announce, Notify, TakeSignal, TakeFailure, Unready, ShutdownCloses
  <2>2. ToDo' = ToDo - 1
    BY <1>1, <2>1 DEF ToDo
  <2> QED BY <1>1, <2>2
<1>6. CASE ShutdownReturns
  <2>1. /\ UNCHANGED <<elapsed, exit>> /\ main = "drain" /\ draining' = Operations
        /\ main' = IF draining = Public THEN "shutdown" ELSE "return"
    BY <1>6 DEF ShutdownReturns
  <2>2. ToDo' = ToDo - 1
    BY <1>1, <2>1, ToReturnLemma, ListenerAssumption DEF ToDo
  <2> QED BY <1>1, <2>2
<1>7. CASE Tick
  <2>1. UNCHANGED <<main, draining, exit>> /\ elapsed' = elapsed + 1
    BY <1>7 DEF Tick
  <2>2. ToDo' = ToDo - 1
    BY <1>1, <1>2, <2>1 DEF ToDo
  <2> QED BY <1>1, <2>2
<1>8. ASSUME ~Main, ~Tick, Next
      PROVE  ToDo' \in 0..ToDo
  <2>1. UNCHANGED <<main, draining, elapsed>> /\ (exit' = exit \/ exit = "running")
    BY <1>8 DEF Next, Starting, Signal, Bind, Break, Request, Respond
  <2>2. ToDo' = ToDo \/ ToDo' = ToDo - 1
    BY <1>1, <1>2, <2>1 DEF ToDo
  <2> QED BY <1>1, <2>2
<1> QED BY <1>3, <1>4, <1>5, <1>6, <1>7, <1>8 DEF Main

(***************************************************************************)
(* No signal and no failure of a listener is lost on its way to the select *)
(* statement, whenever it comes: of either run() hears, or is gone         *)
(* (main.go:116-129).                                                      *)
(***************************************************************************)
THEOREM RunHears == Spec => []NothingOverheard
<1>1. Init => Heard
  BY DEF Init, Heard
<1>2. Heard => NothingOverheard
  BY DEF Heard, NothingOverheard, Called, Ending
<1> QED BY <1>1, <1>2, HeardStep, InitIInv, StepIInv, PTL DEF Spec

(***************************************************************************)
(* And then it ends: each statement of run() and each tick of the deadline *)
(* leaves less to be done, and no request, listener or signal adds to it   *)
(* (main.go:124-135).                                                      *)
(***************************************************************************)
THEOREM RunComesToAnEnd == Spec => OnlyForward
<1>1. (IInv => ToDo \in Nat)'
  BY ToDoIsNat, PTL
<1>2. IInv /\ IInv' /\ [Next]_vars =>
        [ToDo' \in 0..ToDo /\ (main # "startup" /\ (Main \/ Tick) => ToDo' # ToDo)]_vars
  BY <1>1, ForwardStep
<1> QED BY <1>2, InitIInv, StepIInv, PTL DEF Spec, OnlyForward
=============================================================================
