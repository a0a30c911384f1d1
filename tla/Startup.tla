------------------------------ MODULE Startup ------------------------------
(***************************************************************************)
(* The start of a GOLFS process: run of cmd/golfs/main.go up to the        *)
(* listeners, where Lifecycle takes over.  The environment is loaded, and  *)
(* what it names is asked for, one thing after the other and all within    *)
(* Deadline: the App at GitHub, each allowed installation, the bucket      *)
(* (Validate of internal/forge/github/github.go and of                     *)
(* internal/storage/s3store/s3store.go).  What is asked for may change     *)
(* meanwhile, and GitHub and S3, modelled from how the code uses them, may *)
(* never answer.  With a bucket that was checked all is "validated"; when  *)
(* the listeners are started, the start is "over", and nothing of it is    *)
(* kept here.                                                              *)
(***************************************************************************)
EXTENDS Config, FiniteSets

CONSTANTS
  Environments,   \* the environments considered
  Installation,   \* the installations there are
  Facts,          \* what may be true of GitHub and S3 at first
  MaxId,          \* bound on the numbers of installations
  HttpTimeout,    \* of the client towards GitHub
  Deadline,       \* of everything asked
  MaxChanges      \* bound on the changes at GitHub and S3

ASSUME StartupAssumption ==
  /\ {HttpTimeout, Deadline, MaxId} \subseteq Nat \ {0}
  /\ Installation \subseteq 1..MaxId
  /\ MaxChanges \in Nat

\* What the variables of an environment may be, each of them also absent in
\* one way or another.  The allowlist is as it comes apart at its commas.
Absent == {Unset, Blank, Word}
Address == [host : STRING, port : STRING]
Id == {n \in Int : n <= MaxId}

Environment ==
  [public_url : URL \cup Absent, s3_endpoint : URL \cup Absent,
   http_addr : Address \cup Absent, admin_addr : Address \cup Absent,
   client_id : STRING \cup Absent, private_key : STRING \cup Absent,
   s3_region : STRING \cup Absent, s3_bucket : STRING \cup Absent,
   allowed : {Unset, Blank} \cup Seq(Id \cup Absent),
   dev_allow_http : BOOLEAN \cup Absent, s3_use_path_style : BOOLEAN \cup Absent,
   presign_ttl : Int \cup Absent, max_object_size : Int \cup Absent,
   log_level : STRING \cup Absent]

ASSUME EnvironmentsAssumption ==
  /\ Environments \subseteq Environment
  /\ Unset # Blank /\ Unset # Word /\ Blank # Word
  /\ Absent \cap (URL \cup Address \cup STRING \cup BOOLEAN \cup Int) = {}
  /\ Absent \cap LogLevels = {}      \* which are strings, as is what makes up
  /\ {DefaultHTTPAddress, DefaultAdminAddress} \subseteq Address

VARIABLES
  env,      \* the environment, which stays
  cfg,      \* what Load made of it
  at,       \* where the start is, see Stages
  next,     \* the entry of the allowlist asked for
  waited,   \* since the deadline was set
  sent,     \* when the request underway was sent
  facts,    \* what is true at GitHub and S3
  seen,     \* and what was at some moment since the start (history)
  changes

starting == <<env, cfg, at, next, waited, sent, facts, seen, changes>>

Asking == {"app", "installation", "bucket"}
Stages == Asking \cup {"load", "github", "validated", "stopped", "over"}

\* The App the key belongs to, and the one each installation is of; of an
\* "unnamed" one, ours or not, GitHub's answers leave the client ID out.
App == {"ours", "another", "unnamed", "none"}
FactSets == [app : App, of : [Installation -> App], bucket : BOOLEAN]

ASSUME FactsAssumption == Facts \subseteq FactSets

StartupInit ==
  /\ env \in Environments
  /\ cfg = Refused
  /\ at = "load"
  /\ next = 1
  /\ waited = 0 /\ sent = 0
  /\ facts \in Facts
  /\ seen = {facts}
  /\ changes = 0

-----------------------------------------------------------------------------
LoadConfig ==
  /\ at = "load"
  /\ cfg' = Load(env)
  /\ at' = IF cfg' = Refused THEN "stopped" ELSE "github"
  /\ UNCHANGED <<env, next, waited, sent, facts, seen, changes>>

\* The request goes out, with all that is left of the deadline.
Ask(stage, n) == at' = stage /\ next' = n /\ sent' = waited

\* github.New parses the key; s3store.New asks nobody.
NewClients ==
  /\ at = "github"
  /\ IF cfg.key = Word THEN at' = "stopped" /\ UNCHANGED <<next, sent>> ELSE Ask("app", 1)
  /\ UNCHANGED <<env, cfg, waited, facts, seen, changes>>

\* GitHub's answer about something of app a: a client ID, nothing in its
\* place, or an error.
Answers(a) ==
  CASE a = "ours" -> {"ours"}
    [] a = "unnamed" -> {"left out"}
    [] a = "another" -> {"another", "error"}
    [] OTHER -> {"error"}

\* (mutant) An answer is enough.
MatchesAny(answer) == answer # "error"

\* client_id is absent or the configured one.
Matches(answer) == answer \in {"ours", "left out"}

\* (mutant) The answer is taken to be about what was asked for.
SameIdAny(i, id) == TRUE

\* The installation described is the one asked for.
SameId(i, id) == i = id

Stop == at' = "stopped" /\ UNCHANGED <<next, sent>>

\* (mutants) The first is taken for the last; one more than there are.
AfterInstallationOne(n) == Ask("bucket", n)

AfterInstallationAll(n) ==
  IF n <= Len(cfg.allowed) THEN Ask("installation", n + 1) ELSE Ask("bucket", n)

AfterInstallation(n) ==
  IF n < Len(cfg.allowed) THEN Ask("installation", n + 1) ELSE Ask("bucket", n)

\* GET /app.
AppAnswered ==
  /\ at = "app"
  /\ \E answer \in Answers(facts.app) :
       IF Matches(answer) THEN Ask("installation", 1) ELSE Stop
  /\ UNCHANGED <<env, cfg, waited, facts, seen, changes>>

\* GET /app/installations/<id>, to which some installation is described.
InstallationAnswered ==
  /\ at = "installation"
  /\ \E i \in Installation : \E answer \in Answers(facts.of[i]) :
       IF SameId(i, cfg.allowed[next]) /\ Matches(answer)
       THEN AfterInstallation(next) ELSE Stop
  /\ UNCHANGED <<env, cfg, waited, facts, seen, changes>>

\* HeadBucket.
BucketAnswered ==
  /\ at = "bucket"
  /\ IF facts.bucket THEN at' = "validated" /\ UNCHANGED <<next, sent>> ELSE Stop
  /\ UNCHANGED <<env, cfg, waited, facts, seen, changes>>

\* The network fails, or there is nothing of what is asked for.
AskFails ==
  /\ at \in Asking
  /\ Stop
  /\ UNCHANGED <<env, cfg, waited, facts, seen, changes>>

\* (mutant) The bucket is asked for with a context of its own.
ExpiredNever == at # "bucket" /\ (waited = Deadline \/ waited = sent + HttpTimeout)

\* The client towards GitHub has a timeout too, the one towards S3 has not.
Expired == waited = Deadline \/ (at # "bucket" /\ waited = sent + HttpTimeout)

TimeOut ==
  /\ at \in Asking
  /\ Expired
  /\ Stop
  /\ UNCHANGED <<env, cfg, waited, facts, seen, changes>>

StartupTick ==
  /\ at \in Asking
  /\ ~Expired
  /\ waited < Deadline
  /\ waited' = waited + 1
  /\ UNCHANGED <<env, cfg, at, next, sent, facts, seen, changes>>

\* The App is given up or its key revoked, installed and uninstalled; the
\* bucket comes and goes.
Change ==
  /\ at \in Asking
  /\ changes < MaxChanges
  /\ changes' = changes + 1
  /\ \/ \E a \in App : facts' = [facts EXCEPT !.app = a]
     \/ \E i \in Installation, a \in App : facts' = [facts EXCEPT !.of[i] = a]
     \/ facts' = [facts EXCEPT !.bucket = ~@]
  /\ seen' = seen \cup {facts'}
  /\ UNCHANGED <<env, cfg, at, next, waited, sent>>

Start == LoadConfig \/ NewClients \/ TimeOut

StartupNext ==
  \/ Start \/ StartupTick \/ Change \/ AskFails
  \/ AppAnswered \/ InstallationAnswered \/ BucketAnswered

\* The listeners are started: of all this nothing is asked again.
StartupOver ==
  /\ at = "validated"
  /\ at' = "over"
  /\ env' = Unset /\ cfg' = Refused
  /\ next' = 1 /\ waited' = 0 /\ sent' = 0
  /\ facts' = Unset /\ seen' = {} /\ changes' = 0

-----------------------------------------------------------------------------
StartupTypeOK ==
  /\ at \in Stages
  /\ cfg # Refused => cfg = Load(env) /\ next \in 1..Len(cfg.allowed)
  /\ waited \in 0..Deadline /\ sent \in 0..waited
  /\ at # "over" => facts \in FactSets /\ seen \subseteq FactSets /\ facts \in seen
  /\ changes \in 0..MaxChanges

\* What docs/content/docs/configuration.md says of the variables (:12-35), of
\* what is set or else of the default; a query or fragment that is empty
\* counts as none, and the key is parsed later, by github.New.
Documented(e) ==
  LET schemes == {"https"} \cup (IF e.dev_allow_http = TRUE THEN {"http"} ELSE {})
      absolute(u) == u \in URL /\ u.scheme \in schemes /\ u.host
      listeners == {EnvOr(e.http_addr, DefaultHTTPAddress), EnvOr(e.admin_addr, DefaultAdminAddress)}
      required == {"client_id", "private_key", "s3_region", "s3_bucket", "allowed"}
  IN  /\ \A v \in required : e[v] \notin {Unset, Blank}
      /\ absolute(e.public_url) /\ ~e.public_url.user
      /\ "some" \notin {e.public_url.path, e.public_url.query, e.public_url.fragment}
      /\ absolute(e.s3_endpoint)
      /\ e.allowed # <<>> /\ ToSet(e.allowed) \subseteq 1..MaxId
      /\ Cardinality(listeners) = 2
      /\ EnvOr(e.presign_ttl, 1) \in 1..MaxPresignTTL
      /\ EnvOr(e.max_object_size, 1) \in 1..MaximumMaxObjectSize
      /\ EnvOr(e.log_level, "info") \in {"debug", "info", "warn", "error"}

\* What that document leaves out and only the code asks, in the words of its
\* messages: no credentials, query or fragment in the S3 endpoint
\* (config.go:159), no ID twice (:206), "host:port" listeners (:134, :137),
\* and flags that parse (:227).
SaidOnRefusal(e) ==
  /\ ~e.s3_endpoint.user /\ "some" \notin {e.s3_endpoint.query, e.s3_endpoint.fragment}
  /\ Cardinality(ToSet(e.allowed)) = Len(e.allowed)
  /\ {Blank, Word} \cap {e.http_addr, e.admin_addr} = {}
  /\ {EnvOr(e.dev_allow_http, FALSE), EnvOr(e.s3_use_path_style, FALSE)} \subseteq BOOLEAN

\* The level "warning", which is not documented, read as "warn".
WarnForWarning(e) == [e EXCEPT !.log_level = IF @ = "warning" THEN "warn" ELSE @]

(***************************************************************************)
(* An environment is accepted if and only if it is as documented and meets *)
(* the four conditions that only the error messages state, but for the     *)
(* level "warning", which is accepted and not documented (config.go:262,   *)
(* docs/content/docs/configuration.md:33): no check is missed for the      *)
(* order of the checks, for a default that collides with what is set, or   *)
(* for values that differ as text only (config.go:72-188).                 *)
(***************************************************************************)
AcceptedAsDocumented ==
  at \notin {"load", "over"} =>
    (cfg # Refused <=> Documented(WarnForWarning(env)) /\ SaidOnRefusal(env))

\* What GitHub describes without naming an App but ours.
Own == {"ours", "unnamed"}

(***************************************************************************)
(* A process listens only if, since it was started, the App of its key was *)
(* its own, each single installation it allows was installed, under that   *)
(* very number, of that App, and its bucket was there, at one moment or    *)
(* another (main.go:76-83, github.go:105-129;                              *)
(* docs/content/docs/configuration.md:40, "Readiness becomes true only     *)
(* after these checks succeed").  What GitHub describes without a client   *)
(* ID passes for its own (github.go:112, 124).                             *)
(***************************************************************************)
ReadyIsValidated ==
  at = "validated" =>
    /\ \E f \in seen : f.app \in Own
    /\ \A n \in DOMAIN cfg.allowed :
         cfg.allowed[n] \in Installation /\ \E f \in seen : f.of[cfg.allowed[n]] \in Own
    /\ \E f \in seen : f.bucket
=============================================================================
