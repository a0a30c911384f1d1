------------------------------- MODULE Config -------------------------------
(***************************************************************************)
(* What GOLFS makes of its environment: Load and Validate of               *)
(* internal/config/config.go, with the allowlist of internal/forge/github. *)
(*                                                                         *)
(* An environment is a record with a field for each variable.  Its values  *)
(* are abstract: Unset (or empty), Blank (white space), Word (what does    *)
(* not parse) or what parsing makes of it.                                 *)
(***************************************************************************)
EXTENDS Integers, SequencesExt

CONSTANTS
  Unset, Blank, Word,
  DefaultPresignTTL, MaxPresignTTL,
  MaximumMaxObjectSize               \* also the default

ASSUME DefaultsAssumption ==
  /\ MaximumMaxObjectSize \in Nat \ {0}
  /\ MaxPresignTTL \in Nat
  /\ DefaultPresignTTL \in 1..MaxPresignTTL

Refused == [refused |-> TRUE]

-----------------------------------------------------------------------------
(* URLs and addresses                                                      *)

\* A query or a fragment is absent, or "empty": the delimiter and no more.
Part == {"none", "empty", "some"}

URL == [scheme : {"https", "http", "ftp", ""}, host : BOOLEAN, user : BOOLEAN,
        path : {"none", "root", "some"}, query : Part, fragment : Part]

\* TrimRight(value, "/"): what ends in the path loses its trailing slashes.
Trimmed(u) ==
  IF u \in URL /\ u.path = "root" /\ u.query = "none" /\ u.fragment = "none"
  THEN [u EXCEPT !.path = "none"] ELSE u

\* (mutant) User information is let through.
AbsoluteAny(u) ==
  /\ u.scheme # "" /\ u.host
  /\ u.query # "some" /\ u.fragment # "some"

\* An absolute URL without credentials; RawQuery and Fragment are "" for a
\* delimiter with nothing behind it as well.
Absolute(u) ==
  /\ u.scheme # "" /\ u.host
  /\ ~u.user
  /\ u.query # "some" /\ u.fragment # "some"

SchemeAllowed(u, allowHTTP) == u.scheme = "https" \/ (allowHTTP /\ u.scheme = "http")

DefaultHTTPAddress == [host |-> "", port |-> "8080"]
DefaultAdminAddress == [host |-> "", port |-> "9090"]

-----------------------------------------------------------------------------
(* Loading                                                                 *)

\* envOrDefault, envBool, envDuration, envInt64, parseLogLevel: the default
\* for what is unset, else the value, which may be one that does not parse.
EnvOr(value, fallback) == IF value = Unset THEN fallback ELSE value

Parsed(value) == value \notin {Blank, Word}

DevAllowHTTP(env) == EnvOr(env.dev_allow_http, FALSE)
PathStyle(env)    == EnvOr(env.s3_use_path_style, FALSE)
PresignTTL(env)   == EnvOr(env.presign_ttl, DefaultPresignTTL)
ObjectSize(env)   == EnvOr(env.max_object_size, MaximumMaxObjectSize)
LogLevel(env)     == EnvOr(env.log_level, "info")
LogLevels == {"debug", "info", "warn", "warning", "error"}

\* parseGitHubAllowedInstallationIDs and validateGitHubAllowedInstallationIDs,
\* for a list already split at its commas: entries that are numbers, positive
\* and all different; "01" is the number 1.
AllowlistValid(ids) ==
  /\ ids \notin {Unset, Blank}
  /\ ids # <<>>
  /\ \A n \in DOMAIN ids : Parsed(ids[n]) /\ ids[n] # Unset /\ ids[n] > 0
  /\ IsInjective(ids)

Loads(env) ==
  /\ AllowlistValid(env.allowed)
  /\ Parsed(DevAllowHTTP(env)) /\ Parsed(PathStyle(env))
  /\ Parsed(PresignTTL(env)) /\ Parsed(ObjectSize(env)) /\ Parsed(LogLevel(env))
  /\ LogLevel(env) \in LogLevels

Given(value) == value \notin {Unset, Blank}

Required == {"publicURL", "clientID", "key", "endpoint", "region", "bucket"}

\* Validate.
Valid(cfg) ==
  /\ \A v \in Required : Given(cfg[v])
  /\ cfg.http # cfg.admin
  /\ {cfg.http, cfg.admin} \cap {Blank, Word} = {}   \* net.SplitHostPort
  /\ cfg.publicURL # Word /\ Absolute(cfg.publicURL)
  /\ cfg.publicURL.path \in {"none", "root"}
  /\ SchemeAllowed(cfg.publicURL, cfg.allowHTTP)
  /\ cfg.endpoint # Word /\ Absolute(cfg.endpoint)
  /\ SchemeAllowed(cfg.endpoint, cfg.allowHTTP)
  /\ cfg.ttl \in 1..MaxPresignTTL
  /\ cfg.maxSize \in 1..MaximumMaxObjectSize

Configuration(env) ==
  [publicURL |-> Trimmed(env.public_url), endpoint |-> Trimmed(env.s3_endpoint),
   http |-> EnvOr(env.http_addr, DefaultHTTPAddress),
   admin |-> EnvOr(env.admin_addr, DefaultAdminAddress),
   clientID |-> env.client_id, key |-> env.private_key,
   region |-> env.s3_region, bucket |-> env.s3_bucket,
   allowed |-> env.allowed, allowHTTP |-> DevAllowHTTP(env),
   pathStyle |-> PathStyle(env), ttl |-> PresignTTL(env),
   maxSize |-> ObjectSize(env), level |-> LogLevel(env)]

Load(env) ==
  IF Loads(env) /\ Valid(Configuration(env)) THEN Configuration(env) ELSE Refused

=============================================================================
