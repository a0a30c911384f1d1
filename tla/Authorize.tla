----------------------------- MODULE Authorize -----------------------------
(***************************************************************************)
(* How a request is authorized: h.authorize (internal/lfs/handler.go),     *)
(* the per-process cache (AuthCacheData) and Authorize of                  *)
(* internal/forge/github/github.go, against a GitHub whose repositories    *)
(* are renamed, installed and shared while the questions are underway.     *)
(*                                                                         *)
(* A fresh authorization asks GitHub, one request after the other, each    *)
(* answered at some moment between sending and receiving:                  *)
(*   "installation"  which installation is the path in?  Is it allowed?    *)
(*   "membership"    is it among those the user can access?  The list has  *)
(*                   pages, one request each, up to MaxPages of them.      *)
(*   "repository"    which repository is at the path; what may the user?   *)
(* A request not answered HttpTimeout after it was sent fails.  Steps that *)
(* wait for nothing take no time: the clock stands while one is pending.   *)
(* GitHub and its answers are modelled from how github.go uses them.       *)
(***************************************************************************)
EXTENDS Integers, FiniteSets

CONSTANTS
  Request,
  Token, Path,
  Repo, Installation,
  Allowed,         \* the operator's allowlist of installations
  Initial,         \* what may be true at GitHub at first
  Capacity, TTL,   \* of the cache
  MaxPages,        \* most pages of the user's installations that are read
  HttpTimeout,     \* client timeout towards GitHub
  MaxTime,         \* bound on the clock
  MaxChanges,      \* bound on the changes made at GitHub
  None

ASSUME AllowedAssumption == Allowed \subseteq Installation
ASSUME LimitsAssumption ==
  /\ Capacity \in Nat \ {0} /\ TTL \in Nat \ {0}    \* authcache.New
  /\ HttpTimeout \in Nat \ {0}
  /\ MaxPages \in Nat \ {0}
  /\ MaxTime \in Nat
  /\ MaxChanges \in Nat

PermissionNone == 0
PermissionRead == 1
PermissionWrite == 2
Permission == PermissionNone..PermissionWrite

Authorization == [repo : Repo, perm : Permission]

ASSUME NoneAssumption == None \notin Authorization

Cache == INSTANCE AuthCacheData WITH Key <- Token \X Path, Value <- Authorization

VARIABLES
  now,
  github,   \* what is true at GitHub, see GitHubStates
  ended,    \* ended[f]: when fact f last ceased to be true (history)
  changes,  \* how many changes were made at GitHub
  cache,    \* the process's cache
  req       \* req[q]: a request being authorized, see Idle

vars == <<now, github, ended, changes, cache, req>>

-----------------------------------------------------------------------------
(* GitHub                                                                  *)

GitHubStates ==
  [at     : [Path -> Repo],                        \* the repository at a path
   inst   : [Repo -> Installation \cup {None}],    \* where it is installed
   member : SUBSET (Token \X Installation),        \* who can access which
   perm   : [Token \X Repo -> Permission]]

ASSUME InitialAssumption == Initial \subseteq GitHubStates

\* The facts an authorization rests on.
AtFact(p, r)      == <<"at", p, r>>
InstFact(p, i)    == <<"inst", p, i>>
HomeFact(r, i)    == <<"home", r, i>>
MemberFact(t, i)  == <<"member", t, i>>
PermFact(t, r, m) == <<"perm", t, r, m>>

True(g) ==
  {AtFact(p, g.at[p]) : p \in Path}
    \cup {InstFact(p, g.inst[g.at[p]]) : p \in Path}
    \cup {HomeFact(r, g.inst[r]) : r \in Repo}
    \cup {MemberFact(m[1], m[2]) : m \in g.member}
    \cup {PermFact(t, r, g.perm[<<t, r>>]) : t \in Token, r \in Repo}

Fact ==
  {AtFact(p, r) : p \in Path, r \in Repo}
    \cup {InstFact(p, i) : p \in Path, i \in Installation \cup {None}}
    \cup {HomeFact(r, i) : r \in Repo, i \in Installation \cup {None}}
    \cup {MemberFact(t, i) : t \in Token, i \in Installation}
    \cup {PermFact(t, r, m) : t \in Token, r \in Repo, m \in Permission}

Never == -1

\* f ceased to be true, and was true, at some moment after now - d.
EndedWithin(f, d) == ended[f] # Never /\ now - ended[f] < d
HeldWithin(f, d) == f \in True(github) \/ EndedWithin(f, d)

Becomes(g) ==
  /\ g # github
  /\ github' = g
  /\ ended' = [f \in Fact |-> IF f \in True(github) \ True(g) THEN now ELSE ended[f]]

\* Renaming, installing, adding and removing users and their permissions.
GitHubChange ==
  /\ changes < MaxChanges
  /\ changes' = changes + 1
  /\ \/ \E p \in Path, r \in Repo : Becomes([github EXCEPT !.at[p] = r])
     \/ \E r \in Repo, i \in Installation \cup {None} :
          Becomes([github EXCEPT !.inst[r] = i])
     \/ \E m \in Token \X Installation :
          \/ Becomes([github EXCEPT !.member = @ \cup {m}])
          \/ Becomes([github EXCEPT !.member = @ \ {m}])
     \/ \E m \in Token \X Repo, p \in Permission :
          Becomes([github EXCEPT !.perm[m] = p])
  /\ UNCHANGED <<now, cache, req>>

-----------------------------------------------------------------------------
(* The request                                                             *)

InFlight == {"installation", "membership", "repository"}

\* at: where it stands; sent: when its request to GitHub left; answer:
\* GitHub's, until received; page: of the installations; auth: the result.
Idle == [at |-> "idle", token |-> None, path |-> None, sent |-> 0,
         answer |-> None, inst |-> None, page |-> 0, auth |-> None]

CacheKey(q) == <<req[q].token, req[q].path>>

Init ==
  /\ now = 0
  /\ github \in Initial
  /\ ended = [f \in Fact |-> Never]
  /\ changes = 0
  /\ cache = Cache!EmptyCache
  /\ req = [q \in Request |-> Idle]

\* authorize, lines 373-378: answered by the cache.
Hit(q, t, p) ==
  /\ req[q] = Idle
  /\ Cache!Fresh(cache, <<t, p>>, now)
  /\ cache' = Cache!AfterHit(cache, <<t, p>>)
  /\ req' = [req EXCEPT ![q] =
       [Idle EXCEPT !.at = "granted", !.token = t, !.path = p,
                    !.auth = cache.items[<<t, p>>].value]]
  /\ UNCHANGED <<now, github, ended, changes>>

\* authorize, lines 379-382, and Authorize up to its first request.
Miss(q, t, p) ==
  /\ req[q] = Idle
  /\ ~Cache!Fresh(cache, <<t, p>>, now)
  /\ cache' = Cache!AfterMiss(cache, <<t, p>>)
  /\ req' = [req EXCEPT ![q] =
       [Idle EXCEPT !.at = "installation", !.token = t,
                    !.path = p, !.sent = now]]
  /\ UNCHANGED <<now, github, ended, changes>>

\* What GitHub may answer; None is 404.  A page of the user's installations
\* shows the one sought, or does not and has a next page ("more"); the last
\* page without it ends in Fail.  What is on which page is not modelled, and
\* moves while the pages are read.
\* A repository the user has no permission on may or may not be visible.
Answers(q) ==
  LET t == req[q].token
      r == github.at[req[q].path]
      m == github.perm[<<t, r>>]
  IN  [installation |-> {<<github.inst[r]>>},
       membership   |-> {<<"more">>}
                          \cup {<<"found">> : i \in {req[q].inst} \cap
                                  {j \in Installation : <<t, j>> \in github.member}},
       repository   |-> {<<[repo |-> r, perm |-> m]>>}
                          \cup {<<None>> : n \in {m} \cap {PermissionNone}}]

\* GitHub decides its answer; it is still to be received.
GitHubAnswers(q) ==
  /\ req[q].at \in InFlight
  /\ req[q].answer = None
  /\ \E a \in Answers(q)[req[q].at] : req' = [req EXCEPT ![q].answer = a]
  /\ UNCHANGED <<now, github, ended, changes, cache>>

Received(q, at) == req[q].at = at /\ req[q].answer # None

Answer(q) == req[q].answer[1]

\* (mutant) Any installation of the App will do.
AdmittedAny(i) == i # None

\* Lines 148-156.  No installation (404) is refused too; the client ID checked
\* as well is the App's own in every answer to the App's JWT.
Admitted(i) == i \in Allowed

\* Each next request goes out as soon as the answer before is in.
Ask(q, at, inst, page) ==
  req' = [req EXCEPT ![q].at = at, ![q].sent = now, ![q].answer = None,
                     ![q].inst = inst, ![q].page = page]

ReceiveInstallation(q) ==
  /\ Received(q, "installation")
  /\ Admitted(Answer(q))
  /\ Ask(q, "membership", Answer(q), 1)
  /\ UNCHANGED <<now, github, ended, changes, cache>>

\* (mutant) The loop runs once too often.
MorePagesOnce(n) == n <= MaxPages

MorePages(n) == n < MaxPages

\* userCanAccessInstallation, loop: not on this page, there is another.
ReceivePage(q) ==
  /\ Received(q, "membership")
  /\ Answer(q) = "more"
  /\ MorePages(req[q].page)
  /\ Ask(q, "membership", req[q].inst, req[q].page + 1)
  /\ UNCHANGED <<now, github, ended, changes, cache>>

ReceiveMembership(q) ==
  /\ Received(q, "membership")
  /\ Answer(q) = "found"
  /\ Ask(q, "repository", req[q].inst, 0)
  /\ UNCHANGED <<now, github, ended, changes, cache>>

\* (mutant) The result is assigned to a variable of an inner scope.
ReceiveRepositoryShadowed(q) ==
  /\ Received(q, "repository")
  /\ Answer(q) # None
  /\ req' = [req EXCEPT ![q].at = "put", ![q].answer = None]
  /\ UNCHANGED <<now, github, ended, changes, cache>>

ReceiveRepository(q) ==
  /\ Received(q, "repository")
  /\ Answer(q) # None
  /\ req' = [req EXCEPT ![q].at = "put", ![q].auth = Answer(q), ![q].answer = None]
  /\ UNCHANGED <<now, github, ended, changes, cache>>

\* authorize, line 386.  Between the answer and this step other requests
\* may have put newer, or older, answers under the same key.
Put(q) ==
  /\ req[q].at = "put"
  /\ cache' = Cache!AfterPut(cache, CacheKey(q), req[q].auth, now)
  /\ req' = [req EXCEPT ![q].at = "granted"]
  /\ UNCHANGED <<now, github, ended, changes>>

\* A check fails (of the token's class, before the first request, or of an
\* answer), or the request does (any error, or the timeout): nothing is
\* cached and the client gets the error.
Fail(q) ==
  /\ req[q].at \in InFlight
  /\ req' = [req EXCEPT ![q] = Idle]
  /\ UNCHANGED <<now, github, ended, changes, cache>>

\* The handler uses the authorization and is done.
Finish(q) ==
  /\ req[q].at = "granted"
  /\ req' = [req EXCEPT ![q] = Idle]
  /\ UNCHANGED <<now, github, ended, changes, cache>>

Tick ==
  /\ now < MaxTime
  /\ \A q \in Request :
       \/ req[q] = Idle
       \/ req[q].at \in InFlight /\ now < req[q].sent + HttpTimeout
  /\ now' = now + 1
  /\ UNCHANGED <<github, ended, changes, cache, req>>

Step(q) ==
  \/ \E t \in Token, p \in Path : Hit(q, t, p) \/ Miss(q, t, p)
  \/ GitHubAnswers(q)
  \/ ReceiveInstallation(q)
  \/ ReceivePage(q)
  \/ ReceiveMembership(q)
  \/ ReceiveRepository(q)
  \/ Put(q) \/ Fail(q) \/ Finish(q)

Next == GitHubChange \/ Tick \/ \E q \in Request : Step(q)

Spec == Init /\ [][Next]_vars

-----------------------------------------------------------------------------
Granted(q) == req[q].at = "granted"

TypeOK ==
  /\ now \in 0..MaxTime
  /\ github \in GitHubStates
  /\ ended \in [Fact -> Never..MaxTime]
  /\ changes \in 0..MaxChanges
  /\ Cache!IsCache(cache) /\ Cache!Linked(cache)
  /\ \A q \in Request :
       /\ req[q].at \in InFlight \cup {"idle", "put", "granted"}
       /\ req[q].auth \in Authorization \cup {None}
       /\ Granted(q) => req[q].auth # None

(***************************************************************************)
(* However requests interleave and whatever they put into the cache over   *)
(* each other, a request is granted only a permission on a repository that *)
(* the user had there, at that path, less than TTL + HttpTimeout ago: the  *)
(* lifetime counts from the Put, the answer may be HttpTimeout older       *)
(* (handler.go:382-386).                                                   *)
(***************************************************************************)
PermissionRecent ==
  \A q \in Request : Granted(q) =>
    LET g == req[q]
        d == TTL + HttpTimeout
    IN  /\ HeldWithin(PermFact(g.token, g.auth.repo, g.auth.perm), d)
        /\ HeldWithin(AtFact(g.path, g.auth.repo), d)

(***************************************************************************)
(* And only where the path was in an installation on the allowlist, and    *)
(* that very installation open to the user, not much longer ago: three     *)
(* reads of GitHub, with any number of changes between them and up to      *)
(* MaxPages requests in the second (github.go:145-174).                    *)
(***************************************************************************)
InstallationRecent ==
  \A q \in Request : Granted(q) =>
    \E i \in Allowed :
      /\ HeldWithin(InstFact(req[q].path, i), TTL + (2 + MaxPages) * HttpTimeout)
      /\ HeldWithin(MemberFact(req[q].token, i), TTL + 2 * HttpTimeout)

(***************************************************************************)
(* The repository granted was itself in an installation on the allowlist,  *)
(* or else its path has ceased, no longer ago, to name one that was: the   *)
(* path is read first and last, and nothing compares what it names         *)
(* (github.go:145, 174).  So a renaming between the two, and only one,     *)
(* lets a repository be granted that never was where the allowlist admits, *)
(* unlike docs/content/docs/security.md:31, "that same repository          *)
(* installation".                                                          *)
(***************************************************************************)
RepositoryAdmitted ==
  \A q \in Request : Granted(q) =>
    LET d == TTL + (2 + MaxPages) * HttpTimeout
    IN  \E i \in Allowed, r \in Repo :
          /\ HeldWithin(HomeFact(r, i), d)
          /\ r = req[q].auth.repo \/ EndedWithin(AtFact(req[q].path, r), d)

(***************************************************************************)
(* docs/content/docs/security.md:53: "Per-process cache invalidation is    *)
(* bounded by 60 seconds."  No permission is granted TTL or more after it  *)
(* ended.  Not so: the lifetime counts from the Put (handler.go:386), and  *)
(* the permission may have ended since GitHub answered.                    *)
(***************************************************************************)
InvalidatedWithinTTL ==
  \A q \in Request : Granted(q) =>
    HeldWithin(PermFact(req[q].token, req[q].auth.repo, req[q].auth.perm), TTL)
=============================================================================
