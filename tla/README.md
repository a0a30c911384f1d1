# A verification project for GOLFS

GOLFS is a Git LFS server that never touches object bodies. It authorizes each
request against GitHub, asks an S3 bucket what it holds with `HeadObject`, and
hands out presigned URLs with which the client transfers the bytes itself. This
directory models it in TLA+, checks small instances with TLC and proves
theorems for all instances with TLAPS. Paths below are relative to the
repository unless they end in `.tla` or `.cfg`.

## 1. Inventory

| Component | State it keeps | Operations | Talks to |
| --- | --- | --- | --- |
| Authorization cache, `internal/authcache/cache.go` | map and LRU list under one mutex | `Get`, `Put` (expiry, eviction) | called by `authorize` from every request |
| LFS handler, `internal/lfs/handler.go` | none between requests | Batch, Verify, answering errors, recovering panics | cache, authorizer, object store; the client |
| Worker pool, `processObjects` in the handler | one batch: channel, workers, result slice | hand over, HEAD, fill slot, close, wait | object store |
| GitHub authorizer, `internal/forge/github/github.go` | a cached App JWT | `Authorize` (three reads, one of them in pages), `Validate` | GitHub |
| S3 store, `internal/storage/s3store/s3store.go` | none | `Head`, `PresignUpload`, `PresignDownload`, `Validate` | the bucket |
| Process, `cmd/golfs/main.go` | readiness flag, two listeners, two channels | start, serve, drain, exit | signals, the supervisor's probes |
| Configuration, `internal/config/config.go` | none | `Load`, `Validate`, once | the environment |
| Observability, `internal/observability/metrics.go` | counters; one status recorder per request | `Instrument`, `WriteHeader` | wraps every request |
| Chart, image, docs, CI | none | | |

What makes it hard, and what correctness means:

* **Nothing is remembered.** What a handler knows of the bucket is one HEAD
  answer, stale when it is used. Upload URLs are issued on its word, PUTs arrive
  late, twice or never, replies are lost and clients begin again. Correct means:
  an object is created once, by someone allowed to, with the bytes its OID
  names; nobody is told otherwise; and an honest client gets there.
* **Bodies are never seen.** Batch and Verify compare sizes only. That the bytes
  are right rests on the payload hash and `If-None-Match` signed into the URL.
* **Authorization is cached, and is three reads.** GitHub changes between them
  and during each; concurrent fills of a key land in any order. Correct means: a
  bound on how long a grant outlives the truth it rests on.
* **The cache is a map and a list** that must never disagree, bounded, with
  entries that hits do not keep alive.
* **The pool** shares a slice without a lock and must return exactly when every
  object has its own verdict; a panic in a worker is recovered by nobody.
* **Failures pass three layers** of error values before a client sees a status,
  and clients act on it: a 503 is tried again, a 401 sends for new credentials,
  a 404 gives up. Correct means that the status is as lasting as its cause. The
  delay told with a 429 crosses two clocks, a multiplication and two roundings.
* **Two clocks** decide whether GitHub accepts the App's JWT, which is reused
  until shortly before it ends.
* **The start** asks GitHub and S3 one question after the other, of facts that
  change, from services that may never answer.
* **The process** has readiness, listeners and signal handling switched on one
  after the other, and one deadline for draining both listeners.

`PROJECT.json` lists the hazards, each at its line with the properties that
cover it.

## 2. The modules

| Module | Models |
| --- | --- |
| `CacheContract` | what the program relies on of the cache: freshness and retention |
| `AuthCacheData` | the map and list, and what `Get` and `Put` make of them (operators only) |
| `AuthCache` | the cache under calls and a clock; implements `CacheContract` |
| `AuthCacheProofs` | lemmas about its operations, theorems about it |
| `ObjectRegistry` | a write-once register of objects |
| `Transfer` | Batch, Verify, HEAD, presigning, with bucket and clients; implements `ObjectRegistry` |
| `TransferProofs` | theorems about it |
| `BatchContract` | what Batch relies on of `processObjects` |
| `BatchPool` | `processObjects`; implements `BatchContract` |
| `BatchPoolProofs` | theorems about it |
| `Authorize` | `authorize` and the GitHub authorizer over `AuthCacheData` (INSTANCE) |
| `UserInstallations` | the search through the pages of a user's installations while the list changes |
| `Golfs` | `Authorize` with what follows it: bucket, response, URL, each with its time |
| `GolfsProofs` | theorems about it and about `Authorize` |
| `Responses` | what one request is answered: gates, GitHub, bucket, panics, the way out |
| `ResponsesProofs` | theorems about it |
| `RateLimit` | the delay told with a 429, and a client that obeys it |
| `GitHubProofs` | theorems about `UserInstallations` and about `RateLimit` |
| `AppJwt`, `AppJwtProofs` | the App's JWT and two clocks; theorems about it |
| `Config` | `Load` and `Validate` of the configuration (operators only) |
| `Startup` | the start up to the listeners, over `Config` |
| `Lifecycle` | `run` and `serve` of `cmd/golfs/main.go`, from `Startup` to the exit |
| `LifecycleProofs` | theorems about it |
| `MC*` | give the constants their values |

`Golfs` extends `Authorize`, and every step of it is a step of `Authorize` or
leaves its variables alone; `Lifecycle` extends `Startup`, which extends
`Config`; `AuthCacheData` is used by `AuthCache` and by `Authorize`. Where one
module takes a part of the system for a single step, another has its detail: the
pool (`BatchPool`) is one step of `Responses`, the pages (`UserInstallations`)
are counted but not filled in `Authorize` and `Responses`.

Operators marked `(mutant)` are plausible faults, at least one per property. They
are used nowhere; putting one in the place of the definition that follows it makes
TLC find that property violated. `PROJECT.json` pairs them up and maps every
definition that models code to its lines.

### How state and actions correspond to the code

**AuthCache.** A cache is a record `[items, lru]`. `Get` and `Put` hold `c.mu`
from their first access to the end, so each return path is one action: `GetHit`
(line 87), `GetMiss` (lines 79 and 84, the latter removing the expired entry),
`Put` (refresh or insert-and-evict). `last` and `newer` are history variables:
the last Put of a key, and the keys used since a key's own last use. A key
stands for the HMAC of token and lower-cased path, taken to be injective.

**Transfer.** One client has one job (operation, repository, OID, size, the body
it will really send, permission) and `phase` says where its attempt stands.
`BatchHead`/`BatchReply` and `VerifyHead`/`VerifyReply` split each handler at
the HEAD: the answer is held in `head` while everything else moves.
`UploadVerdict`, `DownloadVerdict` and `VerifyVerdict` are the handlers'
decisions. A PUT is `sent`, then `streaming` (its signed length was accepted),
and creates the object at its end if the key is free and the hash is right; each
client has several slots, so a PUT given up on can meet its own retry. The
length is signed unless it is 0 (`LengthSigned`), the hash always. Bytes are
named by their hash: an OID is also a body. Time is absent, a URL may expire
at any moment (`DropPut`). Permissions are constant here. A download of which
the response is lost is a new attempt.

**BatchPool.** `HandOver` is the meeting of sender and receiver on the
unbuffered channel; `HeadReturns` and `Finish` are `processObject` before and
after its answer; `Close`, `Exit` and `Return` are `close(jobs)`, the end of a
worker's range loop and `workers.Wait()`. `Panic` is a worker's panic with its
deferred `Done`, `Die` the end of the process that follows, later than a
`Return` perhaps.

**Authorize.** A request goes through `installation`, `membership` (a page at a
time) and `repository`, each sent at one moment, answered by GitHub at another
and received at a third, then `put` and `granted`. `GitHubChange` moves a
repository away from a path, an installation, a member or a permission at any
moment. `ended` records when a fact last ceased to be true. A request without an
answer after `HttpTimeout` has failed.

**UserInstallations.** GitHub cuts `list` into pages when asked; `Install` and
`Uninstall` change it between the rounds of the loop (`Read`). `Link` is the
header, `parseNext` takes its first link of relation "next".

**Golfs.** What `Authorize` has granted either suffices for the operation and
the bucket is asked (`AskBucket`, with `batch` for what the handler keeps), or
does not, or is for a Verify (`NoBatch`). `Grant` presigns a URL when the bucket
has answered, if the response still makes the server's `WriteTimeout`; from then
on only the bucket looks at it (`Working`). One URL is followed, since URLs do
not act on each other. A handler that has missed its deadline may stay, and can
only end.

**Responses.** `at` is the place in the handler. The gates are a table in the
order of the code (`Gates`); `AskGitHub` takes any reply to the question
underway and `Next200` or `GitHubError` say what follows; `ObjectCode` and
`VerifyStatus` are the verdicts on objects. A reply carries the rate limit that
GitHub enforces with it (`limit`), which is not what the code reads of it: only
a primary limit has `X-RateLimit-Remaining` at 0. `WriteHeader` is
`statusRecorder`'s, called by `Respond` and, after a panic, by `Recover`. A
panic may happen at any place; one in a worker of the pool ends the process,
after which nothing is followed here. All results of a Batch and its status are
one step; how they come about is `BatchPool`. The documented meaning of a status
is said in operators of its own (`BadCredential` to `ForNow`), each after its
line of the table in `docs/content/docs/operations.md`, and what the code
answers beyond it in `AppRefused` to `Unsigned`. `Rounds` is the loop over the
objects with its map of sizes, one round after the other.

**RateLimit.** A `Delay` is computed from the reply's headers on GOLFS's clock and
rounded by `RetryAfter`; the client waits as told. The product
`time.Duration(seconds) * time.Second` wraps beyond `MaxDuration` (`Wrap`), while
`time.Until` and `Duration.Round` stop there (`Until`, `Rounded`). GitHub's reset
and `Retry-After` cover what is left of the limit.

**AppJwt.** `Reuse` and `Sign` are the two ways through `signedAppJWT`, each one
step under `jwtMu`. `until` is `jwtExpires`, compared on the monotonic clock that
`time.Now` carries; `iat` and `exp` are whole seconds of the wall clock, which is
off by `skew` and may be set (`Adjust`) between two signatures.

**Config, Startup.** A value of the environment is unset, blank, something that
does not parse, or what parsing makes of it. `Load` is the code's, check by
check. `Startup` runs it, then asks for the App, each installation and the
bucket; `facts` is what is true there, `seen` everything that was. GitHub may
leave a client ID out of what it describes ("unnamed"), and may describe another
installation than the one asked for; the code trusts the first and checks the
second (`Matches`, `SameId`). `Documented` is written from
`docs/content/docs/configuration.md` alone, `SaidOnRefusal` from the error
messages that say what it leaves out. When the
listeners are started its variables are cleared (`StartupOver`), since nothing
reads them any more.

**Lifecycle.** `main` is the statement `run` is at, "startup" as long as the
steps are those of `Startup`; signals kill the process in that time. Each of
`ready.Store`, `signal.Notify`, the select and the two Shutdowns is a step of
its own, between which listeners bind or break, requests come and go, and
signals arrive.

## 3. The runs

| Run | Shows | Bounds, and why they are enough |
| --- | --- | --- |
| `auth_cache` | map and list agree (`ListMatchesMap`), list in order of use (`RecencyOrder`), contract kept (`ImplementsContract`) | 3 keys over capacity 2 so that evictions choose; TTL 2 over 4 ticks so that entries expire, are refreshed and expire again |
| `transfer` | `Integrity`, `CreatedByWriter`, `CreatedOnce`, `CompleteIsStored`, `DownloadIntact`, `ImplementsRegistry` | 2 clients with 2 PUTs each on the wire, 12 kinds of job: wrong bytes of the right length, wrong sizes, a size of 0, another repository, too little permission |
| `transfer_live` | `Convergence` | 2 clients racing for one object, one PUT each on the wire |
| `batch_pool` | `OwnVerdict`, `OneWorkerPerObject`, `ImplementsBatchContract` (safety and termination, with panics) | 0 to 4 objects over 3 workers: empty, smaller, equal and larger batches; any worker may panic over any object |
| `golfs` | `PermissionRecent`: a permission is granted less than TTL + HttpTimeout after it ended; `InstallationRecent`: the same for the installation, which is an allowed one; `RepositoryAdmitted`: only a renaming between two reads gets a repository past the allowlist; `RevocationBound`: a URL that works was given to a user who had the permission less than HttpTimeout + TTL + WriteTimeout + PresignTTL ago | 2 requests, so that one can live on what the other put into the cache, or put an older answer over it; every period one tick, but two for the cache's TTL, so that entries are hit later; 2 pages; 6 ticks reach every bound, and `PermissionRecent` and `RevocationBound` are tight (one less is violated). One change at GitHub, at any moment: each bound is about one fact that ceased to be true, and a fact that did so again only did so later; of any number of changes the theorems speak |
| `authorize_revoked` | violated (`InvalidatedWithinTTL`): the documented 60-second bound | see Findings |
| `user_installations` | `ResultIsTrue`: what is found was there, nothing listed all along is missed unless something else was removed, and only a list too long is given up | pages of 2, at most 3 of them, lists of 0 to 7, 2 changes: an entry can slip behind the reader, and a list be too long by one |
| `responses` | `TransientIsRetryable`, `Explained`, `ServedIsAuthorized`, `RecordedIsSent`, `ValidatedExactly` | every combination of faults of a request; every class of status at each of the 3 questions; 2 pages; all lists of up to 3 objects (of 3 OIDs and sizes -1 to 2), so that two in conflict need not be neighbours, and one list too long; a bucket that has the object or not, refuses (403), fails (503) or is silent |
| `rate_limit` | `ObedientClientGetsThrough`: one limit refuses a client that waits at most 3 times; `RetryAfterHonoured` | seconds of 4 ticks, so that halves are rounded; clocks up to a minute (of 4 s) apart either way; a longest Duration of 63 ticks, delays asked for that it holds and that wrap to 0, to a negative and to a small positive one, and a reset further away than it can tell. 3 is tight |
| `app_jwt` | `AcceptedWhenSeen` | seconds of 3 ticks, clocks from 2 ticks behind to 4 ahead, the extremes the assumption admits; 40 ticks are two lifetimes and more; 2 requests |
| `lifecycle` | `AcceptedAsDocumented`: an environment is accepted if and only if it is as documented, "warning" read as "warn", and meets the four conditions only the messages state; `ReadyIsValidated`; `StartupEnds`, `StopsWhenTold`, `ReadyComesTrue`; `SuccessIsClean`, `NothingCutEarly`, `UnreadyFirst` | every URL of `URL`, every pair of listeners' addresses, TTL and sizes on either side of each limit, lists with every kind of fault, up to two variables at a time; one change at GitHub or S3 during validation, allowlists of 1 to 3 entries; a deadline of twice the client's timeout; 2 requests per listener; a drain of 3 ticks |
| `lifecycle_signal` | violated (`SignalMakesUnready`): a signal makes a ready process unready | see Findings |

The type invariants of `AuthCache`, `Transfer` and `AppJwt` are proved only
(section 4); those of the other modules are invariants of the runs, `GolfsTypeOK`
with `Authorize`'s in it, and proved too.

`MaxTime`, `MaxChanges`, `MaxRequests`, `MaxId` and `Slot` bound counters in
guards and have no counterpart in the code. `MaxObjects` stands for
`MaximumBatchObjects`, `MaxPages` for the 100 rounds of the loop, `PerPage` for
`per_page=100`, `MaxDuration` for `math.MaxInt64` nanoseconds; these are small
in the runs, and so are all periods, of which only the order and the sums
matter. `CHECK_DEADLOCK FALSE` is used where the system stops: when all clients
are served or refused, when `processObjects` has returned, when a request is
answered, a list read, the client through its limit or the process gone. `golfs`
and `app_jwt` use symmetry of the requests, which differ in nothing; they check
only safety.

### Fairness, and why the code justifies it

* `Transfer`: a request in progress ends, for its client, who at the latest
  gives up on it (`RequestLost`, `GiveUpPut`); clients keep coming back with a
  Batch, and of infinitely many Batches, HEADs and PUTs some get through. This
  is the retry model of `docs/content/docs/architecture.md:44-49`, an assumption
  about clients, network and S3. Nothing is assumed of Verify.
* `BatchPool`: the Go scheduler runs every goroutine that can run and ends a
  process of which one panicked. That a HEAD returns is an assumption, which the
  code does not secure: the client towards S3 has no timeout (`s3store.go:64`),
  and the server's `WriteTimeout` does not end the request's context.
* `Lifecycle`: the main goroutine runs and time passes, during the start as
  during the drain, and `ListenAndServe` binds its address or fails to. Requests
  may take for ever, and neither GitHub nor S3 ever has to answer: the context's
  deadline is what ends the wait.

### Findings

* `authorize_revoked`. `docs/content/docs/security.md:53` bounds cache
  invalidation by 60 seconds. The lifetime counts from `Put`
  (`handler.go:386`); GitHub's answer may be up to its client timeout (15 s)
  older. `PermissionRecent` states the bound that does hold.
* `lifecycle_signal`. `docs/content/docs/operations.md:41` says that on SIGTERM
  the process first becomes unready and then drains. Between
  `ready.Store(true)` and `signal.Notify` (`main.go:119-123`) a signal ends it
  at once.

Not shown by a run of its own, but stated by a property that names it:

* `docs/content/docs/security.md:31` says that only installations on the
  allowlist are accepted and that the token is bound to "that same repository
  installation". The installation of the path is read first, the repository at
  the path last (`github.go:145`, `174`), and the two are not compared: if a
  rename or transfer falls in between, the repository granted may be of an
  installation that never was allowed. The user's own token can read it; the
  operator's allowlist has not admitted it. `RepositoryAdmitted` says that only
  such a renaming does this, and for how long; without its second alternative it
  is violated.
* `docs/content/docs/configuration.md:33` lists the levels `debug`, `info`, `warn`
  and `error`; `config.go:262` takes `warning` too (`WarnForWarning` in
  `AcceptedAsDocumented`).
* `Explained` has seven exceptions to the table of
  `docs/content/docs/operations.md:22-29`:
  * GitHub's 401 to the App's own JWT is told as the client's (`AppRefused`;
    `github.go:145`, `294`), where `:24` speaks of the client's credential only;
  * so is a status that `mapResponseError` does not know (`UnknownStatus`;
    `github.go:309`);
  * upload and Verify answer 403 to a user without any permission (`NoPull`;
    `handler.go:166`, `342`), where `:25` says that the user has pull permission
    and `:26` gives 404 for an inaccessible repository;
  * a secondary rate limit told by a 403, without `X-RateLimit-Remaining: 0`, is
    taken for a refusal and answered 404, which stops the client
    (`SecondaryLimit`; `github.go:297-300`), where
    `docs/content/docs/architecture.md:42` says that rate limits become 429;
  * a list of installations longer than 100 pages (`ListTooLong`;
    `github.go:229`) and a bucket that answers and refuses (`BucketRefuses`;
    `s3store.go:215`) are told as 503, where `:29` says "temporarily
    unavailable": clients try again for ever;
  * so is a presigning that fails (`Unsigned`; `handler.go:278`, `290`).

Contradicting nothing, but visible in the models:

* A worker's panic runs its deferred `Done` first, so `Wait` may return, and the
  handler begin to answer, with a slot that has no verdict, before the process
  ends (`handler.go:230`). `BatchContract` has this as a crash.
* An App or installation that GitHub describes without a client ID passes for
  one's own (`github.go:112`, `124`); `ReadyIsValidated` says so (`Own`).
* When a signal and the failure of a listener meet, select takes either; with the
  signal the listener's error is dropped, and the exit may be a success
  (`main.go:125`).
* A public URL that ends in a bare `?` or `#` is accepted, since `RawQuery` and
  `Fragment` are then empty (`config.go:144`); `Documented` counts such a query or
  fragment as none.
* A removal from the list of a user's installations while it is read can hide
  another for that one request (`ResultIsTrue` states exactly when).
* A `Retry-After` that overflows an int64 of nanoseconds may come out as a short
  delay, told again each time (`overlong`).

## 4. The proofs

Eight modules, for all values of the constants that satisfy their named
assumptions. Each has one inductive invariant, checked by TLC on the run's
instance before it was proved; what it adds to the properties is what makes them
inductive, and is said here.

`AuthCacheProofs` first states what each list and map operation returns: removing
a key from the list leaves an injective list of the other keys in their order,
moving to the front and pushing keep it injective, trimming restores the bound.
Then it proves `AuthCache!Inv` invariant. The properties are not
inductive alone: that eviction is justified (`ForgottenWithReason`) needs the
list in order of use, at its capacity, and matching the map; that a hit returns
the last Put needs `EntriesAreLastPuts`; counting `newer` needs it finite.
`TypeCorrect`, `ListAlwaysMatchesMap`, `ListAlwaysInOrder` follow, and
`CacheKeepsContract` shows each step to be a step of `CacheContract` or a stutter.

`TransferProofs` proves `Transfer!Inv` invariant. What makes it inductive: a
phase is reached only by clients the gates admit (`PhasesAdmitted`), only
uploaders with write permission have PUTs on the wire (`WireAdmitted`), and an
answer "found" stays true however old it is (`AnswersTrue`), because objects
never change. `TransferType`, `StoredBytesMatchKey`, `OnlyWritersCreate`,
`CompleteIsTrue`, `DownloadsAreIntact`, `NeverOverwritten` and
`TransferImplementsRegistry` follow.

`AppJwtProofs` proves that GitHub accepts the JWT of every request
(`AppJwtAccepted`). The claims say nothing of when a request left, so the
invariant relates both to `until`: of every JWT, that it ends late and begins
early enough whatever the wall clock showed (`Good`, shown for a new one by
`SignedIsGood`, where truncation to seconds costs up to a second); of every
request underway, that it left with `Margin` to go and no longer ago than
`HttpTimeout` (`Underway`). `SkewsAssumption` is what that needs of the wall
clock: with the code's durations and GitHub's limit of ten minutes, no more than
a minute ahead and no more than some 44 seconds behind.

`BatchPoolProofs`, for batches of any length and any number of workers. What a
worker holds was handed out (`HeldItems`); what was handed out has its verdict
or is held, and nothing else has one (`NoneLost`); the channel is closed after
the last index and `Return` comes after every worker's exit or panic
(`Closing`). `VerdictsAreOwn`, `WorkersNeverMeet`, `PoolType` follow, and
`PoolImplementsContract`: each step answers one object, returns with all of them
answered, crashes, or is hidden from `BatchContract`. What happens after a panic
is hidden behind the crash, so the refinement needs that the panic is never
survived. Of the termination of `processObjects` two theorems prove what is not
fairness. `PoolComesToAnEnd`: each step lowers `Work`, a natural number (three
steps for each object not handed out, the statements each worker is away from
its exit, and the sender from its), so no schedule goes on for ever.
`PoolNeverStuck`: before the return, or the end of the process, some guard
holds, of an empty batch too; the sender finds a worker that receives or one
that is busy, and waits for none that cannot exit.

`GolfsProofs`, for any periods, requests, users, repositories, pages and
capacity of the cache. `Since(f, x)` says that fact `f` was true at some moment
from `x` on; it stays true as time passes and GitHub changes. The invariant has
it of the facts behind every authorization wherever one is: of a request at each
of its stages, as much earlier as the requests since took (`RequestOK`, `Span`);
of an entry of the cache, relative to its Put (`EntryOK`, `Backed`); of a batch
that waits for the bucket and of the URL (`Entitled`). Of the repository the
path named at first it has that it is the one granted or that the path no longer
names it (`Admissible`), from the moment GitHub answers the last question on.
`PermissionIsRecent`, `InstallationIsRecent` and `RepositoryIsAdmitted` follow
of `Authorize`; `GolfsAuthorizes` shows that `Golfs` is an `Authorize`, so all
three hold there, and `RevocationIsBounded` adds the response and the URL. The
operations of the cache come in by the lemmas of `AuthCacheProofs`,
instantiated.

`GitHubProofs`, of the two modules about GitHub's answers. `UserInstallations`,
for lists, pages and numbers of pages of any size: while nothing was removed, a
target listed from the start is on the page asked for or on a later one
(`Ahead`), since an installation that is added moves it back, if at all.
`ConclusionIsTrue` needs besides that `listed` and `longest` are true of the
list as it is, and what insertion and removal make of a list (`InsertLemma`,
`RemoveLemma`). `RateLimit`, for any limits, headers, latencies and longest
Duration, and a clock of GOLFS's that is behind by anything or ahead by a minute
at most: `RetryAfterLemma` says that rounding loses less than a second of a
delay and never tells less than one; what it and `Wrap` need of division is
`QuotientLemma`. `DelayHonoured` follows. `ThreeRefusalsAtMost` counts by how
much a client may be early at its next try (`Within`): after the first refusal
by no more than what GOLFS's clock is ahead and what rounding lost, after the
second by a second less, since at least that is told; for GOLFS's clock the
reset is then over, and after the third refusal, with the minute that is told,
the client is not early at all. `ReplyCovers` and `AskedWithin` carry this
through a reply underway.

`LifecycleProofs`, for any environments, allowlists, times and numbers of
requests. Of the start it says what has been found out at each stage
(`Progress`), above all of every entry of the allowlist before the one asked
for; of the process, in which order it ends (`Order`), that a signal or a
failure told it to (`Told`), that a `Shutdown` that is over has left no request,
or an error and no time (`Drained`), and what each exit means (`Exited`). That
an environment is accepted as documented, "warning" and the four conditions of
the messages apart, is first a fact about `Load` (`LoadAsDocumented`), put
together from one lemma for each kind of value: the list, whose repetitions
`Load` finds one by one and the documentation rules out by counting, flags,
numbers, URLs and the two addresses. Two more theorems are what `StopsWhenTold`
rests on besides fairness. `RunHears`: a signal kills the process before
`signal.Notify` and is in the channel after it, and no failure is taken before
the select, so that run cannot wait there when it was called (`Heard`).
`RunComesToAnEnd`: from the listeners on, each statement of run and each tick of
the deadline lowers `ToDo`, and nothing else raises it.

`ResponsesProofs`, for any requests, lists of objects, pages and answers. First
tables: what each gate, failure and answer of the bucket is turned into. Then
the invariant: which replies GitHub has given at each place of the handler
(`Placed`), that nothing is decided before its place (`Undecided`), that what is
decided has its grounds (`Told`), that only consistent lists pass the gate
(`Passed`), and that the recorder knows what was sent (`Out`). Six theorems:
`TransientIsRetryable`, `Explained`, `ServedIsAuthorized`, `RecordedIsSent`,
`ValidatedExactly` and the types. `ValidatedExactly` is about
lists of any length and a loop over them, `Rounds`. That the function exists
(`RunsLemma`) and that after n rounds the map holds the sizes of the first n
objects, unless two of one OID conflict (`ConsistentLemma`), is shown by a least
counterexample, since the provers cannot instantiate an induction theorem:
`LeastLemma` takes it from the library's theorem on minimal elements.

Assumed of the constants: what distinguishes sentinels from values
(`UnsetAssumption` of `BatchPool`, `NoneAssumption` of `Authorize`), that limits
and periods are positive where the code makes them so (`LimitsAssumption`, by
`authcache.New`), what kind of value each variable is parsed to, and that a
value is none of the sentinels (`EnvironmentsAssumption` of `Startup`; numbers
above `MaxId` do not parse; it says of the two default addresses that they are
addresses too, since the provers do not know a string literal for a string),
that a Verify has one object (`InputsAssumption` of `Responses`), that a
Duration holds the default delay (`UnitsAssumption` of `RateLimit`). GOLFS's
clock is no more than a minute ahead of GitHub's (`InputsAssumption` of
`RateLimit`), as far as a JWT is backdated; without that an obedient client may
be refused once more for each minute it is ahead.

Assumed of the services: GitHub tells a primary rate limit by 429 or by a 403
with `X-RateLimit-Remaining: 0`, and a secondary one by 429 or by a 403
(`Replies` of `Responses`); the bucket honours the signed hash and
`If-None-Match`, bodies with the same SHA-256 are equal, the HMAC of keys is
injective, GOLFS alone writes to the bucket.

Only model-checked are the liveness properties: `Convergence`, `StopsWhenTold`,
`ReadyComesTrue`, `StartupEnds` and the termination part of
`ImplementsBatchContract`. Fairness and ENABLED are out of the prover's reach; for
the pool and the end of the process, what such an argument needs of the code is
proved (above).

## 5. Not modelled

* JSON syntax, media type parsing and the text of errors: a body is fine,
  malformed or too large, a header acceptable or not.
* `net/url`, `strconv` and `time.ParseDuration`: `Config` starts from what they
  return. Parsing of the App's private key: it parses or it does not.
* The Prometheus collectors and `routeMetrics`: counters and labels without
  effect on behaviour. `Responses` has the one status that is counted.
* Copying signed headers into the action, and the AWS credential chain: pure data
  and a library.
* A request to another path or by another method, which `http.ServeMux` refuses.
* Direct writes to the bucket by its operators, and the loss of the bucket after
  the start, which the documentation excludes; HEAD's 404 is then taken for an
  absent object.
* A lifetime of URLs below one second, which is accepted and of which the client
  is told nothing (`expires_in` is truncated to 0 and left out).
* The concurrency over all batches together: each batch has a pool of its own.
* Chart, image, documentation site, CI: no program logic.

## 6. Plan

Done: every component with logic of its own, composed where the interaction
matters (`Authorize` with the cache, `Golfs` with `Authorize`, `Lifecycle` with
`Startup` and `Config`), and the proofs of section 4: every safety property
of every passing run is a theorem. Next: the same two facts, never stuck and
always nearer to the end, for the start (`StartupEnds`), whose measure has to
bound the allowlist before it is loaded; a bound on the attempts `Convergence`
takes once the environment is kind.
