------------------------------ MODULE RateLimit ------------------------------
(***************************************************************************)
(* How long a client is told to wait when GitHub limits GOLFS's requests:  *)
(* retryAfterError (internal/forge/github/github.go) reads the delay from  *)
(* a header, writeForgeError (internal/lfs/handler.go) rounds it to        *)
(* seconds, the client waits as told and tries again.  The delay is an     *)
(* int64 of nanoseconds, the reset of the limit a number of seconds on     *)
(* GitHub's clock, of which GOLFS's may be ahead or behind.                *)
(*                                                                         *)
(* Time is counted in ticks, SecondTicks of them a second.  The product of *)
(* a Duration wraps, time.Until and Duration.Round stop at the longest.    *)
(* GitHub and the Git LFS client are modelled from how GOLFS uses them.    *)
(***************************************************************************)
EXTENDS Integers

CONSTANTS
  SecondTicks, Minute,   \* ticks in a second and in the default delay
  MaxDuration,           \* ticks in the longest Duration
  Skews,                 \* by how much GOLFS's clock may be ahead, in ticks
  Limits,                \* the lengths of limits considered, in ticks
  AskedFor,              \* the values of Retry-After considered, in seconds
  Latency,               \* most ticks a reply or a response is on its way
  MaxTime, None

ASSUME UnitsAssumption ==
  /\ SecondTicks \in Nat \ {0}
  /\ Minute \in {SecondTicks * n : n \in 1..60}
  /\ MaxDuration \in Nat /\ Minute <= MaxDuration
\* GOLFS's clock is no further ahead than a JWT is backdated (github.go:345).
ASSUME InputsAssumption ==
  /\ Skews \subseteq {s \in Int : s <= Minute}
  /\ Limits \subseteq Nat \ {0}
  /\ AskedFor \subseteq Nat
  /\ Latency \in Nat /\ MaxTime \in Nat
  /\ None \notin Int

VARIABLES
  now,       \* GitHub's clock
  skew,      \* GOLFS's clock shows now + skew
  limit,     \* GitHub refuses until then; None when no limit was hit yet
  at,        \* "waiting", "asked" (the reply is on its way to GOLFS), "told"
  reply,     \* the headers of the reply, see Headers
  since,     \* when the reply, or GOLFS's response, was sent
  told,      \* the Retry-After GOLFS sends, in seconds
  due,       \* when the client tries again
  refusals,  \* how often this limit refused the client
  overlong   \* a Duration could not hold a delay GitHub asked for

rateVars == <<now, skew, limit, at, reply, since, told, due, refusals, overlong>>

-----------------------------------------------------------------------------
(* The delay                                                               *)

\* What a product of Durations makes of a number of ticks.
Wrap(n) == ((n + MaxDuration + 1) % (2 * MaxDuration + 2)) - (MaxDuration + 1)

AtLeast(a, b) == IF a < b THEN b ELSE a
AtMost(a, b) == IF a > b THEN b ELSE a

\* after: Retry-After, reset: X-RateLimit-Reset, in seconds; None if absent.
Headers(after, reset) == [after |-> after, reset |-> reset]

\* Of the delay asked for, and of the time to the reset: a Duration holds it.
Held(seconds) == seconds * SecondTicks <= MaxDuration
HeldUntil(reset, clock) == reset * SecondTicks - clock <= MaxDuration

Overlong(h, clock) ==
  \/ h.after # None /\ ~Held(h.after)
  \/ h.reset # None /\ ~HeldUntil(h.reset, clock)

\* time.Until; no time is left when there is no reset.
Until(reset, clock) ==
  IF reset = None THEN 0 ELSE AtMost(reset * SecondTicks - clock, MaxDuration)

\* retryAfterError.
Delay(h, clock) ==
  LET left == Until(h.reset, clock)
  IN  IF h.after # None /\ h.after > 0 THEN Wrap(h.after * SecondTicks)
      ELSE IF left > 0 THEN left ELSE Minute

\* Duration.Round(time.Second) / time.Second: halves are rounded up.
Rounded(delay) ==
  AtMost((2 * delay + SecondTicks) \div (2 * SecondTicks), MaxDuration \div SecondTicks)

\* (mutant) Not divided by time.Second.
RetryAfterUndivided(delay) ==
  AtLeast(SecondTicks * Rounded(IF delay > 0 THEN delay ELSE Minute), 1)

\* (mutant) Rounded, and nothing else.
RetryAfterBare(delay) == Rounded(IF delay > 0 THEN delay ELSE Minute)

\* (mutant) At most a minute.
RetryAfterCapped(delay) ==
  AtLeast(Rounded(IF delay > 0 /\ delay < Minute THEN delay ELSE Minute), 1)

\* writeForgeError: a delay that is no delay is a minute; at least a second.
RetryAfter(delay) == AtLeast(Rounded(IF delay > 0 THEN delay ELSE Minute), 1)

-----------------------------------------------------------------------------
RateInit ==
  /\ now = 0
  /\ skew \in Skews
  /\ limit = None
  /\ at = "waiting"
  /\ reply = None
  /\ since = 0
  /\ told = 0
  /\ due = 0
  /\ refusals = 0
  /\ overlong = FALSE

CeilSeconds(t) == (t + SecondTicks - 1) \div SecondTicks

\* 403 with X-RateLimit-Remaining 0 and the reset, or 429 with a Retry-After
\* that covers what is left of the limit.
LimitHeaders(end) ==
  {Headers(None, CeilSeconds(end))}
    \cup {Headers(n, None) : n \in {n \in AskedFor : now + n * SecondTicks >= end}}

\* The client's request makes GOLFS ask GitHub, which refuses.
Refused ==
  /\ at = "waiting"
  /\ now >= due
  /\ \/ limit = None /\ \E n \in Limits : limit' = SecondTicks * CeilSeconds(now + n)
     \/ limit # None /\ now < limit /\ UNCHANGED limit
  /\ \E h \in LimitHeaders(limit') : reply' = h
  /\ at' = "asked"
  /\ since' = now
  /\ refusals' = refusals + 1
  /\ UNCHANGED <<now, skew, told, due, overlong>>

\* GitHub no longer refuses: the client has what it wanted.
Served ==
  /\ at = "waiting"
  /\ now >= due
  /\ limit # None /\ now >= limit
  /\ at' = "served"
  /\ UNCHANGED <<now, skew, limit, reply, since, told, due, refusals, overlong>>

\* GOLFS has the reply and answers 429.
Answer429 ==
  /\ at = "asked"
  /\ told' = RetryAfter(Delay(reply, now + skew))
  /\ overlong' = (overlong \/ Overlong(reply, now + skew))
  /\ at' = "told"
  /\ since' = now
  /\ UNCHANGED <<now, skew, limit, reply, due, refusals>>

\* The client has the response and waits as told.
Obey ==
  /\ at = "told"
  /\ due' = now + told * SecondTicks
  /\ at' = "waiting"
  /\ reply' = None /\ since' = 0 /\ told' = 0
  /\ UNCHANGED <<now, skew, limit, refusals, overlong>>

Tick ==
  /\ now < MaxTime
  /\ at \in {"asked", "told"} => now < since + Latency
  /\ at # "served"
  /\ now' = now + 1
  /\ UNCHANGED <<skew, limit, at, reply, since, told, due, refusals, overlong>>

RateNext == Refused \/ Served \/ Answer429 \/ Obey \/ Tick

RateSpec == RateInit /\ [][RateNext]_rateVars

-----------------------------------------------------------------------------
RateTypeOK ==
  /\ now \in 0..MaxTime
  /\ skew \in Skews
  /\ limit \in Nat \cup {None}
  /\ at \in {"waiting", "asked", "told", "served"}
  /\ told \in 0..(MaxDuration \div SecondTicks)
  /\ {since, due, refusals} \subseteq Nat
  /\ overlong \in BOOLEAN

(***************************************************************************)
(* A client that waits as told meets one and the same limit three times    *)
(* at most, although the time to the reset is rounded to seconds, read on  *)
(* a clock that may be a minute ahead or behind by anything, and gone by   *)
(* when it is used: the least delay of a second, and the minute for a      *)
(* reset that seems over, make up for it (github.go:313-323, handler.go:429-433; *)
(* docs/content/docs/operations.md:28, "retry after the response delay").  *)
(* Not so when GitHub asks for more than a Duration can hold: the product  *)
(* may wrap to a delay of a second, told each time.                        *)
(***************************************************************************)
ObedientClientGetsThrough == overlong \/ refusals <= 3

(***************************************************************************)
(* A delay GitHub asks for in seconds is told as it is when a Duration can *)
(* hold it: a client that waits as told is not early.  Whatever else the   *)
(* multiplication makes of the number, some delay is told.                 *)
(***************************************************************************)
RetryAfterHonoured ==
  at = "told" =>
    /\ told >= 1
    /\ (reply.after # None /\ reply.after > 0 /\ Held(reply.after)) =>
         told = reply.after
=============================================================================
