------------------------------- MODULE AppJwt -------------------------------
(***************************************************************************)
(* The JWT by which GOLFS authenticates as the GitHub App: signedAppJWT    *)
(* and appAuthorization (internal/forge/github/github.go).  It is signed   *)
(* for Lifetime and reused while more than Margin of that is left.  What   *)
(* is left is measured on the process's monotonic clock; the claims in it  *)
(* are whole seconds of the wall clock, which may be off, and be set,      *)
(* between two signatures.  A request carries it to GitHub within the      *)
(* timeout of the HTTP client.  Signing does not fail: the key was parsed  *)
(* at startup.                                                             *)
(*                                                                         *)
(* Time is counted in ticks, SecondTicks of them a second, on GitHub's     *)
(* clock, which the monotonic one keeps pace with.                         *)
(***************************************************************************)
EXTENDS Integers

CONSTANTS
  Request,
  SecondTicks,
  Lifetime, Backdate, Margin,  \* 9 minutes, and a minute each
  HttpTimeout,                 \* of the client towards GitHub
  MaxAhead,                    \* how far ahead of its clock GitHub lets a JWT end
  Skews,                       \* by how much the wall clock may be ahead
  MaxTime,                     \* bound on the clock
  None

ASSUME UnitsAssumption ==
  /\ {SecondTicks, Lifetime, Margin, HttpTimeout} \subseteq Nat \ {0}
  /\ {Backdate, MaxAhead, MaxTime} \subseteq Nat
  /\ Margin < Lifetime

\* The wall clock is no further ahead than a JWT is backdated and shortened,
\* nor behind by what the margin leaves of the timeout and of a second.
ASSUME SkewsAssumption == \A s \in Skews :
  /\ s \in Int
  /\ s <= Backdate
  /\ s <= MaxAhead - Lifetime
  /\ HttpTimeout + SecondTicks <= Margin + s + 1

VARIABLES
  now,
  skew,   \* the wall clock shows now + skew
  jwt,    \* appJWT, and jwtExpires as "until"; None before the first
  asked   \* asked[r]: the JWT request r carries and when it was attached

vars == <<now, skew, jwt, asked>>

Jwt == [iat : Int, exp : Int, until : Nat]

-----------------------------------------------------------------------------
Init ==
  /\ now = 0
  /\ skew \in Skews
  /\ jwt = None
  /\ asked = [r \in Request |-> None]

\* NewNumericDate: truncated to whole seconds.
WholeSecond(t) == {s \in (t - SecondTicks + 1)..t : s % SecondTicks = 0}

\* (mutant) Reused until it ends.
ReusableToTheEnd == jwt # None /\ now < jwt.until

Reusable == jwt # None /\ now + Margin < jwt.until

\* The request now sent carries j.
Carry(r, j) == asked' = [asked EXCEPT ![r] = [jwt |-> j, sent |-> now]]

Reuse(r) ==
  /\ asked[r] = None
  /\ Reusable
  /\ Carry(r, jwt)
  /\ UNCHANGED <<now, skew, jwt>>

Sign(r) ==
  /\ asked[r] = None
  /\ ~Reusable
  /\ \E iat \in WholeSecond(now + skew - Backdate),
        exp \in WholeSecond(now + skew + Lifetime) :
       jwt' = [iat |-> iat, exp |-> exp, until |-> now + Lifetime]
  /\ Carry(r, jwt')
  /\ UNCHANGED <<now, skew>>

\* GitHub has answered, or the client gave up.
Done(r) ==
  /\ asked[r] # None
  /\ asked' = [asked EXCEPT ![r] = None]
  /\ UNCHANGED <<now, skew, jwt>>

\* The wall clock is set, or drifts.
Adjust ==
  /\ skew' \in Skews
  /\ UNCHANGED <<now, jwt, asked>>

Tick ==
  /\ now < MaxTime
  /\ \A r \in Request : asked[r] # None => now < asked[r].sent + HttpTimeout
  /\ now' = now + 1
  /\ UNCHANGED <<skew, jwt, asked>>

Next == (\E r \in Request : Reuse(r) \/ Sign(r) \/ Done(r)) \/ Adjust \/ Tick

Spec == Init /\ [][Next]_vars

-----------------------------------------------------------------------------
TypeOK ==
  /\ now \in Nat
  /\ skew \in Skews
  /\ jwt \in Jwt \cup {None}
  /\ asked \in [Request -> [jwt : Jwt, sent : Nat] \cup {None}]
  /\ jwt # None => jwt.iat % SecondTicks = 0 /\ jwt.exp % SecondTicks = 0

\* GitHub, at time t: issued in the past, not over, not for too long.
Accepts(j, t) == j.iat <= t /\ t < j.exp /\ j.exp <= t + MaxAhead

(***************************************************************************)
(* GitHub accepts the JWT of every request, whenever between its sending   *)
(* and the client's timeout it looks at it: however often the JWT was      *)
(* reused, whatever was done to the wall clock since it was signed, and    *)
(* although its end was truncated (github.go:340-354).                     *)
(***************************************************************************)
AcceptedWhenSeen ==
  \A r \in Request : asked[r] # None => Accepts(asked[r].jwt, now)
=============================================================================
