---------------------------- MODULE AppJwtProofs ----------------------------
(***************************************************************************)
(* AppJwt's invariants for every number of requests, every clock and every *)
(* choice of the durations that its assumptions admit.                     *)
(***************************************************************************)
EXTENDS AppJwt, TLAPS

\* j was signed before now, and ends, on GitHub's clock, late enough for a
\* request that left with Margin to go.
Good(j) ==
  /\ j.until <= now + Lifetime
  /\ j.iat + Lifetime <= j.until
  /\ j.exp + Lifetime <= j.until + MaxAhead
  /\ j.until + HttpTimeout <= j.exp + Margin

Underway(r) ==
  LET a == asked[r]
  IN  /\ Good(a.jwt)
      /\ a.sent <= now /\ now <= a.sent + HttpTimeout
      /\ a.sent + Margin < a.jwt.until

IInv ==
  /\ TypeOK
  /\ jwt # None => Good(jwt)
  /\ \A r \in Request : asked[r] # None => Underway(r)

\* Nothing is signed at first.
LEMMA InitIInv == Init => IInv
  BY UnitsAssumption DEF Init, IInv, TypeOK

\* What is signed now will do, wherever in its second the wall clock is.
LEMMA SignedIsGood ==
  ASSUME skew \in Skews, now \in Nat,
         NEW iat \in WholeSecond(now + skew - Backdate),
         NEW exp \in WholeSecond(now + skew + Lifetime),
         NEW j, j = [iat |-> iat, exp |-> exp, until |-> now + Lifetime]
  PROVE  /\ j \in Jwt
         /\ j.iat % SecondTicks = 0 /\ j.exp % SecondTicks = 0
         /\ Good(j)
<1>1. /\ skew \in Int /\ skew <= Backdate /\ skew <= MaxAhead - Lifetime
      /\ HttpTimeout + SecondTicks <= Margin + skew + 1
  BY SkewsAssumption
<1>2. /\ iat \in Int /\ iat <= now + skew - Backdate /\ iat % SecondTicks = 0
      /\ exp \in Int /\ exp <= now + skew + Lifetime /\ exp % SecondTicks = 0
      /\ now + skew + Lifetime < exp + SecondTicks
  BY <1>1, UnitsAssumption DEF WholeSecond
<1> QED BY <1>1, <1>2, UnitsAssumption DEF Jwt, Good

\* Every step keeps the inductive invariant.
LEMMA StepIInv == IInv /\ [Next]_vars => IInv'
<1> SUFFICES ASSUME IInv, [Next]_vars PROVE IInv'
  OBVIOUS
<1> USE UnitsAssumption DEF IInv, TypeOK
<1>1. ASSUME NEW r \in Request, Reuse(r) PROVE IInv'
  <2>1. jwt # None /\ Good(jwt) /\ now + Margin < jwt.until /\ jwt \in Jwt
    BY <1>1 DEF Reuse, Reusable
  <2>2. TypeOK' /\ (jwt' # None => Good(jwt)')
    BY <1>1, <2>1 DEF Reuse, Carry, Good
  <2>3. ASSUME NEW q \in Request, asked'[q] # None PROVE Underway(q)'
    BY <1>1, <2>1, <2>3 DEF Reuse, Carry, Underway, Good
  <2> QED BY <2>2, <2>3
<1>2. ASSUME NEW r \in Request, Sign(r) PROVE IInv'
  <2>1. /\ jwt' \in Jwt /\ jwt'.until = now + Lifetime
        /\ jwt'.iat % SecondTicks = 0 /\ jwt'.exp % SecondTicks = 0
        /\ Good(jwt')
    <3>1. PICK iat \in WholeSecond(now + skew - Backdate),
               exp \in WholeSecond(now + skew + Lifetime) :
            jwt' = [iat |-> iat, exp |-> exp, until |-> now + Lifetime]
      BY <1>2 DEF Sign
    <3> QED BY <3>1, SignedIsGood
  <2>2. TypeOK' /\ Good(jwt)'
    BY <1>2, <2>1 DEF Sign, Carry, Good
  <2>3. ASSUME NEW q \in Request, asked'[q] # None PROVE Underway(q)'
    BY <1>2, <2>1, <2>3 DEF Sign, Carry, Underway, Good, Jwt
  <2> QED BY <2>2, <2>3
<1>3. ASSUME NEW r \in Request, Done(r) PROVE IInv'
  BY <1>3 DEF Done, Underway, Good
<1>4. CASE Adjust
  BY <1>4 DEF Adjust, Underway, Good
<1>5. CASE Tick
  <2>1. TypeOK' /\ (jwt' # None => Good(jwt)')
    BY <1>5 DEF Tick, Good, Jwt
  <2>2. ASSUME NEW q \in Request, asked'[q] # None PROVE Underway(q)'
    <3>1. asked[q] \in [jwt : Jwt, sent : Nat]
      BY <1>5, <2>2 DEF Tick
    <3> QED BY <1>5, <2>2, <3>1 DEF Tick, Underway, Good, Jwt
  <2> QED BY <2>1, <2>2
<1>6. CASE UNCHANGED vars
  BY <1>6 DEF vars, Underway, Good
<1> QED BY <1>1, <1>2, <1>3, <1>4, <1>5, <1>6 DEF Next

\* Of what is underway, GitHub accepts the JWT now.
LEMMA IInvAccepted == IInv => AcceptedWhenSeen
<1> SUFFICES ASSUME IInv, NEW r \in Request, asked[r] # None
             PROVE  Accepts(asked[r].jwt, now)
  BY DEF AcceptedWhenSeen
<1>1. asked[r] \in [jwt : Jwt, sent : Nat] /\ now \in Nat
  BY DEF IInv, TypeOK
<1> QED BY <1>1, UnitsAssumption DEF IInv, Underway, Good, Accepts, Jwt

LEMMA Invariance == Spec => []IInv
  BY InitIInv, StepIInv, PTL DEF Spec

(***************************************************************************)
(* The state stays well-typed: in particular every claim is a whole        *)
(* second (signedAppJWT, github.go:346-350).                               *)
(***************************************************************************)
THEOREM AppJwtType == Spec => []TypeOK
<1>1. IInv => TypeOK
  BY DEF IInv
<1> QED BY <1>1, Invariance, PTL

(***************************************************************************)
(* GitHub accepts the JWT of every request however many share it, for all  *)
(* durations and clocks that UnitsAssumption and SkewsAssumption admit     *)
(* (signedAppJWT, github.go:336-356).                                      *)
(***************************************************************************)
THEOREM AppJwtAccepted == Spec => []AcceptedWhenSeen
  BY Invariance, IInvAccepted, PTL
=============================================================================
