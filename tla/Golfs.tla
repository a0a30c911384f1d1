------------------------------- MODULE Golfs -------------------------------
(***************************************************************************)
(* GOLFS as a whole, in time: how long what GitHub said of a user lets the *)
(* bytes of a repository be moved.  A request is authorized as Authorize   *)
(* has it, by the cache or by asking GitHub; Batch then asks the bucket,   *)
(* which may take any time, and presigns a URL (internal/lfs/handler.go,   *)
(* internal/storage/s3store/s3store.go); the response leaves before the    *)
(* server's WriteTimeout (cmd/golfs/main.go) or not at all; and whoever    *)
(* has the URL uses it until it expires, asking nobody.                    *)
(***************************************************************************)
EXTENDS Authorize

CONSTANTS
  WriteTimeout,    \* from a request's arrival to its response
  PresignTTL       \* of a presigned URL

ASSUME TimesAssumption == {WriteTimeout, PresignTTL} \subseteq Nat \ {0}

VARIABLES
  arrived,   \* arrived[q]: when request q did, 0 when there is none
  batch,     \* batch[q]: the Batch that waits for the bucket, or None
  url        \* a presigned URL a client has and that still works, or None

golfsVars == <<vars, arrived, batch, url>>

Operation == {"download", "upload"}

Batch == [op : Operation, repo : Repo, token : Token, path : Path]

\* One URL is followed, whichever: they do not act on each other.  It names a
\* repository's number, and no user: who it was given to, and under which
\* path, is kept for the properties.
URL == [op : Operation, repo : Repo, token : Token, path : Path, until : Nat]

\* (mutant) One gate for all.
NeededRead(op) == PermissionRead

\* Handler.batch, lines 162-169.
Needed(op) == IF op = "download" THEN PermissionRead ELSE PermissionWrite

GolfsInit ==
  /\ Init
  /\ arrived = [q \in Request |-> 0]
  /\ batch = [q \in Request |-> None]
  /\ url = None

-----------------------------------------------------------------------------
Arrive(q, t, p) ==
  /\ batch[q] = None
  /\ Hit(q, t, p) \/ Miss(q, t, p)
  /\ arrived' = [arrived EXCEPT ![q] = now]
  /\ UNCHANGED <<batch, url>>

Authorizing(q) ==
  /\ \/ GitHubAnswers(q)
     \/ ReceiveInstallation(q) \/ ReceivePage(q) \/ ReceiveMembership(q)
     \/ ReceiveRepository(q)
     \/ Put(q)
  /\ UNCHANGED <<arrived, batch, url>>

\* The request is over.
Leave(q) == arrived' = [arrived EXCEPT ![q] = 0]

Fails(q) == Fail(q) /\ Leave(q) /\ UNCHANGED <<batch, url>>

\* The permission suffices, and the bucket is asked.
AskBucket(q, op) ==
  /\ Finish(q)
  /\ req[q].auth.perm >= Needed(op)
  /\ batch' = [batch EXCEPT ![q] =
       [op |-> op, repo |-> req[q].auth.repo, token |-> req[q].token, path |-> req[q].path]]
  /\ UNCHANGED <<arrived, url>>

\* It does not, or this is a Verify.
NoBatch(q) == Finish(q) /\ Leave(q) /\ UNCHANGED <<batch, url>>

\* (mutant) The server has no write timeout.
DeliverableEver(q) == TRUE

\* The response can still be written.
Deliverable(q) == now <= arrived[q] + WriteTimeout

\* The Batch is over.
Reply(q) ==
  /\ batch[q] # None
  /\ batch' = [batch EXCEPT ![q] = None]
  /\ Leave(q)
  /\ UNCHANGED vars

\* The bucket has answered, and the URL is presigned: its lifetime begins.
Grant(q) ==
  /\ Reply(q)
  /\ Deliverable(q)
  /\ url' = [op |-> batch[q].op, repo |-> batch[q].repo, token |-> batch[q].token,
             path |-> batch[q].path, until |-> now + PresignTTL]

\* Nothing to transfer, the bucket unavailable, or the time over.
GrantNothing(q) == Reply(q) /\ UNCHANGED url

Elsewhere == GitHubChange /\ UNCHANGED <<arrived, batch, url>>

\* (mutant) The bucket looks at URLs as if they had no end.
WorkingEver(u, t) == u

Working(u, t) == IF u # None /\ t < u.until THEN u ELSE None

\* The clock stands neither for the bucket nor for whoever has a URL.  A
\* handler whose response can no longer be written is not waited for.
GolfsTick == Tick /\ url' = Working(url, now') /\ UNCHANGED <<arrived, batch>>

GolfsNext ==
  \/ \E q \in Request :
       \/ \E t \in Token, p \in Path : Arrive(q, t, p)
       \/ Authorizing(q)
       \/ Fails(q)
       \/ \E op \in Operation : AskBucket(q, op)
       \/ NoBatch(q)
       \/ Grant(q) \/ GrantNothing(q)
  \/ Elsewhere
  \/ GolfsTick

GolfsSpec == GolfsInit /\ [][GolfsNext]_golfsVars

-----------------------------------------------------------------------------
GolfsTypeOK ==
  /\ TypeOK
  /\ arrived \in [Request -> 0..MaxTime]
  /\ batch \in [Request -> Batch \cup {None}]
  /\ url \in URL \cup {None}
  /\ url # None => now < url.until /\ url.until <= now + PresignTTL

\* The user had that permission on the repository, or a greater one.
HadWithin(t, r, least, d) ==
  \E m \in least..PermissionWrite : HeldWithin(PermFact(t, r, m), d)

(***************************************************************************)
(* A revoked permission, or a repository that moved away from a path,      *)
(* stops mattering: whatever is waiting in the cache, at GitHub or at the  *)
(* bucket, a URL that works was given to a user who had the permission it  *)
(* stands for less than HttpTimeout + TTL + WriteTimeout + PresignTTL ago, *)
(* on a repository that was at the path they named less than as long ago   *)
(* (handler.go:162-174, 382-386; main.go:138-147; s3store.go:103-145).  In *)
(* whole ticks an entry serves for the last time one before its TTL.       *)
(***************************************************************************)
RevocationBound ==
  LET d == HttpTimeout + (TTL - 1) + WriteTimeout + PresignTTL
  IN  url # None =>
        /\ HadWithin(url.token, url.repo,
                     IF url.op = "upload" THEN PermissionWrite ELSE PermissionRead, d)
        /\ HeldWithin(AtFact(url.path, url.repo), d)
=============================================================================
