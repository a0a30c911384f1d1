------------------------------ MODULE Responses ------------------------------
(***************************************************************************)
(* What one Batch or Verify request is answered: the gates of batch and    *)
(* verify (internal/lfs/handler.go), the questions to GitHub and what      *)
(* becomes of their failures (requestWithNext, mapResponseError,           *)
(* writeForgeError), HEAD and presigning (mapError of s3store.go), and the *)
(* way out through Middleware and Instrument, with a panic anywhere.       *)
(*                                                                         *)
(* GitHub and the bucket may give any answer to any question.  The pages   *)
(* of the user's installations are UserInstallations, the delay told with  *)
(* a 429 is RateLimit, the cache's content AuthCache.                      *)
(***************************************************************************)
EXTENDS Integers, SequencesExt

CONSTANTS
  Oid, WellFormed,   \* strings sent as OIDs; those of 64 lowercase hex digits
  MaxObjectSize,
  MaxObjects,        \* config.MaximumBatchObjects
  MaxPages,          \* most pages of the user's installations that are read
  Inputs,            \* the requests considered, see Input
  BucketCodes,       \* the statuses of HEAD considered, 0 for no answer
  None

PermissionNone == 0
PermissionRead == 1
PermissionWrite == 2

Operation == {"upload", "download", "verify"}

\* acceptable, typed: the media types; fields: operation, hash_algo and
\* transfers are among those served; token: of the Basic credentials.
\* A Verify has one object.
Input == [op : Operation, acceptable : BOOLEAN, typed : BOOLEAN,
          body : {"fine", "malformed", "too_large"}, fields : BOOLEAN,
          objects : Seq([oid : Oid, size : Int]),
          token : {"none", "foreign", "ghu_"}]

ASSUME InputsAssumption ==
  /\ Inputs \subseteq Input
  /\ \A i \in Inputs : i.op = "verify" => Len(i.objects) = 1
ASSUME LimitsAssumption == WellFormed \subseteq Oid /\ MaxPages \in Nat \ {0}
ASSUME NoneAssumption == None \notin Int

VARIABLES
  input,
  at,         \* where the handler is
  page,       \* of the installations being read
  said,       \* GitHub's replies, in order
  perm,       \* the permission found, None before
  heads,      \* the bucket's answers, one for each object
  codes,      \* the error code in each object of a Batch's result, 0 for none
  status,     \* decided by the handler, 0 before
  recorder,   \* statusRecorder: the status, and wroteHeader
  sent,       \* the status line the client gets, 0 before
  recorded    \* the status counted by Instrument, 0 before

decided == <<page, said, perm, heads, codes, status>>
written == <<recorder, sent, recorded>>
vars == <<input, at, decided, written>>

-----------------------------------------------------------------------------
(* The gates                                                               *)

validateObject(o) == o.oid \in WellFormed /\ o.size \in 0..MaxObjectSize

\* (mutant) Each object is compared with the one before it only.
ConsistentSizesAdjacent(objects) ==
  \A i \in 2..Len(objects) :
    objects[i].oid = objects[i-1].oid => objects[i].size = objects[i-1].size

\* One round of the loop: the object is compared with the map seen, and noted.
Look(s, o) == [ok   |-> s.ok /\ s.seen[o.oid] \in {None, o.size},
               seen |-> [s.seen EXCEPT ![o.oid] = o.size]]

\* What the rounds of the loop lead to, one after the other.
Rounds(objects) ==
  LET after[n \in 0..Len(objects)] ==
        IF n = 0 THEN [ok |-> TRUE, seen |-> [o \in Oid |-> None]]
                 ELSE Look(after[n - 1], objects[n])
  IN  after

ConsistentSizes(objects) == Rounds(objects)[Len(objects)].ok

validateBatch(i) ==
  /\ i.fields
  /\ Len(i.objects) <= MaxObjects
  /\ \A k \in 1..Len(i.objects) : validateObject(i.objects[k])
  /\ ConsistentSizes(i.objects)

Valid(i) == IF i.op = "verify" THEN validateObject(i.objects[1])
                               ELSE validateBatch(i)

\* In the order of the handlers: what must hold, and the status if not.
Gates(i) == << <<i.acceptable,           406>>,
               <<i.typed,                415>>,
               <<i.body # "too_large",   413>>,
               <<i.body # "malformed",   400>>,
               <<Valid(i),               422>>,
               <<i.token # "none",       401>> >>

Refusal(i) ==
  LET g == Gates(i)
      k == SelectInSeq(g, LAMBDA x : ~x[1])
  IN  IF k = 0 THEN 0 ELSE g[k][2]

\* (mutants) Any permission will do for Verify; one status for all operations.
PermissionRefusalLax(op, p) ==
  CASE op = "download" /\ p < PermissionRead -> 404
    [] op = "upload" /\ p < PermissionWrite  -> 403
    [] OTHER                                 -> 0

PermissionRefusalAlike(op, p) ==
  IF p < (IF op = "download" THEN PermissionRead ELSE PermissionWrite) THEN 403 ELSE 0

PermissionRefusal(op, p) ==
  CASE op = "download" /\ p < PermissionRead  -> 404
    [] op # "download" /\ p < PermissionWrite -> 403
    [] OTHER                                  -> 0

-----------------------------------------------------------------------------
(* GitHub's replies                                                        *)

Question == {"installation", "membership", "repository"}

\* What a reply of status 200 may say.  "not_admitted": no ID, another App's
\* or not on the allowlist; "more": not on this page, there is another;
\* "nameless": no ID or name; else the greatest of the permissions listed.
Says == [installation |-> {"admitted", "not_admitted"},
         membership   |-> {"found", "more", "last"},
         repository   |-> {"nameless", "none", "pull", "push"}]

\* code 0: no reply; limit: the rate limit GitHub enforces with it.  A primary
\* one, and no other, has X-RateLimit-Remaining at "0"; a secondary one is told
\* by 403 as well as by 429.
Reply(code, limit, says) == [code |-> code, limit |-> limit, says |-> says]

Limits == {"primary", "secondary"}

Replies(q) ==
  {Reply(200, "none", s) : s \in Says[q] \cup {"garbled"}}
    \cup {Reply(c, "none", "nothing") : c \in {0, 401, 403, 404, 422, 500, 503}}
    \cup {Reply(c, l, "nothing") : c \in {403, 429}, l \in Limits}

AllReplies == UNION {Replies(q) : q \in Question}

\* (mutant) Every 403 is taken for a refusal.
GitHubErrorForbidding(r) ==
  CASE r.code = 0 \/ r.says = "garbled" \/ r.code >= 500 -> "unavailable"
    [] r.code = 403 -> "forbidden"
    [] r.code = 404 -> "not_found"
    [] r.code = 429 -> "rate_limited"
    [] OTHER        -> "unauthenticated"

\* requestWithNext and mapResponseError.
GitHubError(r) ==
  CASE r.code = 0 \/ r.says = "garbled" \/ r.code >= 500 -> "unavailable"
    [] r.code = 403 -> IF r.limit = "primary" THEN "rate_limited" ELSE "forbidden"
    [] r.code = 404 -> "not_found"
    [] r.code = 429 -> "rate_limited"
    [] OTHER        -> "unauthenticated"

Failed(r) == r.code # 200 \/ r.says = "garbled"

\* writeForgeError.
ForgeStatus(e) ==
  CASE e = "rate_limited"                -> 429
    [] e = "unauthenticated"             -> 401
    [] e \in {"not_found", "forbidden"}  -> 404
    [] OTHER                             -> 503

PermissionIn(says) ==
  CASE says = "push" -> PermissionWrite
    [] says = "pull" -> PermissionRead
    [] OTHER         -> PermissionNone

-----------------------------------------------------------------------------
(* The bucket's answers                                                    *)

\* same: the size asked for, if there is one; signed: presigning succeeds.
HeadAnswer == {h \in [code : BucketCodes, same : BOOLEAN, signed : BOOLEAN] :
                 h.code # 200 => h.same}

\* mapError: what is not a plain "not found" is "unavailable".
Unavailable(h) == h.code \notin {200, 404}

\* (mutant) Any refusal of HEAD is an absent object.
ObjectCodeAbsent(op, h) ==
  CASE h.code # 200 /\ op = "download" -> 404
    [] h.code = 200 /\ ~h.same         -> 422
    [] OTHER                           -> 0

\* An upload is presigned when nothing is there, a download when it is.
Presigns(op, h) ==
  IF op = "download" THEN h.code = 200 /\ h.same ELSE h.code = 404

\* processObject.
ObjectCode(op, h) ==
  CASE Unavailable(h)                  -> 503
    [] h.code = 404 /\ op = "download" -> 404
    [] h.code = 200 /\ ~h.same         -> 422
    [] Presigns(op, h) /\ ~h.signed    -> 503
    [] OTHER                           -> 0

VerifyStatus(h) ==
  CASE Unavailable(h)          -> 503
    [] h.code = 404            -> 404
    [] h.code = 200 /\ ~h.same -> 422
    [] OTHER                   -> 200

-----------------------------------------------------------------------------
(* The handler                                                             *)

\* A granted permission is in the cache, or nothing is.
Init ==
  /\ input \in Inputs
  /\ perm \in {None} \cup
       (IF input.token = "ghu_" THEN PermissionNone..PermissionWrite ELSE {})
  /\ at = "gates"
  /\ page = 0
  /\ said = <<>>
  /\ heads = <<>>
  /\ codes = <<>>
  /\ status = 0
  /\ recorder = [status |-> 200, wrote |-> FALSE]
  /\ sent = 0
  /\ recorded = 0

Goto(place) == at' = place

\* The handler calls writeJSON, perhaps by way of writeError.
Answer(s) == Goto("answer") /\ status' = s

Refuse ==
  /\ at = "gates"
  /\ Refusal(input) # 0
  /\ Answer(Refusal(input))
  /\ UNCHANGED <<input, page, said, perm, heads, codes, written>>

CacheHit ==
  /\ at = "gates"
  /\ Refusal(input) = 0
  /\ perm # None
  /\ Goto("permission")
  /\ UNCHANGED <<input, decided, written>>

\* Authorize refuses tokens of another class before it asks anything.
CacheMiss ==
  /\ at = "gates"
  /\ Refusal(input) = 0
  /\ perm = None
  /\ IF input.token = "ghu_" THEN Goto("installation") /\ UNCHANGED status
                             ELSE Answer(ForgeStatus("unauthenticated"))
  /\ page' = 1
  /\ UNCHANGED <<input, said, perm, heads, codes, written>>

\* (mutant) The loop runs once too often.
MorePagesOnce(n) == n <= MaxPages

MorePages(n) == n < MaxPages

\* What a reply of status 200 to the question leads to.
Next200(says) ==
  CASE says = "admitted"              -> Goto("membership") /\ UNCHANGED <<page, perm, status>>
    [] says = "found"                 -> Goto("repository") /\ UNCHANGED <<page, perm, status>>
    [] says = "more" /\ MorePages(page) -> page' = page + 1 /\ UNCHANGED <<at, perm, status>>
    [] says = "more" /\ ~MorePages(page) ->
         Answer(ForgeStatus("unavailable")) /\ UNCHANGED <<page, perm>>
    [] says = "last" ->
         Answer(ForgeStatus("unauthenticated")) /\ UNCHANGED <<page, perm>>
    [] says \in {"not_admitted", "nameless"} ->
         Answer(ForgeStatus("not_found")) /\ UNCHANGED <<page, perm>>
    [] OTHER -> Goto("permission") /\ perm' = PermissionIn(says) /\ UNCHANGED <<page, status>>

AskGitHub(q) ==
  /\ at = q
  /\ \E r \in Replies(q) :
       /\ said' = Append(said, r)
       /\ IF Failed(r)
          THEN Answer(ForgeStatus(GitHubError(r))) /\ UNCHANGED <<page, perm>>
          ELSE Next200(r.says)
  /\ UNCHANGED <<input, heads, codes, written>>

CheckPermission ==
  /\ at = "permission"
  /\ IF PermissionRefusal(input.op, perm) # 0
     THEN Answer(PermissionRefusal(input.op, perm))
     ELSE Goto("bucket") /\ UNCHANGED status
  /\ UNCHANGED <<input, page, said, perm, heads, codes, written>>

Objects == 1..Len(input.objects)

Answered(h, c) ==
  /\ heads' = h
  /\ codes' = c
  /\ UNCHANGED <<input, page, said, perm, written>>

\* processObjects: see BatchPool.
BatchObjects ==
  /\ at = "bucket"
  /\ input.op # "verify"
  /\ \E h \in [Objects -> HeadAnswer] :
       Answered(h, [k \in Objects |-> ObjectCode(input.op, h[k])])
  /\ Answer(200)

VerifyObject ==
  /\ at = "bucket"
  /\ input.op = "verify"
  /\ \E h \in HeadAnswer : Answered(<<h>>, <<>>) /\ Answer(VerifyStatus(h))

-----------------------------------------------------------------------------
(* The way out                                                             *)

\* (mutant) Without the check of wroteHeader; net/http ignores the second call.
WriteHeaderTwice(s) ==
  /\ recorder' = [status |-> s, wrote |-> TRUE]
  /\ sent' = IF sent = 0 THEN s ELSE sent

\* statusRecorder.WriteHeader
WriteHeader(s) ==
  IF recorder.wrote
  THEN UNCHANGED <<recorder, sent>>
  ELSE /\ recorder' = [status |-> s, wrote |-> TRUE]
       /\ sent' = s

Respond ==
  /\ at = "answer"
  /\ WriteHeader(status)
  /\ Goto("body")
  /\ UNCHANGED <<input, decided, recorded>>

\* Instrument counts what the recorder holds when the handler has returned.
Count ==
  /\ at \in {"body", "recovered"}
  /\ recorded' = recorder.status
  /\ Goto("done")
  /\ UNCHANGED <<input, decided, recorder, sent>>

\* The request's own goroutine panics.
Panic ==
  /\ at \notin {"panicked", "recovered", "done", "crashed"}
  /\ Goto("panicked")
  /\ UNCHANGED <<input, decided, written>>

\* Middleware recovers it and answers, if nothing was answered before.
Recover ==
  /\ at = "panicked"
  /\ WriteHeader(500)
  /\ Goto("recovered")
  /\ UNCHANGED <<input, decided, recorded>>

\* A worker of the pool panics: nobody recovers it, the process ends (what a
\* dying process may still write is not followed; the pool's end is BatchPool).
WorkerPanics ==
  /\ at = "bucket"
  /\ input.op # "verify"
  /\ Objects # {}
  /\ Goto("crashed")
  /\ UNCHANGED <<input, decided, written>>

Next ==
  \/ Refuse \/ CacheHit \/ CacheMiss
  \/ \E q \in Question : AskGitHub(q)
  \/ CheckPermission \/ BatchObjects \/ VerifyObject
  \/ Respond \/ Count
  \/ Panic \/ Recover \/ WorkerPanics

Spec == Init /\ [][Next]_vars

-----------------------------------------------------------------------------
Places == Question \cup {"gates", "permission", "bucket", "answer", "body",
                         "panicked", "recovered", "done", "crashed"}

Status == {0, 200, 400, 401, 403, 404, 406, 413, 415, 422, 429, 503}

TypeOK ==
  /\ input \in Input
  /\ at \in Places
  /\ page \in 0..MaxPages
  /\ said \in Seq(AllReplies) /\ Len(said) <= MaxPages + 2
  /\ perm \in {None} \cup PermissionNone..PermissionWrite
  /\ Len(heads) <= Len(input.objects)
  /\ DOMAIN codes \in {{}, Objects}
  /\ status \in Status
  /\ recorder.status \in (Status \cup {500}) \ {0}
  /\ {sent, recorded} \subseteq Status \cup {500}

LastSaid(P(_)) == said # <<>> /\ P(said[Len(said)])

\* What fails for now, whatever the code makes of it.
Down(r) == r.code = 0 \/ r.code >= 500 \/ r.says = "garbled"
Limited(r) == r.limit # "none"
PlainlyLimited(r) == r.code = 429 \/ r.limit = "primary"
NoAnswer(h) == h.code = 0 \/ h.code = 429 \/ h.code >= 500

(***************************************************************************)
(* Nothing is called wrong for good because GitHub or the bucket fails for *)
(* now, through three layers of error values (github.go:292,               *)
(* handler.go:425, s3store.go:196): a rate limit told by 429 or by the     *)
(* header is answered 429, what does not answer 503, for a request or for  *)
(* an object in a Batch (docs/content/docs/architecture.md:42).  A         *)
(* secondary limit told by 403 is not recognised, and answered 404         *)
(* (github.go:300): see Explained.                                         *)
(***************************************************************************)
TransientIsRetryable ==
  status # 0 =>
    /\ LastSaid(PlainlyLimited) => status = 429
    /\ LastSaid(Down) => status = 503
    /\ heads # <<>> =>
         IF input.op = "verify" THEN NoAnswer(heads[1]) => status = 503
         ELSE \A k \in Objects : NoAnswer(heads[k]) => codes[k] = 503

-----------------------------------------------------------------------------
(* What each status means by the table of docs/content/docs/operations.md. *)

\* :24, "Missing, malformed, expired, non-ghu_, or wrong-App credential", the
\* last being one whose user is not shown the installation.
BadCredential ==
  \/ input.token # "ghu_"
  \/ Len(said) > 1 /\ LastSaid(LAMBDA r : r.code = 401)
  \/ LastSaid(LAMBDA r : r.says = "last")

\* :25, "User has pull but not push permission", on upload or Verify.
MayNotPush == input.op # "download" /\ perm = PermissionRead

\* :26, "Repository inaccessible, installation denied, App absent, or object
\* absent".
NotThere ==
  \/ LastSaid(LAMBDA r : r.code = 404 \/ (r.code = 403 /\ ~Limited(r)))
  \/ LastSaid(LAMBDA r : r.says \in {"not_admitted", "nameless"})
  \/ input.op = "download" /\ perm = PermissionNone
  \/ input.op = "verify" /\ heads # <<>> /\ heads[1].code = 404

\* :27, "Request validation failed or existing object metadata conflicts".
Conflicts(h) == h.code = 200 /\ ~h.same
Unprocessable ==
  \/ ~Valid(input)
  \/ input.op = "verify" /\ heads # <<>> /\ Conflicts(heads[1])

\* :29, "GitHub or S3 is temporarily unavailable".
ForNow ==
  \/ LastSaid(Down)
  \/ input.op = "verify" /\ heads # <<>> /\ NoAnswer(heads[1])

\* What the code answers with these statuses beyond the table: the App's own
\* JWT refused, which is the first question's; a status that it does not know;
\* no permission at all; a secondary rate limit; a list of installations that
\* is too long; a bucket that refuses; a presigning that fails.
AppRefused == Len(said) = 1 /\ said[1].code = 401         \* github.go:294
UnknownStatus == LastSaid(LAMBDA r : r.code = 422)         \* github.go:309
NoPull == input.op # "download" /\ perm = PermissionNone   \* handler.go:166, 342
SecondaryLimit ==                                          \* github.go:300
  LastSaid(LAMBDA r : r.code = 403 /\ r.limit = "secondary")
ListTooLong ==                                             \* github.go:229
  LastSaid(LAMBDA r : r.says = "more") /\ page = MaxPages
Refuses(h) == h.code \notin {200, 404} /\ ~NoAnswer(h)     \* s3store.go:215
BucketRefuses == input.op = "verify" /\ heads # <<>> /\ Refuses(heads[1])
Unsigned(h) == ~h.signed /\ Presigns(input.op, h)          \* handler.go:278, 290

(***************************************************************************)
(* A status of the table of operations.md:22-29, of a request or of an     *)
(* object in a Batch, means what the table says of it, or is one of the    *)
(* seven exceptions named above, in which the code departs from the table: *)
(* no other mixture of inputs and answers is told as one of them.          *)
(***************************************************************************)
Explained ==
  /\ status = 401 => BadCredential \/ AppRefused \/ UnknownStatus
  /\ status = 403 => MayNotPush \/ NoPull
  /\ status = 404 => NotThere \/ SecondaryLimit
  /\ status = 422 => Unprocessable
  /\ status = 429 => LastSaid(Limited)
  /\ status = 503 => ForNow \/ ListTooLong \/ BucketRefuses
  /\ (input.op # "verify" /\ heads # <<>>) =>
       \A k \in Objects :
         /\ codes[k] = 404 => input.op = "download" /\ heads[k].code = 404
         /\ codes[k] = 422 => Conflicts(heads[k])
         /\ codes[k] = 503 => NoAnswer(heads[k]) \/ Refuses(heads[k]) \/ Unsigned(heads[k])

(***************************************************************************)
(* The bucket is asked, and an action or a Verify's 200 given, only for a  *)
(* request that passed every gate, from a user with the permission the     *)
(* operation needs, which was in the cache or is what GitHub said after    *)
(* admitting the installation and showing it to the user                   *)
(* (handler.go:131-173, 311-346; github.go:134-187).                       *)
(***************************************************************************)
ServedIsAuthorized ==
  (heads # <<>> \/ status = 200) =>
    /\ input.acceptable /\ input.typed /\ input.body = "fine" /\ input.token = "ghu_"
    /\ perm >= IF input.op = "download" THEN PermissionRead ELSE PermissionWrite
    /\ (said # <<>>) =>
         /\ said[1].says = "admitted"
         /\ \E k \in 2..(Len(said) - 1) : said[k].says = "found"
         /\ LastSaid(LAMBDA r : PermissionIn(r.says) = perm)

(***************************************************************************)
(* A request is refused as inconsistent if and only if it is: an OID or a  *)
(* size out of bounds, too many objects, or one OID with two sizes         *)
(* anywhere in the batch (handler.go:176-221).                             *)
(***************************************************************************)
Consistent(i) ==
  /\ i.op = "verify" \/ (i.fields /\ Len(i.objects) <= MaxObjects)
  /\ \A k \in 1..Len(i.objects) :
       i.objects[k].oid \in WellFormed /\ i.objects[k].size \in 0..MaxObjectSize
  /\ \A j, k \in 1..Len(i.objects) :
       i.objects[j].oid = i.objects[k].oid => i.objects[j].size = i.objects[k].size

ValidatedExactly ==
  /\ (said # <<>> \/ heads # <<>>) => Consistent(input)
  /\ (status = 422 /\ heads = <<>>) => ~Consistent(input)

(***************************************************************************)
(* The status counted for a request is the one its client got, also when   *)
(* the handler panics after it wrote the header and Middleware answers     *)
(* once more (metrics.go:75-97).                                           *)
(***************************************************************************)
RecordedIsSent == at = "done" => recorded = sent
=============================================================================
