------------------------------ MODULE Transfer ------------------------------
(***************************************************************************)
(* The life of Git LFS transfers through GOLFS: Batch and Verify of        *)
(* internal/lfs/handler.go, HEAD and presigning of                         *)
(* internal/storage/s3store/s3store.go, and, as these use them, the bucket *)
(* and the Git LFS client.                                                 *)
(*                                                                         *)
(* GOLFS keeps nothing between requests; everything it knows of the bucket *)
(* is the answer of one HEAD, already old when it is used.  Bodies go from *)
(* client to bucket directly, may arrive long after the client gave up and *)
(* began again, twice, or never.                                           *)
(*                                                                         *)
(* Bytes are named by their SHA-256, so an Oid is also a body.             *)
(* Authorization is a constant of the client here (Authorize is about how  *)
(* it is found, Golfs about how long it lasts); time is absent, so a       *)
(* presigned URL may expire at any moment.                                 *)
(***************************************************************************)
EXTENDS Integers, FiniteSets

CONSTANTS
  Client,         \* clients, each transferring one object
  Repo, Oid,
  Length,         \* Length[o]: the size of the bytes whose hash is o
  MaxObjectSize,
  Slot,           \* PUT requests one client can have on the wire at once
  Jobs,           \* the transfers considered, see Job
  Nobody, NoBytes

PermissionNone == 0
PermissionRead == 1
PermissionWrite == 2

\* body: the bytes the client will send, which need not match oid or size.
Job == [op : {"upload", "download"}, repo : Repo, oid : Oid, size : Nat,
        body : Oid, perm : PermissionNone..PermissionWrite]

ASSUME LengthAssumption == Length \in [Oid -> Nat]
ASSUME JobsAssumption == Jobs \subseteq Job
ASSUME MarksAssumption == Nobody \notin Client /\ NoBytes \notin Oid

Key == Repo \X Oid

VARIABLES
  job,     \* job[c]: what client c wants; chosen once
  phase,   \* phase[c]: where its current attempt stands
  head,    \* head[c]: the HEAD answer its request holds
  store,   \* store[k]: the bytes under k and the client that put them there
  wire,    \* wire[c][s]: a PUT of c: "free", "sent" or "streaming"
  got      \* got[c]: the bytes a download returned

vars == <<job, phase, head, store, wire, got>>

Absent == [bytes |-> NoBytes, by |-> Nobody]
Target(c) == <<job[c].repo, job[c].oid>>
Stored(k) == store[k] # Absent

NoAnswer == [status |-> "none", size |-> 0]
NotFound == [status |-> "not found", size |-> 0]
Unavailable == [status |-> "unavailable", size |-> 0]
Found(n) == [status |-> "found", size |-> n]

\* What the bucket says of k when it answers.
Truth(k) == IF Stored(k) THEN Found(Length[store[k].bytes]) ELSE NotFound

\* (mutant) The object is there, whatever its size.
MatchesAnySize(a, size) == a.status = "found"

Matches(a, size) == a.status = "found" /\ a.size = size

Init ==
  /\ job \in [Client -> Jobs]
  /\ phase = [c \in Client |-> "idle"]
  /\ head = [c \in Client |-> NoAnswer]
  /\ store = [k \in Key |-> Absent]
  /\ wire = [c \in Client |-> [s \in Slot |-> "free"]]
  /\ got = [c \in Client |-> NoBytes]

Goto(c, p) == phase' = [phase EXCEPT ![c] = p]
Hold(c, a) == head' = [head EXCEPT ![c] = a]

\* A handler is done with the HEAD answer and replies.
Reply(c, p) ==
  /\ Goto(c, p)
  /\ Hold(c, NoAnswer)
  /\ UNCHANGED <<job, store, wire, got>>

-----------------------------------------------------------------------------
(* Batch                                                                   *)

SendBatch(c) ==
  /\ phase[c] = "idle"
  /\ Goto(c, "batch")
  /\ UNCHANGED <<job, head, store, wire, got>>

\* (mutant) One gate for both operations.
NeededRead(op) == PermissionRead

\* validateBatch's size check and the permission gates at handler.go:162, 166.
Needed(op) == IF op = "upload" THEN PermissionWrite ELSE PermissionRead

Admitted(c) ==
  /\ job[c].size <= MaxObjectSize
  /\ job[c].perm >= Needed(job[c].op)

BatchRefused(c) ==
  /\ phase[c] = "batch"
  /\ ~Admitted(c)
  /\ Reply(c, "refused")

BatchHead(c, a) ==
  /\ phase[c] = "batch"
  /\ Admitted(c)
  /\ Goto(c, "batchHead")
  /\ Hold(c, a)
  /\ UNCHANGED <<job, store, wire, got>>

\* (mutant) A failing bucket is reported as final.
UploadVerdictFinal(a, size) ==
  CASE Matches(a, size)        -> "complete"
    [] a.status = "not found"  -> "put"
    [] OTHER                   -> "refused"

\* processObject's decision, from the answer held.  "complete": the object
\* exists and no action is returned; "put" and "get": with the upload and
\* verify actions, with the download action; "idle": 503, to be retried.
UploadVerdict(a, size) ==
  CASE Matches(a, size)                      -> "complete"
    [] a.status = "found" /\ a.size # size   -> "refused"
    [] a.status = "not found"                -> "put"
    [] OTHER                                 -> "idle"

\* (mutant) A download action for whatever is stored.
DownloadVerdictUnchecked(a, size) ==
  CASE a.status = "found"        -> "get"
    [] a.status = "unavailable"  -> "idle"
    [] OTHER                     -> "refused"

DownloadVerdict(a, size) ==
  CASE Matches(a, size)            -> "get"
    [] a.status = "unavailable"    -> "idle"
    [] OTHER                       -> "refused"

BatchReply(c) ==
  /\ phase[c] = "batchHead"
  /\ Reply(c, IF job[c].op = "upload"
              THEN UploadVerdict(head[c], job[c].size)
              ELSE DownloadVerdict(head[c], job[c].size))

-----------------------------------------------------------------------------
(* Verify                                                                  *)

\* After its PUT, or at once: the answer to an earlier PUT may have been lost.
SendVerify(c) ==
  /\ phase[c] \in {"idle", "sent"}
  /\ job[c].op = "upload"
  /\ Goto(c, "verify")
  /\ UNCHANGED <<job, head, store, wire, got>>

\* validateObject's size check and the permission gate at handler.go:342.
VerifyRefused(c) ==
  /\ phase[c] = "verify"
  /\ ~Admitted(c)
  /\ Reply(c, "refused")

VerifyHead(c, a) ==
  /\ phase[c] = "verify"
  /\ Admitted(c)
  /\ Goto(c, "verifyHead")
  /\ Hold(c, a)
  /\ UNCHANGED <<job, store, wire, got>>

\* (mutant) No news from the bucket is good news.
VerifyVerdictTrusting(a, size) ==
  CASE Matches(a, size) \/ a.status = "unavailable" -> "complete"
    [] a.status = "found" /\ a.size # size -> "refused"
    [] OTHER                 -> "idle"

\* 404 and 503 send the client back; 422 is final.
VerifyVerdict(a, size) ==
  CASE Matches(a, size)      -> "complete"
    [] a.status = "found" /\ a.size # size -> "refused"
    [] OTHER                 -> "idle"

VerifyReply(c) ==
  /\ phase[c] = "verifyHead"
  /\ Reply(c, VerifyVerdict(head[c], job[c].size))

\* A request dies with its connection or its replica, its authorization or
\* presigning fails for now, or its response is lost; the client starts again.
\* No step of the handlers before the response changes the bucket.
RequestLost(c) ==
  /\ phase[c] \in {"batch", "batchHead", "verify", "verifyHead"}
  /\ Reply(c, "idle")

-----------------------------------------------------------------------------
(* The bucket and the client's direct transfers                            *)

SetWire(c, s, w) == wire' = [wire EXCEPT ![c][s] = w]

SendPut(c, s) ==
  /\ phase[c] = "put"
  /\ wire[c][s] = "free"
  /\ SetWire(c, s, "sent")
  /\ Goto(c, "sent")
  /\ UNCHANGED <<job, head, store, got>>

\* No usable answer to the PUT: back to Batch, with the PUT perhaps underway.
GiveUpPut(c) ==
  /\ phase[c] \in {"put", "sent", "get"}
  /\ Goto(c, "idle")
  /\ UNCHANGED <<job, head, store, wire, got>>

\* The presigned request signs Content-Length (s3store.go:115); the SDK leaves
\* it out for a size of 0, which any length then fits.
LengthSigned(c) == job[c].size = 0 \/ Length[job[c].body] = job[c].size

BeginPut(c, s) ==
  /\ wire[c][s] = "sent"
  /\ LengthSigned(c)
  /\ SetWire(c, s, "streaming")
  /\ UNCHANGED <<job, phase, head, store, got>>

\* (mutants) Without If-None-Match; with UNSIGNED-PAYLOAD.
MayReplace(k) == TRUE
PayloadUnsigned(c) == TRUE

\* It signs If-None-Match: * (line 116), decided when the body is in,
MayCreate(k) == ~Stored(k)

\* and the payload hash, which bindPayloadHash sets to the OID.
PayloadHashSigned(c) == job[c].body = job[c].oid

CommitPut(c, s) ==
  /\ wire[c][s] = "streaming"
  /\ MayCreate(Target(c))
  /\ PayloadHashSigned(c)
  /\ store' = [store EXCEPT ![Target(c)] = [bytes |-> job[c].body, by |-> c]]
  /\ SetWire(c, s, "free")
  /\ UNCHANGED <<job, phase, head, got>>

\* Refused (expired, wrong length, wrong hash, key exists) or broken off.
DropPut(c, s) ==
  /\ wire[c][s] # "free"
  /\ SetWire(c, s, "free")
  /\ UNCHANGED <<job, phase, head, store, got>>

GetObject(c) ==
  /\ phase[c] = "get"
  /\ Stored(Target(c))
  /\ got' = [got EXCEPT ![c] = store[Target(c)].bytes]
  /\ Goto(c, "complete")
  /\ UNCHANGED <<job, head, store, wire>>

-----------------------------------------------------------------------------
HeadAnswers(c) == {Truth(Target(c)), Unavailable}

Handler(c) ==
  \/ BatchRefused(c) \/ VerifyRefused(c)
  \/ \E a \in HeadAnswers(c) : BatchHead(c, a) \/ VerifyHead(c, a)
  \/ BatchReply(c)
  \/ VerifyReply(c)
  \/ RequestLost(c)

Outside(c) ==
  \/ SendBatch(c) \/ SendVerify(c) \/ GiveUpPut(c) \/ GetObject(c)
  \/ \E s \in Slot : \/ SendPut(c, s) \/ BeginPut(c, s)
                     \/ CommitPut(c, s) \/ DropPut(c, s)

Next == \E c \in Client : Handler(c) \/ Outside(c)

Spec == Init /\ [][Next]_vars

\* A Batch answered from what the bucket said.
BatchInformed(c) == head[c] # Unavailable /\ BatchReply(c)

(***************************************************************************)
(* No attempt hangs: a client gives up a request, and a PUT, that is not   *)
(* answered (RequestLost, GiveUpPut), whatever the server does, whose S3   *)
(* client has no timeout.  Clients keep coming back with a Batch, and of   *)
(* infinitely many Batches, HEADs and PUTs some get through.  All this is  *)
(* assumed of clients, network and S3; no code here ensures it.            *)
(***************************************************************************)
Fairness ==
  \A c \in Client :
    /\ WF_vars(Handler(c) \/ GiveUpPut(c))
    /\ SF_vars(SendBatch(c))
    /\ SF_vars(BatchHead(c, Truth(Target(c))))
    /\ SF_vars(BatchInformed(c))
    /\ SF_vars(\E s \in Slot : SendPut(c, s))
    /\ SF_vars(\E s \in Slot : BeginPut(c, s))
    /\ SF_vars(\E s \in Slot : CommitPut(c, s))

LiveSpec == Spec /\ Fairness

-----------------------------------------------------------------------------
Phases == {"idle", "batch", "batchHead", "put", "sent", "verify",
           "verifyHead", "get", "complete", "refused"}

TypeOK ==
  /\ job \in [Client -> Jobs]
  /\ phase \in [Client -> Phases]
  /\ head \in [Client -> [status : {"none", "not found", "unavailable", "found"},
                          size : Nat]]
  /\ store \in [Key -> [bytes : Oid \cup {NoBytes}, by : Client \cup {Nobody}]]
  /\ wire \in [Client -> [Slot -> {"free", "sent", "streaming"}]]
  /\ got \in [Client -> Oid \cup {NoBytes}]

(***************************************************************************)
(* Whatever clients send, in whatever order, the bytes under a key have    *)
(* the hash and therefore the length the key names: GOLFS sees no body and *)
(* relies on the payload hash bound at s3store.go:160-184.                 *)
(***************************************************************************)
Integrity == \A k \in Key : Stored(k) => store[k].bytes = k[2]

(***************************************************************************)
(* An object was created by a client with write permission on the          *)
(* repository it is in, which asked for that very object (handler.go:166,  *)
(* s3store.go:148).                                                        *)
(***************************************************************************)
CreatedByWriter ==
  \A k \in Key : Stored(k) =>
    \E c \in Client : /\ store[k].by = c
                      /\ Target(c) = k
                      /\ job[c].perm = PermissionWrite
                      /\ job[c].op = "upload"

(***************************************************************************)
(* An object once created is never created again or replaced, although the *)
(* HEAD on whose word an upload URL was issued is stale by the time of the *)
(* PUT (handler.go:246-276).                                               *)
(***************************************************************************)
CreatedOnce == [][\A k \in Key : Stored(k) => store'[k] = store[k]]_vars

(***************************************************************************)
(* A client told that its upload is complete, by Verify or by a Batch      *)
(* answered without actions, has its bytes in the bucket, all of them,     *)
(* although both compare sizes only (handler.go:303).                      *)
(***************************************************************************)
CompleteIsStored ==
  \A c \in Client :
    phase[c] = "complete" =>
      /\ store[Target(c)].bytes = job[c].oid
      /\ job[c].size = Length[job[c].oid]

(***************************************************************************)
(* A download action leads to the bytes asked for.                         *)
(***************************************************************************)
DownloadIntact ==
  \A c \in Client :
    got[c] # NoBytes => /\ got[c] = job[c].oid
                        /\ Length[got[c]] = job[c].size
                        /\ job[c].perm >= PermissionRead

(***************************************************************************)
(* GOLFS and the bucket implement the register of ObjectRegistry.          *)
(***************************************************************************)
Registry == INSTANCE ObjectRegistry WITH
  target <- [c \in Client |-> Target(c)],
  mayWrite <- {c \in Client : job[c].op = "upload" /\ job[c].perm = PermissionWrite},
  owner <- [k \in Key |-> store[k].by],
  told <- {c \in Client : phase[c] = "complete"}

ImplementsRegistry == Registry!Spec

\* What makes these inductive: who may be where, which PUTs may be on the
\* wire, and that an answer "found" stays true however old it gets.
Uploader(c) == job[c].op = "upload" /\ job[c].perm = PermissionWrite

PhasesAdmitted ==
  \A c \in Client :
    /\ phase[c] = "batchHead" => Admitted(c)
    /\ phase[c] \in {"put", "sent"} => Uploader(c)
    /\ phase[c] = "get" => /\ job[c].perm >= PermissionRead
                          /\ job[c].size = Length[job[c].oid]

WireAdmitted ==
  \A c \in Client, s \in Slot : wire[c][s] # "free" => Uploader(c)

AnswersTrue ==
  \A c \in Client :
    head[c].status = "found" => /\ Stored(Target(c))
                                /\ head[c].size = Length[job[c].oid]

Inv ==
  /\ TypeOK
  /\ Integrity
  /\ CreatedByWriter
  /\ PhasesAdmitted
  /\ WireAdmitted
  /\ AnswersTrue
  /\ CompleteIsStored
  /\ DownloadIntact

(***************************************************************************)
(* A client allowed to upload, with the right bytes, gets there: lost      *)
(* responses, late PUTs, lost races and expired URLs all end in an object  *)
(* found with its size (docs/content/docs/architecture.md:44-49).          *)
(***************************************************************************)
Honest(c) ==
  /\ job[c].op = "upload"
  /\ Admitted(c)
  /\ job[c].body = job[c].oid
  /\ job[c].size = Length[job[c].oid]

Convergence == \A c \in Client : Honest(c) ~> phase[c] = "complete"
=============================================================================
