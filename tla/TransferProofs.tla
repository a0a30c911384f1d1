--------------------------- MODULE TransferProofs ---------------------------
(***************************************************************************)
(* For any clients, repositories, objects and transfers: what Batch and    *)
(* Verify tell is true, and GOLFS with its bucket implements               *)
(* ObjectRegistry.                                                         *)
(***************************************************************************)
EXTENDS Transfer, TLAPS

\* A step that leaves the bucket, the wire, the jobs and the downloads alone.
Frame == UNCHANGED <<job, store, wire, got>>

\* Keys and job fields of a client are what their types say.
LEMMA JobLemma ==
  ASSUME TypeOK, NEW c \in Client
  PROVE  /\ job[c] \in Job
         /\ Target(c) \in Key
         /\ job[c].oid \in Oid /\ job[c].body \in Oid
         /\ job[c].size \in Nat
         /\ job[c].perm \in {PermissionNone, PermissionRead, PermissionWrite}
         /\ Length[job[c].oid] \in Nat
<1>1. job[c] \in Job
  BY JobsAssumption DEF TypeOK
<1> QED BY <1>1, LengthAssumption
        DEF Job, Target, Key, PermissionNone, PermissionRead, PermissionWrite

\* Having write permission, as the gates test it.
LEMMA AdmittedUploader ==
  ASSUME TypeOK, NEW c \in Client, Admitted(c), job[c].op = "upload"
  PROVE  Uploader(c)
  BY JobLemma
     DEF Admitted, Needed, Uploader, PermissionNone, PermissionRead, PermissionWrite

\* A stored object is not the mark Absent.
LEMMA StoredLemma ==
  ASSUME TypeOK, Integrity, CreatedByWriter, NEW k \in Key
  PROVE  /\ Stored(k) => /\ store[k].bytes = k[2] /\ store[k].bytes \in Oid
                         /\ store[k].by \in Client /\ store[k].by # Nobody
         /\ ~Stored(k) => store[k].by = Nobody
<1>1. CASE Stored(k)
  BY <1>1, MarksAssumption DEF Integrity, CreatedByWriter, Key
<1>2. CASE ~Stored(k)
  BY <1>2 DEF Stored, Absent
<1> QED BY <1>1, <1>2

\* The bucket's own answer is true.
LEMMA TruthLemma ==
  ASSUME TypeOK, Integrity, CreatedByWriter, NEW c \in Client,
         NEW a \in HeadAnswers(c)
  PROVE  /\ a \in [status : {"none", "not found", "unavailable", "found"}, size : Nat]
         /\ a.status = "found" => /\ Stored(Target(c))
                                  /\ a.size = Length[job[c].oid]
<1>1. Target(c) \in Key /\ Length[job[c].oid] \in Nat /\ Target(c)[2] = job[c].oid
  BY JobLemma DEF Target
<1>2. CASE a = Unavailable
  BY <1>2 DEF Unavailable
<1>3. CASE a = Truth(Target(c)) /\ Stored(Target(c))
  BY <1>1, <1>3, StoredLemma DEF Truth, Found
<1>4. CASE a = Truth(Target(c)) /\ ~Stored(Target(c))
  BY <1>4 DEF Truth, NotFound
<1> QED BY <1>2, <1>3, <1>4 DEF HeadAnswers

-----------------------------------------------------------------------------
LEMMA InitLemma == Init => Inv
<1> SUFFICES ASSUME Init PROVE Inv
  OBVIOUS
<1>1. TypeOK
  BY DEF Init, TypeOK, Phases, NoAnswer, Absent
<1>2. \A k \in Key : ~Stored(k)
  BY DEF Init, Stored
<1> QED BY <1>1, <1>2
        DEF Init, Inv, Integrity, CreatedByWriter, PhasesAdmitted, WireAdmitted,
            AnswersTrue, CompleteIsStored, DownloadIntact, NoAnswer

(***************************************************************************)
(* A step of client c that changes only its phase and the answer it holds  *)
(* keeps Inv if the new phase and answer are justified.                    *)
(***************************************************************************)
Justified(c, p) ==
  /\ p \in Phases
  /\ p = "batchHead" => Admitted(c)
  /\ p \in {"put", "sent"} => Uploader(c)
  /\ p = "get" => job[c].perm >= PermissionRead /\ job[c].size = Length[job[c].oid]
  /\ p = "complete" => /\ Stored(Target(c))
                       /\ job[c].size = Length[job[c].oid]

LEMMA PhaseStep ==
  ASSUME Inv, NEW c \in Client, NEW p, NEW a,
         Justified(c, p), phase' = [phase EXCEPT ![c] = p],
         a \in [status : {"none", "not found", "unavailable", "found"}, size : Nat],
         a.status = "found" => /\ Stored(Target(c))
                               /\ a.size = Length[job[c].oid],
         head' = [head EXCEPT ![c] = a],
         Frame
  PROVE  Inv'
<1> USE DEF Inv
<1>1. TypeOK'
  BY DEF TypeOK, Frame, Justified
<1>2. Integrity' /\ CreatedByWriter' /\ WireAdmitted' /\ DownloadIntact'
  BY DEF Frame, Integrity, CreatedByWriter, WireAdmitted, DownloadIntact,
         Stored, Target, Uploader
<1>3. \A d \in Client : /\ phase'[d] = IF d = c THEN p ELSE phase[d]
                        /\ head'[d] = IF d = c THEN a ELSE head[d]
  BY DEF TypeOK
<1>4. ASSUME NEW d \in Client
      PROVE  /\ (Target(d))' = Target(d)
             /\ (Stored(Target(d)))' = Stored(Target(d))
             /\ (Uploader(d))' = Uploader(d)
             /\ (Admitted(d))' = Admitted(d)
             /\ job'[d] = job[d]
             /\ store'[Target(d)] = store[Target(d)]
  BY DEF Frame, Target, Stored, Uploader, Admitted
<1>5. PhasesAdmitted'
  <2> SUFFICES ASSUME NEW d \in Client
               PROVE  /\ phase'[d] = "batchHead" => Admitted(d)
                      /\ phase'[d] \in {"put", "sent"} => Uploader(d)
                      /\ phase'[d] = "get" =>
                           /\ job[d].perm >= PermissionRead
                           /\ job[d].size = Length[job[d].oid]
    BY <1>4 DEF PhasesAdmitted
  <2>1. CASE d = c
    <3>1. phase'[d] = p
      BY <1>3, <2>1
    <3> QED BY <2>1, <3>1 DEF Justified
  <2>2. CASE d # c
    <3>1. phase'[d] = phase[d]
      BY <1>3, <2>2
    <3> QED BY <3>1 DEF PhasesAdmitted
  <2> QED BY <2>1, <2>2
<1>6. AnswersTrue'
  <2> SUFFICES ASSUME NEW d \in Client, head'[d].status = "found"
               PROVE  Stored(Target(d)) /\ head'[d].size = Length[job[d].oid]
    BY <1>4 DEF AnswersTrue
  <2>1. CASE d = c
    BY <1>3, <2>1
  <2>2. CASE d # c
    <3>1. head'[d] = head[d]
      BY <1>3, <2>2
    <3> QED BY <3>1 DEF AnswersTrue
  <2> QED BY <2>1, <2>2
<1>7. CompleteIsStored'
  <2> SUFFICES ASSUME NEW d \in Client, phase'[d] = "complete"
               PROVE  /\ store[Target(d)].bytes = job[d].oid
                      /\ job[d].size = Length[job[d].oid]
    BY DEF CompleteIsStored, Frame, Target
  <2>1. CASE d = c
    <3>1. Stored(Target(c)) /\ job[c].size = Length[job[c].oid]
      <4>1. p = "complete"
        BY <1>3, <2>1
      <4> QED BY <4>1 DEF Justified
    <3>2. Target(c) \in Key /\ Target(c)[2] = job[c].oid
      BY JobLemma DEF Target
    <3> QED BY <2>1, <3>1, <3>2, StoredLemma
  <2>2. CASE d # c
    <3>1. phase'[d] = phase[d]
      BY <1>3, <2>2
    <3> QED BY <3>1 DEF CompleteIsStored
  <2> QED BY <2>1, <2>2
<1> QED BY <1>1, <1>2, <1>5, <1>6, <1>7

\* A handler's reply.
LEMMA ReplyStep ==
  ASSUME Inv, NEW c \in Client, NEW p, Justified(c, p), Reply(c, p)
  PROVE  Inv'
<1>1. /\ NoAnswer \in [status : {"none", "not found", "unavailable", "found"}, size : Nat]
      /\ NoAnswer.status # "found"
  BY DEF NoAnswer
<1> QED BY <1>1, PhaseStep DEF Reply, Goto, Hold, Frame

\* A step that moves c on and leaves its answer alone.
LEMMA MoveStep ==
  ASSUME Inv, NEW c \in Client, NEW p, Justified(c, p),
         Goto(c, p), UNCHANGED head, Frame
  PROVE  Inv'
<1>1. /\ head[c] \in [status : {"none", "not found", "unavailable", "found"}, size : Nat]
      /\ head' = [head EXCEPT ![c] = head[c]]
      /\ head[c].status = "found" => /\ Stored(Target(c))
                                     /\ head[c].size = Length[job[c].oid]
  BY DEF Inv, TypeOK, AnswersTrue
<1> QED BY <1>1, PhaseStep DEF Goto

\* Batch's decision about an upload, from an answer that may be old.
LEMMA UploadVerdictLemma ==
  ASSUME Inv, NEW c \in Client, phase[c] = "batchHead", job[c].op = "upload"
  PROVE  Justified(c, UploadVerdict(head[c], job[c].size))
<1> USE DEF Inv
<1>1. Uploader(c)
  BY AdmittedUploader DEF PhasesAdmitted
<1>2. Matches(head[c], job[c].size) =>
        Stored(Target(c)) /\ job[c].size = Length[job[c].oid]
  BY DEF Matches, AnswersTrue
<1>3. /\ UploadVerdict(head[c], job[c].size) \in {"complete", "refused", "put", "idle"}
      /\ UploadVerdict(head[c], job[c].size) = "complete"
           => Matches(head[c], job[c].size)
  BY DEF UploadVerdict, Matches
<1> QED BY <1>1, <1>2, <1>3 DEF Justified, Phases

\* Batch's decision about a download.
LEMMA DownloadVerdictLemma ==
  ASSUME Inv, NEW c \in Client, phase[c] = "batchHead"
  PROVE  Justified(c, DownloadVerdict(head[c], job[c].size))
<1> USE DEF Inv
<1>1. job[c].perm >= PermissionRead
  BY JobLemma DEF PhasesAdmitted, Admitted, Needed,
                  PermissionNone, PermissionRead, PermissionWrite
<1>2. Matches(head[c], job[c].size) => job[c].size = Length[job[c].oid]
  BY DEF Matches, AnswersTrue
<1>3. /\ DownloadVerdict(head[c], job[c].size) \in {"get", "refused", "idle"}
      /\ DownloadVerdict(head[c], job[c].size) = "get"
           => Matches(head[c], job[c].size)
  BY DEF DownloadVerdict, Matches
<1> QED BY <1>1, <1>2, <1>3 DEF Justified, Phases

\* Verify's decision.
LEMMA VerifyVerdictLemma ==
  ASSUME Inv, NEW c \in Client
  PROVE  Justified(c, VerifyVerdict(head[c], job[c].size))
<1>1. Matches(head[c], job[c].size) =>
        Stored(Target(c)) /\ job[c].size = Length[job[c].oid]
  BY DEF Inv, Matches, AnswersTrue
<1>2. /\ VerifyVerdict(head[c], job[c].size) \in {"complete", "refused", "idle"}
      /\ VerifyVerdict(head[c], job[c].size) = "complete"
           => Matches(head[c], job[c].size)
  BY DEF VerifyVerdict, Matches
<1> QED BY <1>1, <1>2 DEF Justified, Phases

\* Everything a handler does keeps Inv.
LEMMA HandlerStep ==
  ASSUME Inv, NEW c \in Client, Handler(c)
  PROVE  Inv'
<1>1. \A p \in {"idle", "refused"} : Justified(c, p)
  BY DEF Justified, Phases
<1>2. CASE BatchRefused(c) \/ VerifyRefused(c) \/ RequestLost(c)
  BY <1>1, <1>2, ReplyStep DEF BatchRefused, VerifyRefused, RequestLost
<1>3. ASSUME NEW a \in HeadAnswers(c), BatchHead(c, a) \/ VerifyHead(c, a)
      PROVE  Inv'
  <2>1. /\ a \in [status : {"none", "not found", "unavailable", "found"}, size : Nat]
        /\ a.status = "found" => /\ Stored(Target(c))
                                 /\ a.size = Length[job[c].oid]
    BY TruthLemma DEF Inv
  <2>2. CASE BatchHead(c, a)
    <3>1. Justified(c, "batchHead")
      BY <2>2 DEF BatchHead, Justified, Phases
    <3> QED BY <2>1, <2>2, <3>1, PhaseStep DEF BatchHead, Goto, Hold, Frame
  <2>3. CASE VerifyHead(c, a)
    <3>1. Justified(c, "verifyHead")
      BY DEF Justified, Phases
    <3> QED BY <2>1, <2>3, <3>1, PhaseStep DEF VerifyHead, Goto, Hold, Frame
  <2> QED BY <1>3, <2>2, <2>3
<1>4. CASE BatchReply(c)
  <2>1. CASE job[c].op = "upload"
    BY <1>4, <2>1, UploadVerdictLemma, ReplyStep DEF BatchReply
  <2>2. CASE job[c].op # "upload"
    BY <1>4, <2>2, DownloadVerdictLemma, ReplyStep DEF BatchReply
  <2> QED BY <2>1, <2>2
<1>5. CASE VerifyReply(c)
  BY <1>5, VerifyVerdictLemma, ReplyStep DEF VerifyReply
<1> QED BY <1>2, <1>3, <1>4, <1>5 DEF Handler

\* A step that only changes the wire, for PUTs of an uploader.
LEMMA WireStep ==
  ASSUME Inv, NEW c \in Client, NEW s \in Slot,
         NEW w \in {"free", "sent", "streaming"}, w # "free" => Uploader(c),
         SetWire(c, s, w), UNCHANGED <<job, phase, head, store, got>>
  PROVE  Inv'
<1> USE DEF Inv
<1>1. TypeOK'
  BY DEF TypeOK, SetWire
<1>2. WireAdmitted'
  <2> SUFFICES ASSUME NEW d \in Client, NEW t \in Slot, wire'[d][t] # "free"
               PROVE  Uploader(d)
    BY DEF WireAdmitted, Uploader
  <2>1. CASE d = c /\ t = s
    BY <2>1 DEF SetWire, TypeOK
  <2>2. CASE ~(d = c /\ t = s)
    <3>1. wire'[d][t] = wire[d][t]
      BY <2>2 DEF SetWire, TypeOK
    <3> QED BY <3>1 DEF WireAdmitted
  <2> QED BY <2>1, <2>2
<1>3. Integrity' /\ CreatedByWriter' /\ AnswersTrue' /\ CompleteIsStored'
      /\ DownloadIntact'
  BY DEF Integrity, CreatedByWriter, AnswersTrue, CompleteIsStored,
         DownloadIntact, Stored, Target
<1>4. PhasesAdmitted'
  BY DEF PhasesAdmitted, Admitted, Uploader
<1> QED BY <1>1, <1>2, <1>3, <1>4

\* The client sends its PUT: a step of its phase and of the wire.
LEMMA SendPutStep ==
  ASSUME Inv, NEW c \in Client, NEW s \in Slot, SendPut(c, s)
  PROVE  Inv'
<1> USE DEF Inv
<1>1. Uploader(c)
  BY DEF SendPut, PhasesAdmitted
<1>2. /\ UNCHANGED <<job, head, store, got>>
      /\ wire' = [wire EXCEPT ![c][s] = "sent"]
      /\ phase' = [phase EXCEPT ![c] = "sent"]
  BY DEF SendPut, SetWire, Goto
<1>3. TypeOK'
  BY <1>2 DEF TypeOK, Phases
<1>4. ASSUME NEW d \in Client
      PROVE  phase'[d] = IF d = c THEN "sent" ELSE phase[d]
  BY <1>2 DEF TypeOK
<1>5. WireAdmitted'
  <2> SUFFICES ASSUME NEW d \in Client, NEW t \in Slot, wire'[d][t] # "free"
               PROVE  Uploader(d)
    BY <1>2 DEF WireAdmitted, Uploader
  <2>1. CASE d = c
    BY <1>1, <2>1
  <2>2. CASE d # c
    <3>1. wire'[d] = wire[d]
      BY <1>2, <2>2 DEF TypeOK
    <3> QED BY <3>1 DEF WireAdmitted
  <2> QED BY <2>1, <2>2
<1>6. PhasesAdmitted'
  <2> SUFFICES ASSUME NEW d \in Client
               PROVE  /\ phase'[d] = "batchHead" => Admitted(d)
                      /\ phase'[d] \in {"put", "sent"} => Uploader(d)
                      /\ phase'[d] = "get" =>
                           /\ job[d].perm >= PermissionRead
                           /\ job[d].size = Length[job[d].oid]
    BY <1>2 DEF PhasesAdmitted, Admitted, Uploader
  <2>1. CASE d = c
    BY <1>1, <1>4, <2>1
  <2>2. CASE d # c
    <3>1. phase'[d] = phase[d]
      BY <1>4, <2>2
    <3> QED BY <3>1 DEF PhasesAdmitted
  <2> QED BY <2>1, <2>2
<1>7. Integrity' /\ CreatedByWriter' /\ AnswersTrue' /\ DownloadIntact'
  BY <1>2 DEF Integrity, CreatedByWriter, AnswersTrue, DownloadIntact, Stored, Target
<1>8. CompleteIsStored'
  <2> SUFFICES ASSUME NEW d \in Client, phase'[d] = "complete"
               PROVE  /\ store[Target(d)].bytes = job[d].oid
                      /\ job[d].size = Length[job[d].oid]
    BY <1>2 DEF CompleteIsStored, Target
  <2>1. phase[d] = "complete"
    BY <1>4
  <2> QED BY <2>1 DEF CompleteIsStored
<1> QED BY <1>3, <1>5, <1>6, <1>7, <1>8

\* The bucket commits a body: only there, and only if nothing was there.
LEMMA CommitStep ==
  ASSUME Inv, NEW c \in Client, NEW s \in Slot, CommitPut(c, s)
  PROVE  /\ Inv'
         /\ \A k \in Key : Stored(k) => store'[k] = store[k]
         /\ Registry!Create(c)
<1> USE DEF Inv
<1>1. /\ UNCHANGED <<job, phase, head, got>>
      /\ wire' = [wire EXCEPT ![c][s] = "free"]
      /\ store' = [store EXCEPT ![Target(c)] = [bytes |-> job[c].body, by |-> c]]
      /\ ~Stored(Target(c)) /\ job[c].body = job[c].oid
  BY DEF CommitPut, SetWire, MayCreate, PayloadHashSigned
<1>2. Uploader(c)
  BY DEF CommitPut, WireAdmitted
<1>3. /\ Target(c) \in Key /\ Target(c)[2] = job[c].oid
      /\ job[c].oid \in Oid /\ job[c].body \in Oid
  BY JobLemma DEF Target
<1>4. TypeOK'
  BY <1>1, <1>3 DEF TypeOK
<1>5. ASSUME NEW k \in Key
      PROVE  /\ store'[k] = IF k = Target(c) THEN [bytes |-> job[c].body, by |-> c]
                            ELSE store[k]
             /\ Stored(k) => store'[k] = store[k]
             /\ Stored(k) => Stored(k)'
  BY <1>1, <1>3 DEF TypeOK, Stored, Absent
<1>6. Stored(Target(c))' = TRUE
  <2>1. store'[Target(c)].bytes = job[c].oid
    BY <1>1, <1>3, <1>5
  <2>2. store'[Target(c)].bytes # NoBytes
    BY <1>3, <2>1, MarksAssumption
  <2> QED BY <1>1, <2>2 DEF Stored, Absent, Target
<1>7. Integrity'
  <2> SUFFICES ASSUME NEW k \in Key, Stored(k)' PROVE store'[k].bytes = k[2]
    BY DEF Integrity
  <2>1. CASE k = Target(c)
    BY <1>1, <1>3, <1>5, <2>1
  <2>2. CASE k # Target(c)
    <3>1. store'[k] = store[k]
      BY <1>5, <2>2
    <3> QED BY <3>1 DEF Integrity, Stored
  <2> QED BY <2>1, <2>2
<1>8. CreatedByWriter'
  <2> SUFFICES ASSUME NEW k \in Key, Stored(k)'
               PROVE  \E d \in Client : /\ store'[k].by = d /\ Target(d) = k
                                        /\ job[d].perm = PermissionWrite
                                        /\ job[d].op = "upload"
    BY <1>1 DEF CreatedByWriter, Target
  <2>1. CASE k = Target(c)
    BY <1>2, <1>5, <2>1 DEF Uploader
  <2>2. CASE k # Target(c)
    <3>1. store'[k] = store[k]
      BY <1>5, <2>2
    <3> QED BY <3>1 DEF CreatedByWriter, Stored
  <2> QED BY <2>1, <2>2
<1>9. PhasesAdmitted' /\ DownloadIntact'
  BY <1>1 DEF PhasesAdmitted, DownloadIntact, Admitted, Uploader
<1>10. WireAdmitted'
  <2> SUFFICES ASSUME NEW d \in Client, NEW t \in Slot, wire'[d][t] # "free"
               PROVE  Uploader(d)
    BY <1>1 DEF WireAdmitted, Uploader
  <2>1. CASE d = c
    BY <1>2, <2>1
  <2>2. CASE d # c
    <3>1. wire'[d] = wire[d]
      BY <1>1, <2>2 DEF TypeOK
    <3> QED BY <3>1 DEF WireAdmitted
  <2> QED BY <2>1, <2>2
<1>11. AnswersTrue'
  <2> SUFFICES ASSUME NEW d \in Client, head[d].status = "found"
               PROVE  /\ Stored(Target(d))'
                      /\ head[d].size = Length[job[d].oid]
    BY <1>1 DEF AnswersTrue
  <2>1. Stored(Target(d)) /\ head[d].size = Length[job[d].oid]
    BY DEF AnswersTrue
  <2>2. Target(d) \in Key /\ Target(d)' = Target(d)
    BY <1>1, JobLemma DEF Target
  <2> QED BY <1>5, <2>1, <2>2 DEF Stored
<1>12. CompleteIsStored'
  <2> SUFFICES ASSUME NEW d \in Client, phase[d] = "complete"
               PROVE  /\ store'[Target(d)].bytes = job[d].oid
                      /\ job[d].size = Length[job[d].oid]
    BY <1>1 DEF CompleteIsStored, Target
  <2>1. /\ store[Target(d)].bytes = job[d].oid
        /\ job[d].size = Length[job[d].oid]
    BY DEF CompleteIsStored
  <2>2. Target(d) \in Key /\ Target(d)[2] = job[d].oid
    BY JobLemma DEF Target
  <2>3. CASE Target(d) = Target(c)
    <3>1. store'[Target(d)].bytes = job[c].body /\ job[c].body = Target(d)[2]
      BY <1>1, <1>3, <1>5, <2>3
    <3> QED BY <2>1, <2>2, <3>1
  <2>4. CASE Target(d) # Target(c)
    BY <1>5, <2>1, <2>2, <2>4
  <2> QED BY <2>3, <2>4
<1>13. Registry!Create(c)
  <2>1. store[Target(c)].by = Nobody
    BY <1>1, <1>3, StoredLemma
  <2>2. [k \in Key |-> store'[k].by]
          = [[k \in Key |-> store[k].by] EXCEPT ![Target(c)] = c]
    <3>1. \A k \in Key : store'[k].by = IF k = Target(c) THEN c ELSE store[k].by
      <4> TAKE k \in Key
      <4>1. CASE k = Target(c)
        BY <1>5, <4>1
      <4>2. CASE k # Target(c)
        <5>1. store'[k] = store[k]
          BY <1>5, <4>2
        <5> QED BY <4>2, <5>1
      <4> QED BY <4>1, <4>2
    <3> QED BY <1>3, <3>1
  <2> QED BY <1>1, <1>2, <1>3, <2>1, <2>2
          DEF Registry!Create, Uploader, Target
<1> QED BY <1>4, <1>5, <1>7, <1>8, <1>9, <1>10, <1>11, <1>12, <1>13

\* A download returns what is stored.
LEMMA GetStep ==
  ASSUME Inv, NEW c \in Client, GetObject(c)
  PROVE  Inv'
<1> USE DEF Inv
<1>1. /\ UNCHANGED <<job, head, store, wire>>
      /\ phase' = [phase EXCEPT ![c] = "complete"]
      /\ got' = [got EXCEPT ![c] = store[Target(c)].bytes]
      /\ phase[c] = "get" /\ Stored(Target(c))
  BY DEF GetObject, Goto
<1>2. /\ store[Target(c)].bytes = job[c].oid /\ job[c].oid \in Oid
      /\ job[c].perm >= PermissionRead /\ job[c].size = Length[job[c].oid]
  <2>1. Target(c) \in Key /\ Target(c)[2] = job[c].oid
    BY JobLemma DEF Target
  <2> QED BY <1>1, <2>1, JobLemma, StoredLemma DEF PhasesAdmitted
<1>3. ASSUME NEW d \in Client
      PROVE  /\ d # c => phase'[d] = phase[d] /\ got'[d] = got[d]
             /\ phase'[c] = "complete" /\ got'[c] = job[c].oid
  BY <1>1, <1>2 DEF TypeOK
<1>4. TypeOK'
  BY <1>1, <1>2 DEF TypeOK, Phases
<1>5. Integrity' /\ CreatedByWriter' /\ WireAdmitted' /\ AnswersTrue'
  BY <1>1 DEF Integrity, CreatedByWriter, WireAdmitted, AnswersTrue,
              Stored, Target, Uploader
<1>6. PhasesAdmitted'
  <2> SUFFICES ASSUME NEW d \in Client
               PROVE  /\ phase'[d] = "batchHead" => Admitted(d)
                      /\ phase'[d] \in {"put", "sent"} => Uploader(d)
                      /\ phase'[d] = "get" =>
                           /\ job[d].perm >= PermissionRead
                           /\ job[d].size = Length[job[d].oid]
    BY <1>1 DEF PhasesAdmitted, Admitted, Uploader
  <2>1. CASE d = c
    BY <1>3, <2>1
  <2>2. CASE d # c
    BY <1>3, <2>2 DEF PhasesAdmitted
  <2> QED BY <2>1, <2>2
<1>7. CompleteIsStored'
  <2> SUFFICES ASSUME NEW d \in Client, phase'[d] = "complete"
               PROVE  /\ store[Target(d)].bytes = job[d].oid
                      /\ job[d].size = Length[job[d].oid]
    BY <1>1 DEF CompleteIsStored, Target
  <2>1. CASE d = c
    BY <1>2, <2>1
  <2>2. CASE d # c
    <3>1. phase[d] = "complete"
      BY <1>3, <2>2
    <3> QED BY <3>1 DEF CompleteIsStored
  <2> QED BY <2>1, <2>2
<1>8. DownloadIntact'
  <2> SUFFICES ASSUME NEW d \in Client, got'[d] # NoBytes
               PROVE  /\ got'[d] = job[d].oid
                      /\ Length[got'[d]] = job[d].size
                      /\ job[d].perm >= PermissionRead
    BY <1>1 DEF DownloadIntact
  <2>1. CASE d = c
    BY <1>2, <1>3, <2>1
  <2>2. CASE d # c
    <3>1. got'[d] = got[d]
      BY <1>3, <2>2
    <3> QED BY <3>1 DEF DownloadIntact
  <2> QED BY <2>1, <2>2
<1> QED BY <1>4, <1>5, <1>6, <1>7, <1>8

\* The clients' and the bucket's steps keep Inv.
LEMMA OutsideStep ==
  ASSUME Inv, NEW c \in Client, Outside(c)
  PROVE  Inv'
<1>1. \A p \in {"idle", "batch", "verify"} : Justified(c, p)
  BY DEF Justified, Phases
<1>2. CASE SendBatch(c) \/ SendVerify(c) \/ GiveUpPut(c)
  BY <1>1, <1>2, MoveStep DEF SendBatch, SendVerify, GiveUpPut, Frame
<1>3. CASE GetObject(c)
  BY <1>3, GetStep
<1>4. ASSUME NEW s \in Slot, SendPut(c, s) PROVE Inv'
  BY <1>4, SendPutStep
<1>5. ASSUME NEW s \in Slot, BeginPut(c, s) PROVE Inv'
  <2>1. Uploader(c)
    BY <1>5 DEF BeginPut, Inv, WireAdmitted
  <2> QED BY <1>5, <2>1, WireStep DEF BeginPut
<1>6. ASSUME NEW s \in Slot, CommitPut(c, s) PROVE Inv'
  BY <1>6, CommitStep
<1>7. ASSUME NEW s \in Slot, DropPut(c, s) PROVE Inv'
  BY <1>7, WireStep DEF DropPut
<1> QED BY <1>2, <1>3, <1>4, <1>5, <1>6, <1>7 DEF Outside

(***************************************************************************)
(* All safety properties of Transfer hold whatever the clients do and      *)
(* however many there are: Integrity, CreatedByWriter, CompleteIsStored    *)
(* and DownloadIntact are conjuncts of Inv.                                *)
(***************************************************************************)
THEOREM TransferSafe == Spec => []Inv
<1>1. Init => Inv
  BY InitLemma
<1>2. Inv /\ [Next]_vars => Inv'
  <2> SUFFICES ASSUME Inv, [Next]_vars PROVE Inv'
    OBVIOUS
  <2>1. CASE UNCHANGED vars
    BY <2>1 DEF vars, Inv, TypeOK, Integrity, CreatedByWriter, PhasesAdmitted,
                WireAdmitted, AnswersTrue, CompleteIsStored, DownloadIntact,
                Stored, Target, Admitted, Uploader
  <2>2. ASSUME NEW c \in Client, Handler(c) \/ Outside(c) PROVE Inv'
    BY <2>2, HandlerStep, OutsideStep
  <2> QED BY <2>1, <2>2 DEF Next
<1> QED BY <1>1, <1>2, PTL DEF Spec

-----------------------------------------------------------------------------
\* A step is the commit of a PUT, or leaves the bucket alone and moves at
\* most one client, never one that is already done.
LEMMA StepShape ==
  ASSUME Inv, NEW c \in Client, Handler(c) \/ Outside(c)
  PROVE  \/ \E s \in Slot : CommitPut(c, s)
         \/ /\ UNCHANGED <<job, store>>
            /\ \/ UNCHANGED phase
               \/ /\ phase[c] # "complete"
                  /\ \E p : phase' = [phase EXCEPT ![c] = p]
<1>1. CASE Handler(c)
  <2>1. CASE BatchRefused(c) \/ VerifyRefused(c) \/ RequestLost(c)
    BY <2>1 DEF BatchRefused, VerifyRefused, RequestLost, Reply, Goto
  <2>2. ASSUME NEW a, BatchHead(c, a) \/ VerifyHead(c, a)
        PROVE  /\ UNCHANGED <<job, store>>
               /\ phase[c] # "complete"
               /\ \E p : phase' = [phase EXCEPT ![c] = p]
    BY <2>2 DEF BatchHead, VerifyHead, Goto
  <2>3. CASE BatchReply(c) \/ VerifyReply(c)
    BY <2>3 DEF BatchReply, VerifyReply, Reply, Goto
  <2> QED BY <1>1, <2>1, <2>2, <2>3 DEF Handler
<1>2. CASE Outside(c)
  <2>1. CASE SendBatch(c) \/ SendVerify(c) \/ GiveUpPut(c) \/ GetObject(c)
    BY <2>1 DEF SendBatch, SendVerify, GiveUpPut, GetObject, Goto
  <2>2. ASSUME NEW s \in Slot, SendPut(c, s) \/ BeginPut(c, s) \/ DropPut(c, s)
        PROVE  /\ UNCHANGED <<job, store>>
               /\ \/ UNCHANGED phase
                  \/ /\ phase[c] # "complete"
                     /\ \E p : phase' = [phase EXCEPT ![c] = p]
    BY <2>2 DEF SendPut, BeginPut, DropPut, Goto
  <2> QED BY <1>2, <2>1, <2>2 DEF Outside
<1> QED BY <1>1, <1>2

\* Who is told, and that it is true.
LEMMA TellStep ==
  ASSUME Inv, Inv', NEW c \in Client, UNCHANGED <<job, store>>,
         \/ UNCHANGED phase
         \/ /\ phase[c] # "complete"
            /\ \E p : phase' = [phase EXCEPT ![c] = p]
  PROVE  [Registry!Next]_(Registry!vars)
<1> DEFINE told == {d \in Client : phase[d] = "complete"}
<1>1. /\ [d \in Client |-> Target(d)]' = [d \in Client |-> Target(d)]
      /\ {d \in Client : job[d].op = "upload" /\ job[d].perm = PermissionWrite}'
           = {d \in Client : job[d].op = "upload" /\ job[d].perm = PermissionWrite}
      /\ [k \in Key |-> store[k].by]' = [k \in Key |-> store[k].by]
  BY DEF Target
<1>2. CASE told' = told
  BY <1>1, <1>2 DEF Registry!vars
<1>3. CASE told' # told
  <2>1. PICK p : phase' = [phase EXCEPT ![c] = p]
    BY <1>3
  <2>2. \A d \in Client : phase'[d] = IF d = c THEN p ELSE phase[d]
    BY <2>1 DEF Inv, TypeOK
  <2>3. p = "complete" /\ told' = told \cup {c}
    BY <1>3, <2>2
  <2>4. /\ Target(c) \in Key /\ Target(c)' = Target(c)
        /\ job[c].oid \in Oid /\ job'[c] = job[c]
    BY JobLemma DEF Target, Inv
  <2>5. store'[Target(c)].bytes = job[c].oid
    BY <2>2, <2>3, <2>4 DEF Inv, CompleteIsStored
  <2>6. Stored(Target(c))
    BY <2>4, <2>5, MarksAssumption DEF Stored, Absent
  <2>7. store[Target(c)].by # Nobody
    BY <2>4, <2>6, StoredLemma DEF Inv
  <2>8. Registry!Tell(c)
    BY <1>1, <2>3, <2>4, <2>7 DEF Registry!Tell
  <2> QED BY <2>8 DEF Registry!Next
<1> QED BY <1>2, <1>3

(***************************************************************************)
(* No key of the bucket is ever created twice (s3store.go:116), however    *)
(* stale the HEAD behind the URL was.                                      *)
(***************************************************************************)
THEOREM NeverOverwritten == Spec => CreatedOnce
<1>1. ASSUME Inv, [Next]_vars
      PROVE  [\A k \in Key : Stored(k) => store'[k] = store[k]]_vars
  <2>1. ASSUME NEW c \in Client, Handler(c) \/ Outside(c)
        PROVE  \A k \in Key : Stored(k) => store'[k] = store[k]
    BY <1>1, <2>1, StepShape, CommitStep
  <2> QED BY <1>1, <2>1 DEF Next
<1> QED BY <1>1, TransferSafe, PTL DEF Spec, CreatedOnce

(***************************************************************************)
(* The handlers, the presigned requests and the bucket together implement  *)
(* the register: created once, by a writer, and nobody is told in vain.    *)
(***************************************************************************)
THEOREM TransferImplementsRegistry == Spec => ImplementsRegistry
<1>1. Init => Registry!Init
  <2> SUFFICES ASSUME Init PROVE Registry!Init
    OBVIOUS
  <2>1. Inv
    BY InitLemma
  <2>2. [c \in Client |-> Target(c)] \in [Client -> Key]
    BY <2>1, JobLemma DEF Inv
  <2>3. [k \in Key |-> store[k].by] = [k \in Key |-> Nobody]
    BY DEF Init, Absent
  <2>4. {c \in Client : phase[c] = "complete"} = {}
    BY DEF Init
  <2> QED BY <2>2, <2>3, <2>4 DEF Registry!Init
<1>2. ASSUME Inv, Inv', [Next]_vars PROVE [Registry!Next]_(Registry!vars)
  <2>1. CASE UNCHANGED vars
    BY <2>1 DEF vars, Registry!vars, Target
  <2>2. ASSUME NEW c \in Client, Handler(c) \/ Outside(c)
        PROVE  [Registry!Next]_(Registry!vars)
    <3>1. CASE \E s \in Slot : CommitPut(c, s)
      BY <1>2, <3>1, CommitStep DEF Registry!Next
    <3>2. CASE ~\E s \in Slot : CommitPut(c, s)
      BY <1>2, <2>2, <3>2, StepShape, TellStep
    <3> QED BY <3>1, <3>2
  <2> QED BY <1>2, <2>1, <2>2 DEF Next
<1> QED BY <1>1, <1>2, TransferSafe, PTL DEF Spec, ImplementsRegistry, Registry!Spec

(***************************************************************************)
(* Bytes stored under a key hash to the OID in it (s3store.go:160-184).    *)
(***************************************************************************)
THEOREM StoredBytesMatchKey == Spec => []Integrity
<1>1. Inv => Integrity
  BY DEF Inv
<1> QED BY <1>1, TransferSafe, PTL

(***************************************************************************)
(* A client told "complete" has its whole object stored, although Batch    *)
(* and Verify compare sizes only (handler.go:266, 358).                    *)
(***************************************************************************)
THEOREM CompleteIsTrue == Spec => []CompleteIsStored
<1>1. Inv => CompleteIsStored
  BY DEF Inv
<1> QED BY <1>1, TransferSafe, PTL

(***************************************************************************)
(* The state keeps its types: a HEAD answers with a size of a stored body  *)
(* (s3store.go:90-104), and a handler decides from nothing else.           *)
(***************************************************************************)
THEOREM TransferType == Spec => []TypeOK
<1>1. Inv => TypeOK
  BY DEF Inv
<1> QED BY <1>1, TransferSafe, PTL

(***************************************************************************)
(* Every object was created by a client with write permission, who asked   *)
(* for an upload to that repository (handler.go:166-169, 276).             *)
(***************************************************************************)
THEOREM OnlyWritersCreate == Spec => []CreatedByWriter
<1>1. Inv => CreatedByWriter
  BY DEF Inv
<1> QED BY <1>1, TransferSafe, PTL

(***************************************************************************)
(* A download that Batch answered with an action (handler.go:247-264) ends *)
(* with the bytes asked for, for a client that may read.                   *)
(***************************************************************************)
THEOREM DownloadsAreIntact == Spec => []DownloadIntact
<1>1. Inv => DownloadIntact
  BY DEF Inv
<1> QED BY <1>1, TransferSafe, PTL
=============================================================================
