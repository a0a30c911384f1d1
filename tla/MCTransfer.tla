----------------------------- MODULE MCTransfer -----------------------------
(***************************************************************************)
(* Two repositories; three bodies, two of them of the same length; sizes   *)
(* that are right, wrong or over the limit; permissions one too low.       *)
(***************************************************************************)
EXTENDS Transfer, TLC

CONSTANTS r1, r2, o1, o2, o3

MCRepo == {r1, r2}
MCOid == {o1, o2, o3}
MCLength == (o1 :> 1) @@ (o2 :> 1) @@ (o3 :> 2)

J(op, repo, oid, size, body, perm) ==
  [op |-> op, repo |-> repo, oid |-> oid, size |-> size, body |-> body,
   perm |-> perm]

Right == J("upload", r1, o1, 1, o1, PermissionWrite)

UploadJobs ==
  {Right,
   J("upload", r1, o1, 1, o2, PermissionWrite),  \* other bytes, same length
   J("upload", r1, o1, 2, o3, PermissionWrite),  \* other bytes, their length
   J("upload", r1, o1, 2, o1, PermissionWrite),  \* right bytes, wrong size
   J("upload", r1, o1, 0, o2, PermissionWrite),  \* no length signed
   J("upload", r1, o3, 2, o3, PermissionWrite)}

OtherJobs ==
  {J("upload", r2, o1, 1, o1, PermissionWrite),  \* another repository
   J("upload", r1, o1, 1, o1, PermissionRead),
   J("upload", r1, o1, 3, o1, PermissionWrite),  \* over MaxObjectSize
   J("download", r1, o1, 1, o1, PermissionRead),
   J("download", r1, o1, 2, o1, PermissionRead),
   J("download", r1, o1, 1, o1, PermissionNone)}

\* Clients racing to upload the same object.
LiveJobs == {Right}

MCJobs == UploadJobs \cup OtherJobs
=============================================================================
