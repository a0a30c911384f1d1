---------------------------- MODULE MCAuthorize ----------------------------
(* A small instance of Authorize: one user, one path, two repositories and *)
(* two installations of which one is allowed.                              *)
EXTENDS Authorize, TLC

CONSTANTS t1, p1, a, b, i1, i2

\* The user may write to repository a, which is at the path, and
\* has access to both installations.
InitialDef ==
  {[at     |-> [p \in {p1} |-> a],
    inst   |-> [r \in {a, b} |-> i1],
    member |-> {<<t1, i1>>, <<t1, i2>>},
    perm   |-> [m \in {t1} \X {a, b} |->
                  IF m = <<t1, a>> THEN PermissionWrite ELSE PermissionRead]]}

\* Requests differ in nothing but their names.
RequestSymmetry == Permutations(Request)
=============================================================================
