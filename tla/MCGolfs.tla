------------------------------ MODULE MCGolfs ------------------------------
(* A small instance of Golfs, and of Authorize in it: one user, one path,  *)
(* two repositories and two installations of which one is allowed.         *)
EXTENDS Golfs, TLC

CONSTANTS t1, p1, a, b, i1, i2

\* The user may write to repository a, which is at the path and in the
\* installation allowed, may read repository b, which is in the other, and has
\* access to both.
InitialDef ==
  {[at     |-> [p \in {p1} |-> a],
    inst   |-> [r \in {a, b} |-> IF r = a THEN i1 ELSE i2],
    member |-> {<<t1, i1>>, <<t1, i2>>},
    perm   |-> [m \in {t1} \X {a, b} |->
                  IF m = <<t1, a>> THEN PermissionWrite ELSE PermissionRead]]}

\* Requests differ in nothing but their names.
RequestSymmetry == Permutations(Request)
=============================================================================
