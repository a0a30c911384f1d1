------------------------ MODULE MCUserInstallations ------------------------
(* A small instance of UserInstallations: lists of up to six, read in at   *)
(* most three pages of two.                                                *)
EXTENDS UserInstallations

CONSTANTS i1, i2, i3, i4, i5, i6, i7

\* The others are the same to GOLFS: one list of each length, and the target
\* anywhere in it or not at all.
InitialDef ==
  LET others(n) == SubSeq(<<i2, i3, i4, i5, i6>>, 1, n)
  IN  UNION {{others(n)} \cup {InsertAt(others(n), k, Target) : k \in 1..(n + 1)}
               : n \in 0..5}
=============================================================================
