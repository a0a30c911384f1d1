------------------------------ MODULE MCAppJwt ------------------------------
(* A small instance of AppJwt: seconds of 3 ticks, the margin one tick     *)
(* longer than the timeout and a second.                                   *)
EXTENDS AppJwt, TLC

SkewsDef == -2..4

RequestSymmetry == Permutations(Request)
=============================================================================
