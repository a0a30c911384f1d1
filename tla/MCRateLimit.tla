---------------------------- MODULE MCRateLimit ----------------------------
(* A small instance of RateLimit, for the values of RateLimit.cfg.         *)
EXTENDS RateLimit

\* A minute of 4 seconds; GOLFS's clock is up to that much off.
SkewsDef == {-Minute, -3, 0, 1, 5, Minute}
=============================================================================
