SPECIFICATION RateSpec
CONSTANTS
  None = None
  SecondTicks = 4
  Minute = 16
  MaxDuration = 63
  Skews <- SkewsDef
  Limits = {1, 6, 46}
  AskedFor = {6, 13, 16, 32, 33}
  Latency = 2
  MaxTime = 56
CHECK_DEADLOCK FALSE
INVARIANT RateTypeOK
INVARIANT ObedientClientGetsThrough
INVARIANT RetryAfterHonoured
