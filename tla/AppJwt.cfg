SPECIFICATION Spec
CONSTANTS
  None = None
  Request = {r1, r2}
  SecondTicks = 3
  Lifetime = 16
  Backdate = 4
  Margin = 6
  HttpTimeout = 2
  MaxAhead = 20
  Skews <- SkewsDef
  MaxTime = 40
INVARIANT AcceptedWhenSeen
SYMMETRY RequestSymmetry
