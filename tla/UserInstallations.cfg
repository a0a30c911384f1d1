SPECIFICATION Spec
CONSTANTS
  i1 = i1
  i2 = i2
  i3 = i3
  i4 = i4
  i5 = i5
  i6 = i6
  i7 = i7
  Installation = {i1, i2, i3, i4, i5, i6, i7}
  Target = i1
  Initial <- InitialDef
  PerPage = 2
  MaxPages = 3
  MaxChanges = 2
INVARIANT TypeOK
INVARIANT ResultIsTrue
CHECK_DEADLOCK FALSE
