SPECIFICATION Spec
CONSTANTS
  File = {f1, f2}
  MaxVersion = 2
  PageSize = 1
  Token = {1, 2, 3, 4, 5}
  Meanwhile = {"remove"}
  LateRequests = FALSE
  MaxFaults = 0
SYMMETRY FileSymmetry
PROPERTIES TimelineKept
