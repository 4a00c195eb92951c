SPECIFICATION FairSpec
CONSTANTS
  File = {f1}
  MaxVersion = 2
  PageSize = 1
  Token = {1, 2, 3, 4}
  Meanwhile = {}
  LateRequests = TRUE
  MaxFaults = 1
PROPERTIES Converges
