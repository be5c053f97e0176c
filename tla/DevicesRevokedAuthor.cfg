SPECIFICATION FairSpec

CONSTANTS
  Computer = {c1, c2}
  Device = {1, 2}
  None = None
  PageSize = 1
  MaxKeys = 1
  MaxRows = 1
  MaxRevoked = 1
  MaxExpired = 0
  MaxFaults = 0
  MaxTogether = 1

PROPERTY EventuallyReceived

CHECK_DEADLOCK FALSE
