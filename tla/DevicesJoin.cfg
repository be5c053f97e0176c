SPECIFICATION FairSpec

CONSTANTS
  Computer = {c1, c2}
  Device = {1, 2}
  None = None
  PageSize = 1
  MaxKeys = 1
  MaxRows = 1
  MaxRevoked = 1
  MaxExpired = 1
  MaxFaults = 1
  MaxTogether = 1

PROPERTY EventuallyApproved
PROPERTY ReceivedUnlessRevoked

CHECK_DEADLOCK FALSE
