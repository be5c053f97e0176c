SPECIFICATION Spec

CONSTANTS
  Computer = {c1, c2}
  Nonce = {1, 2, 3, 4, 5}
  BatchSize = 2
  MaxMutations = 2
  MaxLocalOnly = 0
  MaxGivenUp = 1
  MaxIdentities = 3
  MaxRestores = 2
  None = None

INVARIANT AcknowledgedIsStored
INVARIANT UploadedUnderOwnIdentity
PROPERTY ImplementsLog
SYMMETRY ComputerSymmetry

CHECK_DEADLOCK FALSE
