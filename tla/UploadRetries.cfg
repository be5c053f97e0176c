SPECIFICATION FairSpec

CONSTANTS
  Computer = {c1, c2}
  Nonce = {1, 2, 3, 4}
  BatchSize = 2
  MaxMutations = 3
  MaxLocalOnly = 2
  MaxGivenUp = 2
  MaxIdentities = 2
  MaxRestores = 0
  None = None

INVARIANT TypeOK
INVARIANT StoredInOrder
INVARIANT RetriesAreIdempotent
PROPERTY EventuallyUploaded

CHECK_DEADLOCK FALSE
