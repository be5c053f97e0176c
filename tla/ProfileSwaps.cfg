SPECIFICATION FairSpec

CONSTANTS
  Document = {d1}
  Connection = {}
  AiKey = AiKey
  TornJournal = FALSE
  MaxRestores = 2
  MaxStops = 2
  MaxFailures = 2

INVARIANT ProfileAsTold
INVARIANT DocumentsReadable
PROPERTY ReplacesInOneStep
PROPERTY EventuallyRuns

CHECK_DEADLOCK FALSE
