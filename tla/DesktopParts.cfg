SPECIFICATION MCSpec

CONSTANTS
  None = None
  Computer = {"c1", "c2"}

  MaxKeys = 3
  MaxFailures = 2

  PinCode = {"p1", "p2"}
  Caller = {"c1", "c2"}
  MaxDelay = 5
  MaxPinTime = 2
  MaxPinStops = 1
  MaxPinFailures = 2

  User = {"a", "b"}
  FlowLifetime = 1
  MaxTokens = 3
  MaxFlows = 2
  MaxAccountTime = 2
  MaxAccountStops = 1
  MaxAccountFailures = 1

  Device = {1, 2}
  PageSize = 2
  MaxAccountKeys = 1
  MaxRows = 1
  MaxRevoked = 1
  MaxExpired = 1
  MaxFaults = 1
  MaxTogether = 3

  Connection = {"c1", "c2"}
  Tokened = {"c1"}
  Process = {"worker", "student"}
  Worker = "worker"
  MaxConnects = 2
  MaxCanvasStops = 1
  MaxCanvasFailures = 1

  Class = {"x", "y"}

  Provider = {"p", "q"}

  FilesDocument = {}
  FilesConnection = {"c1"}
  AiKey = "ai"
  TornJournal = TRUE
  MaxRestores = 2
  MaxFilesStops = 2
  MaxFilesFailures = 1

  Home = "c1"
  Chunks = 2
  MaxUploads = 3
  MaxDownloads = 2
  MaxDeletions = 2

  Document = {"d1", "d2"}
  Sample = {"s1", "s2"}
  Versions = {0, 6, 16, 17}
  CurrentVersion = 17
  RetentionVersion = 15
  SchemaPart = {"p1", "p2"}
  MaxStarts = 3

  Granule = 2
  PlanDay = 12
  Noon = 4
  Evening = 8
  HorizonDays = 1
  Rules <- MCRules
  SleepStart = 9
  SleepEnd = 1
  MaxSession = 4
  MinSession = 2
  Break = 0
  Transition = 1
  Skipped = {49}
  TaskShapes <- MCShapes
  Commitments <- MCCommitments
  Classes <- MCClasses
  Lengths = {2, 4}
  Instants = {3, 12, 24}
  MaxPlanEdits = 3
  MaxMoves = 1

  Block = {"b1", "b2"}
  RemindDay = 4
  QuietStart = 3
  QuietEnd = 1
  Window = 1
  Leads = {1, 2}
  Snoozes = {2}
  MaxRemindTime = 4
  MaxChanges = 2

  Item = {"t1", "m1"}
  Meetings = {"m1"}
  Date = {1, 2}
  MaxCandidates = 3
  MaxReviewEdits = 1

  ProfileId = {"p"}
  Term = {"m1", "m2"}
  Course = {"c"}
  Task = {"t"}
  Instructor = {"i"}
  Meeting = {"g"}
  EventId = {"e"}
  MaxRecordEdits = 3

  SessionMark = {"A", "C"}
  Gap = 3
  LabelLines = 2
  MaxEntries = 3
  MaxLines = 7

  Bundled <- MCBundled
  SchoolPage <- MCPages
  SchoolDay = {1, 2, 4, 5}
  Slack = 1
  MaxSchoolEdits = 3

INVARIANT TypesOK
INVARIANT PlanHolds
INVARIANT RemindedOnce
INVARIANT OneRecordPerSource
INVARIANT OneRefreshAtATime
INVARIANT DocumentsHold
INVARIANT UpgradeKeeps
INVARIANT PinHolds
INVARIANT KeyOpensDatabase
INVARIANT SessionIsKept
INVARIANT SecretsWereEntered
INVARIANT ReferencesHold
INVARIANT EntriesAsWritten
INVARIANT ApplyingTwiceIsOnce
PROPERTY RevocationHolds

CHECK_DEADLOCK FALSE
