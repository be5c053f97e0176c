SPECIFICATION Spec

CONSTANTS
  None = None
  child = None
  parent = None
  referrer = None
  target = None
  Device = {1, 2}
  Entity = {t1, t2}
  Task = {t1, t2}
  Dated = {}
  LocalOnly = {}
  Unmapped = {}
  Parent <- ParentOf
  Named <- NamedBy
  Value = {v1, v2}
  Date = {d1, d2}
  DefaultValue = v1
  DefaultDate = d1
  Wall <- SkewedWall
  PageSize = 1
  NestedBegin = TRUE
  MaxMutations = 3
  Overlapping = {}
  MaxFaults = 0
  MaxTorn = 0
  MaxCounter = 9
  Edited = {t1}
  Toggled = {t1}
  Deleted = {t1, t2}
  Dependent = {t1}
  Plannable = {}

INVARIANT TypeOK
PROPERTY EditIsNewest
PROPERTY CompletionSurvivesPull
INVARIANT RegisterIsNewest
INVARIANT KeptDateIsFlagged
INVARIANT Converged
INVARIANT RedeliveryIsHarmless

CHECK_DEADLOCK FALSE
