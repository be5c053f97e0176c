SPECIFICATION Spec

CONSTANTS
  None = None
  child = None
  parent = None
  referrer = None
  target = None
  Device = {1, 2}
  Entity = {t1, t2}
  Task = {t1, t2}
  Dated = {}
  LocalOnly = {}
  Unmapped = {}
  Parent <- ParentOf
  Named <- NamedBy
  Value = {v1}
  Date = {d1}
  DefaultValue = v1
  DefaultDate = d1
  Wall <- SameWall
  PageSize = 1
  NestedBegin = TRUE
  MaxMutations = 4
  Overlapping = {}
  MaxFaults = 0
  MaxTorn = 0
  MaxCounter = 9
  Edited = {t1}
  Toggled = {}
  Deleted = {t2}
  Dependent = {t1}
  Plannable = {}

INVARIANT ElementIsNewest
INVARIANT NoOrphans

CHECK_DEADLOCK FALSE
