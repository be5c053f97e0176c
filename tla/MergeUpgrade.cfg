SPECIFICATION FairSpec

CONSTANTS
  None = None
  child = None
  parent = None
  referrer = None
  target = None
  Device = {1, 2}
  Entity = {r1, t1}
  Task = {t1}
  Dated = {}
  LocalOnly = {}
  Unmapped = {r1}
  Parent <- ParentOf
  Named <- NamedBy
  Value = {v1}
  Date = {d1}
  DefaultValue = v1
  DefaultDate = d1
  Wall <- SameWall
  PageSize = 2
  NestedBegin = TRUE
  MaxMutations = 2
  Overlapping = {}
  MaxFaults = 0
  MaxTorn = 0
  MaxCounter = 9
  Edited = {r1}
  Toggled = {}
  Deleted = {t1}
  Dependent = {}
  Plannable = {t1}

PROPERTY EventuallyShared

CHECK_DEADLOCK FALSE
