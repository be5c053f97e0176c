SPECIFICATION FairSpec

CONSTANTS
  None = None
  child = None
  parent = None
  referrer = None
  target = None
  Device = {1, 2}
  Entity = {r1, document}
  Task = {}
  Dated = {}
  LocalOnly = {document}
  Unmapped = {}
  Parent <- ParentOf
  Named <- NamedBy
  Value = {v1}
  Date = {d1}
  DefaultValue = v1
  DefaultDate = d1
  Wall <- SameWall
  PageSize = 2
  NestedBegin = FALSE
  MaxMutations = 1
  Overlapping = {}
  MaxFaults = 0
  MaxTorn = 0
  MaxCounter = 9
  Edited = {r1}
  Toggled = {}
  Deleted = {r1}
  Dependent = {}
  Plannable = {}

PROPERTY EventuallyShared

CHECK_DEADLOCK FALSE
