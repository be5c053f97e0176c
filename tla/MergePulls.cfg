SPECIFICATION Spec

CONSTANTS
  None = None
  child = class
  parent = term
  referrer = event
  target = term
  Device = {1, 2}
  Entity = {term, class, event}
  Task = {}
  Dated = {term}
  LocalOnly = {}
  Unmapped = {}
  Parent <- ParentOf
  Named <- NamedBy
  Value = {v1}
  Date = {d1}
  DefaultValue = v1
  DefaultDate = d1
  Wall <- SameWall
  PageSize = 1
  NestedBegin = TRUE
  MaxMutations = 2
  Overlapping = {2}
  MaxFaults = 1
  MaxTorn = 1
  MaxCounter = 9
  Edited = {}
  Toggled = {}
  Deleted = {term}
  Dependent = {}
  Plannable = {}

INVARIANT NothingSkipped
PROPERTY ImplementsLog
