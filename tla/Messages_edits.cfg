\* Any sequence of merges and masks on a message with every kind of field.
CONSTANTS
  Schema <- MCSchema
  Root = "Config"
  NameBegins <- MCNameBegins
  Sources <- MCSources
  Options <- MCOptions
  MaskPaths <- MCMaskPaths
  MaskSize = 2
  MaxList = 2
  MaxFields = 3
  Absent = Absent
SPECIFICATION Spec
CHECK_DEADLOCK FALSE
INVARIANTS MasksSplit MasksOfMessage MergedByPath DiffCorrect
