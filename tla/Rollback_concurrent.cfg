\* Other clients write at any time; every revision is kept.
CONSTANTS
  plain = plain
  secret = secret
  masked = masked
  d1 = d1
  d2 = d2
  PlainFields = {plain}
  SecretFields = {secret}
  MaskedFields = {}
  Data = {d1, d2, blank}
  Blank = blank
  Placeholder = Placeholder
  None = None
  Loader <- PlainLoader
  Retention = 4
  Targets = {"Active", "Default"}
  Edits <- SecretEdits
  Answers = {d2}
  OtherSpecs <- SecretOthers
  OtherMasks <- SecretMasks
  MaxActive = 4
  MaxDefault = 3
SPECIFICATION Spec
CHECK_DEADLOCK FALSE
INVARIANTS ShownIsStored RestoresTarget
