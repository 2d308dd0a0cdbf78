\* Two replicas of a server whose config has a secret and a masked field.
CONSTANTS
  plain = plain
  secret = secret
  masked = masked
  d1 = d1
  d2 = d2
  PlainFields = {plain}
  SecretFields = {secret}
  MaskedFields = {masked}
  Data = {d1, d2, blank}
  Blank = blank
  Placeholder = Placeholder
  None = None
  Retention = 2
  Replicas = {r1, r2}
  Loader <- ReplicaLoader
  Specs <- ReplicaSpecs
  Masks <- ReplicaMasks
  Ops = {"Set", "Reset", "TrackerReset", "SetDefault"}
  MaxActive = 3
  MaxDefault = 2
SPECIFICATION Spec
SYMMETRY Symmetry
CHECK_DEADLOCK FALSE
INVARIANTS TypeOK NoPlaceholderStored RoundTrip DryRunPredicts HistoryIsGettable
PROPERTIES NoLostUpdate MaskedKept
