\* A ring of three that wraps; callers that always read and never overflow.
CONSTANTS
  Writers = {w1, w2}
  Watchers = {x1, x2}
  Cancellable = {}
  RingSize = 3
  BufferCap = 1
  UpdateCap = 4
  MaxRevision = 4
  Unset = Unset
SPECIFICATION FairSpec
CHECK_DEADLOCK FALSE
INVARIANTS RingHoldsLog ReadsServeLog
PROPERTY WritesComplete
