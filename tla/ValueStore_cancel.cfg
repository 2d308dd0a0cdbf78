\* Cancellation with a buffer that can fill up.
CONSTANTS
  Writers = {w1}
  Watchers = {x1}
  Cancellable = {x1}
  RingSize = 2
  BufferCap = 1
  UpdateCap = 2
  MaxRevision = 3
  Unset = Unset
SPECIFICATION FairSpec
CHECK_DEADLOCK FALSE
PROPERTY CancelCloses
