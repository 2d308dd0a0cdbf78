\* Two watches, channels so small that both overflow and blocking happen.
CONSTANTS
  Writers = {w1, w2}
  Watchers = {x1, x2}
  Cancellable = {x1, x2}
  RingSize = 2
  BufferCap = 1
  UpdateCap = 2
  MaxRevision = 4
  Unset = Unset
SPECIFICATION Spec
SYMMETRY Symmetry
CHECK_DEADLOCK FALSE
INVARIANTS TypeOK StreamsFollowLog WatchesKeepUp NoSendOnClosed
PROPERTY ImplementsWatchLog
