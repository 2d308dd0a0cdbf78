\* A watch on one key or on all, opened and cancelled at any time.
CONSTANTS
  Keys = {a, b}
  Watches = {w1}
  Selections <- MCSelections
  WatchRevisions = {0, 1, Unset}
  Readers = {"caller", "context"}
  Cancellable = {w1}
  ChannelCap = 1
  MaxWrites = 4
  Unset = Unset
SPECIFICATION FairSpec
CHECK_DEADLOCK FALSE
INVARIANTS NothingMissed ClosedLast EndsForCause
PROPERTIES EventsArrive WatchesEnd
