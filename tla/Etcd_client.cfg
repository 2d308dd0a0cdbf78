\* A call of Watch or of History among writes and deletions.
CONSTANTS
  a = a
  ab = ab
  Keys <- MCKeys
  Calls = {c1}
  Requests <- MCRequests
  Revisions = {0, 1, 2, Unset}
  Cancellable = {c1}
  ChannelCap = 1
  MaxRevision = 5
  Unset = Unset
SPECIFICATION FairSpec
CHECK_DEADLOCK FALSE
INVARIANTS RebuildsState HistoryIsRun
PROPERTIES CallsEnd
