\* Two clients put and delete while a watch is opened, ended or cancelled.
CONSTANTS
  Clients = {c1, c2}
  Watches = {w1}
  Size <- MCSize
  MaxAnnotationSize = 3
  HistoryLimit = 2
  ChannelCap = 1
  MaxVersion = 5
  Asked = {0, 2, Unset}
  Unset = Unset
  None = None
SPECIFICATION FairSpec
CHECK_DEADLOCK FALSE
INVARIANTS HistoryIsLog ReadsServeLog WatchIsRun
PROPERTIES WatchesSettle
