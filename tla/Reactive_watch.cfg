\* A watch that may be cancelled, and a binding made before there are configs.
CONSTANTS
  Paths <- MCPaths
  Root = "root"
  Below <- MCBelow
  Configs <- MCConfigs
  Watches = {w1}
  Watched = {"msg"}
  Cancellable = {w1}
  Bindings <- MCBindings
  Late <- Singles
  ChannelCap = 1
  RingSize = 4
  MaxRevision = 3
  None = None
SPECIFICATION FairSpec
CHECK_DEADLOCK FALSE
INVARIANTS WatchesAreCurrent NoSendOnClosed CallbacksAreFresh
PROPERTIES CalledOncePerPut WatchersConverge
