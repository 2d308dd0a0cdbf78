\* A binding made while the controller runs: Update and Bind both notify it.
CONSTANTS
  Paths <- MCPaths
  Root = "root"
  Below <- MCBelow
  Configs <- MCConfigs
  Watches = {}
  Watched = {}
  Cancellable = {}
  Bindings <- Pairs
  Late <- Pairs
  ChannelCap = 1
  RingSize = 4
  MaxRevision = 2
  None = None
SPECIFICATION FairSpec
CHECK_DEADLOCK FALSE
PROPERTIES CalledOncePerPut
