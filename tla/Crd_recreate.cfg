\* A client puts at a revision while another deletes the object.
CONSTANTS
  Clients = {c1, c2}
  Watches = {}
  Size <- MCSize
  MaxAnnotationSize = 3
  HistoryLimit = 2
  ChannelCap = 1
  MaxVersion = 5
  Asked = {1, Unset}
  Unset = Unset
  None = None
SPECIFICATION Spec
CHECK_DEADLOCK FALSE
PROPERTIES PutOnlyIfMatches
