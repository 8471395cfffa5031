SPECIFICATION FairSpec
CONSTANTS
  Langs = {eng, heb}
  None = None
  NumPrompts = 2
  MaxQueue = 3
  MaxOthers = 1
  MaxDownloads = 3
  MaxUpdates = 1
  MaxRestarts = 1
INVARIANTS QueueIsServed PureSetIsInstalled
PROPERTIES DownloadEnds
CHECK_DEADLOCK FALSE
