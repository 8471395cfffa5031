SPECIFICATION FairSpec
CONSTANTS
  Tiles = {t1}
  Conns = {c1}
  NoTile = NoTile
  MaxQueue = 2
  MaxPriority = 1
PROPERTIES RetryEndsStall
