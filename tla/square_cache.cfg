SPECIFICATION Spec
CONSTANTS
  t1 = t1
  t2 = t2
  t3 = t3
  t4 = t4
  Tiles = {t1, t2, t3, t4}
  NoTile = NoTile
  Size = 3
  HashCode <- MCHashCode
  Handlers = {"line", "polygon"}
  Keeps = {"line"}
  Data <- MCData
INVARIANTS CacheConsistent ServedInMemory
PROPERTIES CurrentSpared
