SPECIFICATION Spec
CONSTANTS
  Tiles = {t1, t2}
  Conns = {c1, c2}
  NoTile = NoTile
  MaxQueue = 2
  MaxPriority = 2
SYMMETRY Symmetry
INVARIANTS TypeOK ConnectionAccounting NoRedundantDownload NeverWedged
PROPERTIES OnlySweepStalls PriorityOrder LostOnlyWhenFull
