SPECIFICATION Spec
CONSTANTS
  Texts = {t1, t2, t3}
  NoText = NoText
  Voices = {v1, v2}
  QueueSize = 3
  PoolSize = 3
  BatchLimit = 2
  ConcurrentLimit = 2
  RetryCount = 1
SYMMETRY Symmetry
INVARIANTS QueueIsList RequestsHold RetryIsServed
PROPERTIES OnlyAfterRetryStranded
