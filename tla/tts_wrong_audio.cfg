SPECIFICATION Spec
CONSTANTS
  Texts = {t1, t2, t3}
  NoText = NoText
  Voices = {v1}
  QueueSize = 3
  PoolSize = 2
  BatchLimit = 3
  ConcurrentLimit = 1
  RetryCount = 0
SYMMETRY Symmetry
INVARIANT AudioIsOfText
