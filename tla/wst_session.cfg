SPECIFICATION FairSpec
CONSTANTS
  Ids = {r1, r2, r3, r4}
  Types = {t1}
  NoType = NoType
  NoItem = NoItem
  MaxQueue = 2
  MaxRetries = 1
INVARIANTS TypeOK SessionHasWork CallbackDiscipline RequestsAccounted QueueTypesDistinct NoCrossTalk
PROPERTIES SilentServerEndsSession ImplementsTransSession
CHECK_DEADLOCK FALSE
