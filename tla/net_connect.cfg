SPECIFICATION FairSpec
CONSTANTS
  Clients    = {c1, c2}
  Cases      = {"immediate", "reconnect", "upload"}
  MaxRetries = 2
  MaxDepth   = 2
  MaxLost    = 2
INVARIANTS TypeOK ConnectsCounted TimerWhilePending
PROPERTIES AnsweredOnce EveryConnectAnswered
