SPECIFICATION FairSpec
CONSTANTS
  Accounts = {a1, a2}
  NoAccount = NoAccount
  Posts = {"trip"}
  NoRequest = NoRequest
  MaxQueue = 1
PROPERTIES OldLoginForgotten KeepsTrying Answered
CHECK_DEADLOCK FALSE
