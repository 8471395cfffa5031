SPECIFICATION Spec
CONSTANTS
  Clients = {c1}
  Methods = {"get", "post", "file"}
  MaxBytes = 3
INVARIANTS DoneIsWhole
