\* Several threads with memory, or one with short memory; a fair event loop.
SPECIFICATION FairSpec
CONSTANTS
  c1 = c1
  c2 = c2
  w1 = w1
  w2 = w2
  Ctx = {c1, c2}
  Worker = {w1, w2}
  MaxConf = 2
  MaxRetry = 1
  MaxMail = 1
  Options <- AllOptions
CONSTRAINT Alive
CHECK_DEADLOCK FALSE
INVARIANT TypeOK
INVARIANT CallsServed
INVARIANT HandlersFindCall
INVARIANT HandlesClean
PROPERTY RequestUsesItsConf
PROPERTY CallsEnd
PROPERTY StartsAndEnds
