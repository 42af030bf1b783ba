\* One thread with memory or short of it, or several that are short of it; a fair event loop.
SPECIFICATION FairSpec
CONSTANTS
  c1 = c1
  c2 = c2
  f1 = f1
  f2 = f2
  NoCtx = NoCtx
  Ctx = {c1, c2}
  Fd = {f1, f2}
  MaxRetry = 1
  Options <- AllOptions
CONSTRAINT Alive
CHECK_DEADLOCK FALSE
INVARIANT TypeOK
INVARIANT WaitersServed
INVARIANT HandlersFindUser
INVARIANT HalfClosed
PROPERTY TimedCallsEnd
