\* One thread or several, with memory or without, a fair event loop.
SPECIFICATION FairSpec
CONSTANTS
  c1 = c1
  c2 = c2
  c3 = c3
  f1 = f1
  f2 = f2
  NoCtx = NoCtx
  Ctx = {c1, c2, c3}
  Fd = {f1, f2}
CHECK_DEADLOCK FALSE
INVARIANT TypeOK
PROPERTY WokenLeavesClean
PROPERTY CallsEnd
INVARIANT WaitersServed
