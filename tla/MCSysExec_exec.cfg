\* One thread or several, with memory or without, a fair event loop.
SPECIFICATION FairSpec
CONSTANTS
  c1 = c1
  c2 = c2
  f1 = f1
  NoCtx = NoCtx
  NoFd = NoFd
  NoOutput = NoOutput
  Ctx = {c1, c2}
  Fd = {f1}
  Bufsizes <- Sizes
  MaxOut = 3
CHECK_DEADLOCK FALSE
INVARIANT TypeOK
INVARIANT QueueGetsAll
PROPERTY ReturnsOutput
INVARIANT ChildrenKept
PROPERTY CallsEnd
