\* ShutdownReturns
SPECIFICATION Spec
CONSTANTS
  c1 = c1
  c2 = c2
  f1 = f1
  f2 = f2
  NoCtx = NoCtx
  Ctx = {c1, c2}
  Fd = {f1}
  Options <- AllOptions
  MaxRetry = 1
CHECK_DEADLOCK FALSE
INVARIANT ShutdownReturns
