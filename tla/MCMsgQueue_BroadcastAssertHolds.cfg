\* BroadcastAssertHolds
SPECIFICATION Spec
CONSTANTS
  c1 = c1
  c2 = c2
  q1 = q1
  NoQueue = NoQueue
  NoCtx = NoCtx
  Ctx = {c1, c2}
  Scripts = {c1}
  Qname = {q1}
  Timeouts = {1}
  MaxTime = 1
  MaxSend = 2
  MaxPub = 1
  AllocFailures = FALSE
SYMMETRY Symmetry
CHECK_DEADLOCK FALSE
INVARIANT BroadcastAssertHolds
