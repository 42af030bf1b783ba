\* queue
SPECIFICATION Spec
CONSTANTS
  c1 = c1
  c2 = c2
  c3 = c3
  q1 = q1
  NoQueue = NoQueue
  NoCtx = NoCtx
  Ctx = {c1, c2, c3}
  Scripts = {c1, c2}
  Qname = {q1}
  Timeouts = {1, 2}
  MaxTime = 2
  MaxSend = 2
  MaxPub = 0
  AllocFailures = FALSE
SYMMETRY Symmetry
INVARIANT TypeOK
INVARIANT NoStarvedReceiver
INVARIANT NoOrphanedQueue
PROPERTY IsMailbox
CHECK_DEADLOCK FALSE
