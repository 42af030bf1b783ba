\* alloc
SPECIFICATION Spec
CONSTANTS
  c1 = c1
  c2 = c2
  q1 = q1
  NoQueue = NoQueue
  NoCtx = NoCtx
  Ctx = {c1, c2}
  Scripts = {c1, c2}
  Qname = {q1}
  Timeouts = {1}
  MaxTime = 1
  MaxSend = 2
  MaxPub = 1
  AllocFailures = TRUE
SYMMETRY Symmetry
INVARIANT WaitRecordsAgree
INVARIANT QueueIsFifo
CHECK_DEADLOCK FALSE
