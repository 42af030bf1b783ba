\* topic, a fair event loop
SPECIFICATION FairSpec
CONSTANTS
  c1 = c1
  c2 = c2
  q1 = q1
  NoQueue = NoQueue
  NoCtx = NoCtx
  Ctx = {c1, c2}
  Scripts = {c1, c2}
  Qname = {q1}
  Timeouts = {1, 2}
  MaxTime = 2
  MaxSend = 1
  MaxPub = 2
  AllocFailures = FALSE
INVARIANT TopicExactlyOnce
INVARIANT DrainedBeforeWaiting
CHECK_DEADLOCK FALSE
PROPERTY TimedRecvEnds
PROPERTY WokenForAReason
