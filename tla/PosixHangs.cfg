CONSTANTS
  l1 = l1
  l2 = l2
  tr = tr
  v1 = v1
  v2 = v2
  Loader <- Single
  Trucker = tr
  NoWorker = NoWorker
  K = 2
  M = 3
  Capacity = 2
  ForceStop = 1
  Weight <- MCWeight
  Cycles <- TwoEach
  Interruptible <- Nobody
  Invocation <- MCInvocation
  Crews <- MCCrews
SPECIFICATION FairSpec
PROPERTIES ShutdownCompletes
CHECK_DEADLOCK FALSE
