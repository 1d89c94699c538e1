CONSTANTS
  l1 = l1
  l2 = l2
  tr = tr
  v1 = v1
  v2 = v2
  Loader <- Both
  Trucker = tr
  NoWorker = NoWorker
  K = 2
  M = 3
  Capacity = 2
  ForceStop = 3
  Weight <- MCWeight
  Cycles <- TwoEach
  Interruptible <- Everybody
  Invocation <- MCInvocation
  Crews <- MCCrews
SPECIFICATION Spec
INVARIANTS IInv SemInv BeltKept UnlinksLast
PROPERTIES FifoUntilTruncated
CHECK_DEADLOCK FALSE
