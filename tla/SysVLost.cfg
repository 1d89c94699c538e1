CONSTANTS
  l1 = l1
  l2 = l2
  tr = tr
  Loader <- MCLoaders
  Trucker = tr
  NoWorker = NoWorker
  K = 2
  M = 3
  Capacity = 2
  ForceStop = 1
  Weight <- MCWeight
  Cycles <- TwoEach
  Interruptible <- Nobody
SPECIFICATION Spec
INVARIANTS NothingLost
