CONSTANTS
  l1 = l1
  l2 = l2
  tr = tr
  Loader <- MCLoaders
  Trucker = tr
  NoWorker = NoWorker
  K = 3
  M = 4
  Capacity = 2
  ForceStop = 0
  Weight <- MCWeight
  Cycles <- TwoEach
  Interruptible <- Everybody
SPECIFICATION FairSpec
INVARIANTS IInv PlacesInv WeightInv TruckInv LoadedInOrder
PROPERTIES FifoSpec LoadersFinish EveryParcelLeaves LoadersStop
