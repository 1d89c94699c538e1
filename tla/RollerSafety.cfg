CONSTANTS
  passengerCount = 5
  carriageCount = 2
  carriageCapacity = 2
  tourCount = 2
SPECIFICATION Spec
INVARIANTS IInv PlatformInv QueueInv SafeRide FairRides StuckOnlyAs
CHECK_DEADLOCK FALSE
