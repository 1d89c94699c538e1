CONSTANTS
  passengerCount = 2
  carriageCount = 1
  carriageCapacity = 2
  tourCount = 2
SPECIFICATION FairSpec
PROPERTIES CarriagesFinish
CHECK_DEADLOCK FALSE
