SPECIFICATION Spec
CONSTANTS
  c1 = c1
  c2 = c2
  c3 = c3
  n1 = n1
  n2 = n2
  NULL = NULL
  Listener = Listener
  Client = {c1, c2, c3}
  NameOf <- Namesakes
  MAX_CLIENTS = 3
  MaxTasks = 0
  MaxDeaths = 2
  MaxUnread = 1
  LongSleep = FALSE
INVARIANTS TableInv
PROPERTIES KnownIsFound
CHECK_DEADLOCK FALSE
SYMMETRY Symmetry
