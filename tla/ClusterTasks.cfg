SPECIFICATION FairSpec
CONSTANTS
  c1 = c1
  c2 = c2
  c3 = c3
  n1 = n1
  n2 = n2
  NULL = NULL
  Listener = Listener
  Client = {c1, c2}
  NameOf <- Pair
  MAX_CLIENTS = 3
  MaxTasks = 2
  MaxDeaths = 0
  MaxUnread = 4
  LongSleep = TRUE
INVARIANTS AnswersInv
PROPERTIES ResultRead
CHECK_DEADLOCK FALSE
