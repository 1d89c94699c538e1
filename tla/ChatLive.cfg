SPECIFICATION FairSpec
CONSTANTS
  Client = {a, b}
  NoClient = none
  MAX_CLIENTS_COUNT = 2
  MAX_GROUP_SIZE = 2
  Commands <- PlainCommands
  Lists <- FriendLists
  MaxCommands = 1
  MaxSIGINT = 1
CHECK_DEADLOCK FALSE
PROPERTIES ShutdownEnds
