SPECIFICATION Spec
CONSTANTS
  Client = {a, b, c}
  NoClient = NoClient
  MAX_CLIENTS_COUNT = 2
  MAX_GROUP_SIZE = 1
  MAX_MESSAGES = 2
  Commands <- SomeCommands
  Lists <- FriendLists
  MaxCommands = 1
  MaxSIGINT = 1
  MaxRestarts = 1
CHECK_DEADLOCK FALSE
SYMMETRY Symmetry
INVARIANTS Basis UsersAgree StuckOnlyAs Served
