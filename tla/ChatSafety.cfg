SPECIFICATION Spec
CONSTANTS
  Client = {a, b, c}
  NoClient = none
  MAX_CLIENTS_COUNT = 2
  MAX_GROUP_SIZE = 2
  Commands <- GroupCommands
  Lists <- FriendLists
  MaxCommands = 2
  MaxSIGINT = 0
CHECK_DEADLOCK FALSE
SYMMETRY Symmetry
INVARIANTS Basis UsersInv GroupInv KnowsItsId
