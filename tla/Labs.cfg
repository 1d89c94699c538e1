CONSTANTS
  Limits = {0, 1, 2, 3}
  MaxSenders = 2
  FileNames = {"a", "b", "gone"}
  watchingFileCount = 2
  Missing = "gone"
  Basenames <- TheBasenames
  interval = 1
  MonitorTime = 3
  MonitorWrites <- TheWrites
  MaxCommands <- TheCommands
  MaxSIGINT <- TheInterrupts
  howWatchingFile = 2
  Lists <- TheLists
  Times = {0, 2}
  WatchTime = 3
  WatchWrites <- TheLines
  MaxFailures = 1
  MaxSIGTSTP = 4
  MaxPrints = 3
  Servers = {"s1", "s2"}
  Clients = {"c1"}
  Ports = {1, 2}
  Names = {"mleko", "n"}
  mleko = "mleko"
  None = "none"
  TimeWait = "time wait"
SPECIFICATION MCSpec
INVARIANTS SignalsRight BackupsRight PausesRight PipesRight ThreadsRight FilesRight Reachable
CHECK_DEADLOCK FALSE
