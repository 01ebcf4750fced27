CONSTANTS
  TaskCount = 4
  Net = 0
  Zdo = 2
  Apps <- MCApps
  Single <- MCSingle
  Status <- MCStatus
  FirstStatus = "hold"
  Heap = 2
SPECIFICATION FairSpec
PROPERTY Reported
