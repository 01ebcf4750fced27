CONSTANTS
  e1 = e1
  e2 = e2
  Task <- OneTask
  Event <- MCEvent
  NoEvent = NoEvent
  Timeouts <- MCTimeouts
  Periods <- MCPeriods
  Elapsed <- MCElapsed
  Capacity = 3
SPECIFICATION PartsSpec
PROPERTY OnTime
PROPERTY ImplementsTable
PROPERTY Expires
PROPERTY Connects
