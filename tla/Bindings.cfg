CONSTANTS
  n1 = n1
  n2 = n2
  n3 = n3
  Nil = Nil
  d1 = d1
  d2 = d2
  c1 = c1
  c2 = c2
  x1 = x1
  y1 = y1
  y2 = y2
  s1 = s1
  Empty = Empty
  EndDevice <- TwoDevices
  ClusterId <- TwoClusters
  Out <- SentClusters
  In <- ReceivedClusters
  TransMod = 2
  MaxRequests = 1
  NoMatch = NoMatch
  Task <- TwoTasks
  Node <- MCNode
  Event <- BoardEvents
  LowerLimit = 0
  Chosen <- Boards
  Loop <- MCLoop
  MainCalls <- BoardCalls
  CbCalls <- BoardCbCalls
  IsrCalls <- BoardIsrCalls
SYMMETRY Symmetry
SPECIFICATION PartsSpec
INVARIANT NoDanglingPointer
INVARIANT ArmedHasTrigger
INVARIANT NoDuplicateEvent
INVARIANT MatchIsTimed
PROPERTY NonResidentBudget
PROPERTY Toggled
PROPERTY ImplementsBindings
