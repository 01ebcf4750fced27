CONSTANTS
  n1 = n1
  n2 = n2
  n3 = n3
  Nil = Nil
  Task <- OneTask
  Node <- MCNode
  Event <- ButtonEvents
  LowerLimit = 0
  Loop <- MCLoop
  MainCalls <- ButtonCalls
  CbCalls = {}
  IsrCalls = {}
SPECIFICATION Spec
PROPERTY OnceMeansOnce
