CONSTANTS
  i1 = i1
  i2 = i2
  i3 = i3
  v1 = v1
  v2 = v2
  PageCount = 3
  Val <- MCVal
  Zeroed = Zeroed
  Blank = Blank
  Room = 3
  Id <- MCId
  Size <- MCEven
  HotIds <- MCHot
  Torn <- MCTorn
SPECIFICATION FairSpec
INVARIANT Settled
PROPERTY ImplementsStore
PROPERTY Durable
PROPERTY Ends
