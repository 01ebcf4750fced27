CONSTANTS
  TaskCount = 4
  Net = 0
  Zdo = 2
  Apps <- MCApps
  Single <- MCSingle
  Status <- MCStatus
  FirstStatus = "hold"
  Heap = 3
  n1 = n1
  n2 = n2
  n3 = n3
  Nil = Nil
  Button <- OneButton
  Device <- OneDevice
  Addr <- ThreeAddresses
  Movers <- OneDevice
  MaxNet = 1
  MaxList = 1
  TX_MAX = 2
  TxTick = 2
  ST0_MOD = 4
  LastByte = 6
  b1 = b1
  d1 = d1
  a1 = a1
  a2 = a2
  a3 = a3
SPECIFICATION TasksSpec
INVARIANT NoStranded
INVARIANT StateKnown
INVARIANT ListingEnds
INVARIANT BoundIsStored
PROPERTY ImplementsMailboxes
PROPERTY Served
PROPERTY ImplementsFifo
PROPERTY AllSent
PROPERTY ArmedIsServed
PROPERTY PairingEnds
