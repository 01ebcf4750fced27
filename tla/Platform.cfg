CONSTANTS
  HDRSZ = 1
  MIN_BLKSZ = 2
  SMALL_BLKSZ = 3
  BUCKET = 5
  BIGBLK_SZ = 6
  Request = {1, 2, 4}
  RxFlag = {"poll"}
  MaxBackoffs = 1
  Shape <- TwoShapes
  SlowIsr = FALSE
  ResetAnytime = FALSE
  RX_MAX = 8
  HIGH = 4
  IDLE = 3
  ST0_MOD = 4
  READ_MAX = 5
  MaxGap = 2
  LastByte = 15
SPECIFICATION PlatformSpec
INVARIANT HeapSound
INVARIANT NullMeansFull
INVARIANT AssertsHold
INVARIANT NothingForgotten
PROPERTY ImplementsAllocator
PROPERTY Progress
PROPERTY RxFifo
