CONSTANTS
  RX_MAX = 8
  HIGH = 4
  IDLE = 3
  ST0_MOD = 4
  READ_MAX = 5
  MaxGap = 2
  LastByte = 15
SPECIFICATION Spec
PROPERTY IdleMeansQuiet
