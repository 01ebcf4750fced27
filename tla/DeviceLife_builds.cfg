CONSTANTS
  PowerSaving = FALSE
  POWERSETTING_COUNT = 1
  JoiningLimit = 0
  Leaves = {"leave", "rejoin"}
  MailMax = 1
  Coordinator = FALSE
  NwkMargin = 2
  TclkMargin = 3
  NwkLimit = 9
  TclkLimit = 5
  ROLLOVER = 4
  WORD = 18
  QUOTIENT = 4
  NUM = 1
  DEN = 2
  PM_MIN_SLEEP = 1
  MAX_SLEEP = 12
  TICKS_SUBTRACTED = 2
  Debounce = 1
  AppTimeouts = {1, 2}
  MacTimeouts = {0, 7}
  Busy = 1
SPECIFICATION PartsSpec
INVARIANT PowerCountSound
INVARIANT UnauthIsTimed
INVARIANT Awake
 
INVARIANT TclkRepeatsUnsaved
INVARIANT NoTimeLost
INVARIANT NothingAwaitsSleeper
PROPERTY NewJoinHasCause
