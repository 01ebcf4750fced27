CONSTANTS
  PowerSaving = FALSE
  POWERSETTING_COUNT = 1
  JoiningLimit = 1
  Leaves = {"leave", "rejoin"}
  MailMax = 1
SPECIFICATION Spec
PROPERTY FactoryReset
