SPECIFICATION Spec
CONSTANTS
  key = key
  none = none
  i1 = i1
  i2 = i2
  h1 = h1
  h2 = h2
  Keys <- MCKeys
  NoKey <- none
  Instances <- MCInstances
  Handlers <- MCHandlers
  Fees = {0, 1}
  MaxCalls = 2
  MaxFaults = 1
SYMMETRY Symmetry
INVARIANTS
  TypeOK
  AnswersAgree
  RetryIsAnswered
  AnnouncedOnceInOrder
  NoSilentOrder
  RecordedAsCharged
CHECK_DEADLOCK FALSE
