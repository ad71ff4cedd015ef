SPECIFICATION FairSpec
CONSTANTS
  e1 = e1
  e2 = e2
  w1 = w1
  w2 = w2
  Events <- MCEvents
  Workers <- MCWorkers
  MAX_RETRIES = 2
  BATCH_SIZE = 2
  MaxFaults = 1
INVARIANTS
  TypeOK
  PublishedWasSent
  GivenUpAfterRetries
  OlderTriedFirst
PROPERTY
  ImplementsDelivery
CHECK_DEADLOCK FALSE
