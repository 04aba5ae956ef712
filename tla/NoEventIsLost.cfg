\* The instance of MCOutbox.cfg, one claim of the documentation.
CONSTANTS
  w1 = w1
  w2 = w2
  r1 = r1
  NoRow = NoRow
  Count = 2
  Workers <- MCWorkers
  Retriers <- MCRetriers
  Batch = 2
  RetryBatch = 1
  MaxRetries = 3
  MaxFaults = 1
SPECIFICATION FairSpec
CHECK_DEADLOCK FALSE
PROPERTIES
  NoEventIsLost
