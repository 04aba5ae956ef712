\* The services may stop emitting, and the system then rests with every event
\* settled: that is the end of a behaviour, not a deadlock.
CONSTANTS
  w1 = w1
  w2 = w2
  r1 = r1
  NoRow = NoRow
  Count = 2
  Workers <- MCWorkers
  Retriers <- MCRetriers
  Batch = 2
  RetryBatch = 1
  MaxRetries = 3
  MaxFaults = 1
SPECIFICATION FairSpec
CHECK_DEADLOCK FALSE
INVARIANTS
  TypeOK
  CompletedWasDelivered
  ProcessingHasOwner
  RetriesWereFailures
PROPERTIES
  EventSettles
