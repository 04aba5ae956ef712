\* Operations end, and the system then stops: MaxOps bounds them.
CONSTANTS
  e1 = e1
  e2 = e2
  h1 = h1
  h2 = h2
  NoRow = NoRow
  NoJob = NoJob
  Escrows <- MCEscrows
  Price <- MCPrice
  Shares <- MCShares
  Deposit = 6
  Handlers <- MCHandlers
  MaxOps = 5
SPECIFICATION Spec
CHECK_DEADLOCK FALSE
INVARIANTS
  TypeOK
  EscrowRowsAreFunded
  SettledMeansPaid
  MilestonesArePaid
  PendingDrains
