\* Operations end, and the system then stops: MaxOps bounds them.
CONSTANTS
  q1 = q1
  q2 = q2
  h1 = h1
  h2 = h2
  NoRequest = NoRequest
  Requests <- MCRequests
  Handlers <- MCHandlers
  Amounts <- MCAmounts
  Opening = 2
  OpeningCash = 1
  DailyLimit = 2
  MonthlyLimit = 3
  MaxOps = 5
  MaxDay = 2
SYMMETRY MCSymmetry
SPECIFICATION Spec
CHECK_DEADLOCK FALSE
INVARIANTS
  TypeOK
  AvailableNeverNegative
  BooksBalance
