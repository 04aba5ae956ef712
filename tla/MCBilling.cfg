\* Operations end, and the system then stops: MaxOps bounds them.
CONSTANTS
  h1 = h1
  h2 = h2
  k1 = k1
  k2 = k2
  Handlers <- MCHandlers
  Crons <- MCCrons
  Pack = 2
  Invoice = 1
  MaxFails = 2
  MaxOps = 4
SYMMETRY MCSymmetry
SPECIFICATION Spec
CHECK_DEADLOCK FALSE
INVARIANTS
  TypeOK
  CancelledStaysCancelled
  OneActiveSubscription
  CreditsExplained
