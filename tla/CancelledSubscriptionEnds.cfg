\* Operations end, and the system then stops: MaxOps bounds them.
CONSTANTS
  h1 = h1
  h2 = h2
  k1 = k1
  k2 = k2
  Handlers = {h1}
  Crons = {k1}
  Pack = 2
  Invoice = 1
  MaxFails = 2
  MaxOps = 3
SPECIFICATION Spec
CHECK_DEADLOCK FALSE
PROPERTIES
  CancelledSubscriptionEnds
