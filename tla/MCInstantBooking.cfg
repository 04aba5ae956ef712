\* Requests end, and the system then stops: MaxOps bounds them.
CONSTANTS
  c1 = c1
  c2 = c2
  r1 = r1
  r2 = r2
  s1 = s1
  Nobody = Nobody
  NoRow = NoRow
  Carriers <- MCCarriers
  Requests <- MCRequests
  Sweepers <- MCSweepers
  MaxOps = 6
SPECIFICATION Spec
CHECK_DEADLOCK FALSE
INVARIANTS
  TypeOK
  OneLockPerOpening
  BookedByHolder
PROPERTIES
  LockSettles
  BookingStands
