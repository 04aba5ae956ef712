\* Requests end, and the system then stops: MaxOps and MaxSignatures bound them.
CONSTANTS
  e1 = e1
  h1 = h1
  h2 = h2
  q1 = q1
  NoRow = NoRow
  NoJob = NoJob
  Escrows <- MCEscrows
  Price <- MCPrice
  Shares <- MCSingle
  Commission <- MCCommission
  Deposit = 3
  Handlers <- MCHandlers
  MaxOps = 4
  MaxSignatures = 2
  QuickPay = TRUE
  NoCode = NoCode
  Codes <- MCCodes
  Overlap = 2
SPECIFICATION QrSpec
CHECK_DEADLOCK FALSE
INVARIANTS
  QrTypeOK
  PaidOnEvidence
  PaidPerEvidence
  QuickPaysOnce
SYMMETRY MCSymmetry
