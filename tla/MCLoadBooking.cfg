\* Operations end, and the system then stops: MaxOps bounds them.
CONSTANTS
  c1 = c1
  c2 = c2
  b1 = b1
  b2 = b2
  h1 = h1
  h2 = h2
  Nobody = Nobody
  NoBid = NoBid
  Carriers <- MCCarriers
  Bids <- MCBids
  BidOf <- MCBidOf
  Handlers <- MCHandlers
  MaxOps = 4
SYMMETRY MCSymmetry
SPECIFICATION Spec
CHECK_DEADLOCK FALSE
INVARIANTS
  TypeOK
  OneInstantTake
  OneLiveReservation
  UnderWayToChosen
  OneAcceptedBid
