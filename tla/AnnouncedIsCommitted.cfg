\* The instance of MCWalletService.cfg, one claim of the documentation.
CONSTANTS
  u1 = u1
  k1 = k1
  k2 = k2
  k3 = k3
  h1 = h1
  h2 = h2
  NoKey = NoKey
  NoWallet = NoWallet
  NoCall = NoCall
  NoTx = NoTx
  Users <- MCUsers
  Keys <- MCKeys
  Requests <- MCRequests
  Handlers <- MCHandlers
  PoolSize = 2
  MaxCalls = 3
SPECIFICATION Spec
CHECK_DEADLOCK FALSE
INVARIANTS
  AnnouncedIsCommitted
