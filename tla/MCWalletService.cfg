\* Two handlers over a pool of two connections: each holds one and needs a
\* second, so the pool can run dry.  The workload ends after MaxCalls calls,
\* and the system then stops: EveryCallEnds covers what deadlock would.
CONSTANTS
  u1 = u1
  k1 = k1
  k2 = k2
  k3 = k3
  h1 = h1
  h2 = h2
  NoKey = NoKey
  NoWallet = NoWallet
  NoCall = NoCall
  NoTx = NoTx
  Users <- MCUsers
  Keys <- MCKeys
  Requests <- MCRequests
  Handlers <- MCHandlers
  PoolSize = 2
  MaxCalls = 3
SPECIFICATION FairSpec
CHECK_DEADLOCK FALSE
INVARIANTS
  TypeOK
  LedgerExplainsBalances
  LedgerChains
  OneRowPerKey
  AvailableNeverNegative
  AnsweredIsCommitted
  CommittedIsAnnounced
PROPERTIES
  EveryCallEnds
  ImplementsAtomicLedger
