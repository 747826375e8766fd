SPECIFICATION Spec
CONSTANTS
  Txs <- MCTxs
  Coinbases <- MCCoinbases
  CbHeight <- MCCbHeight
  Inputs <- MCInputs
  Outputs <- MCOutputs
  Nullifiers <- MCNullifiers
  Anchor <- MCAnchor
  Commits <- MCCommits
  Expiry <- MCExpiry
  LockHeight <- MCLock
  Branch <- MCBranch
  Standard <- MCStandard
  Cost <- MCCost
  EvictionWeight <- MCWeight
  FirstChain <- MCFirstChain
  Bodies <- MCBodies
  Activation = 5
  Maturity = 2
  Soon = 0
  CostLimit = 3
  EvictedCapacity = 2
  TimeToKeep = 0
  MaxHeight = 5
  MaxReorg = 2
  MaxTime = 1
INVARIANT IndexesExact
INVARIANT PoolMinable
INVARIANT CostBounded
INVARIANT DrawIsProportional
INVARIANT EvictedStaysOut
