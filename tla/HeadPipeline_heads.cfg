SPECIFICATION MCSpec
CONSTANTS
  g = g
  x1 = x1
  x2 = x2
  y1 = y1
  t1 = t1
  t2 = t2
  NoBlock = NoBlock
  Block <- MCBlock
  Genesis = g
  Number <- MCNumber
  Ancestors <- MCAncestors
  Tx = {t1, t2}
  TxsIn <- MCTxsIn
  MaxCachedBlocks = 2
  Attempts = 2
  DrainRounds = 1
  SafeMode = FALSE
  MaxRetried = 1
  MaxTasks = 3
  MaxFinal = 1
  MaxReannounced = 0
INVARIANTS DrainedWhenClosed NotifiedOnce SettledOnBest PendingIsLiveOrGivenUp
PROPERTIES LatestNeverRegresses ImplementsView
CHECK_DEADLOCK FALSE
