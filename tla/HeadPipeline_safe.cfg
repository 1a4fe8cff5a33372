SPECIFICATION Spec
CONSTANTS
  g = g
  x1 = x1
  x2 = x2
  y1 = y1
  t1 = t1
  t2 = t2
  NoBlock = NoBlock
  Block <- MCBlock
  Genesis = g
  Number <- MCNumber
  Ancestors <- MCAncestors
  Tx = {t1, t2}
  TxsIn <- MCTxsIn
  MaxCachedBlocks = 2
  Attempts = 1
  DrainRounds = 1
  SafeMode = TRUE
  MaxRetried = 4
  MaxTasks = 4
  MaxFinal = 2
  MaxReannounced = 0
INVARIANT SafeModeCachesFinal
CHECK_DEADLOCK FALSE
