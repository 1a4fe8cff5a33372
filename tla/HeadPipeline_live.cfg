SPECIFICATION FairSpec
CONSTANTS
  g = g
  x1 = x1
  x2 = x2
  y1 = y1
  t1 = t1
  t2 = t2
  NoBlock = NoBlock
  Block <- MCBlock
  Genesis = g
  Number <- MCNumber
  Ancestors <- MCAncestors
  Tx = {t1, t2}
  TxsIn <- MCTxsIn
  MaxCachedBlocks = 2
  Attempts = 2
  DrainRounds = 1
  SafeMode = FALSE
  MaxRetried = 4
  MaxTasks = 2
  MaxFinal = 0
  MaxReannounced = 1
PROPERTIES EveryHeadHandled DisconnectEnds
CHECK_DEADLOCK FALSE
