SPECIFICATION MCSpec
CONSTANTS
  g = g
  x1 = x1
  x2 = x2
  y1 = y1
  NoBlock = NoBlock
  Block <- MCBlock
  Genesis = g
  Number <- MCNumber
  Ancestors <- MCAncestors
  WithTxs = {x1, x2}
  Query = {q1}
  Filter = {f1}
  Client = Client
  NoOne = NoOne
  MaxHeight = 2
  Ranges <- MCFilterRanges
  CallRanges <- MCRanges
  Memo = {1}
  CacheOutlasts = FALSE
INVARIANTS LogsOnce BlocksOnce OnlyFinalLogs SettledOnce
