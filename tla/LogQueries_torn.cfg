SPECIFICATION MCSpec
CONSTANTS
  g = g
  x1 = x1
  x2 = x2
  y1 = y1
  NoBlock = NoBlock
  Block <- MCBlock
  Genesis = g
  Number <- MCNumber
  Ancestors <- MCAncestors
  WithTxs = {x1, x2}
  Query = {q1}
  Filter = {}
  Client = Client
  NoOne = NoOne
  MaxHeight = 2
  Ranges <- MCRanges
  CallRanges <- MCRanges
  Memo = {1}
  CacheOutlasts = TRUE
INVARIANTS FinalLogsAnswered
