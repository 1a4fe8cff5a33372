SPECIFICATION MCSpec
CONSTANTS
  g = g
  x1 = x1
  x2 = x2
  y1 = y1
  y2 = y2
  NoBlock = NoBlock
  Block <- MCBlock
  Genesis = g
  Number <- MCNumber
  Ancestors <- MCAncestors
  WithTxs = {x1, y1}
  Heights = {1, 2}
  Query = {q1}
  Call = {c1}
INVARIANT KeptHashIsFinal
