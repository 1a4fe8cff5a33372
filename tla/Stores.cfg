SPECIFICATION MCSpec
CONSTANTS
  a = a
  b = b
  c = c
  d = d
  e = e
  t1 = t1
  t2 = t2
  t3 = t3
  NoBlock = NoBlock
  Block <- MCBlock
  Tx <- MCTx
  TxsIn <- Forks
  MaxCachedBlocks = 3
  MaxAdds = 7
  Null = Null
  Hash = {h1, h2, h3, h4, h5}
  MaxSizes = {0, 1, 2, 3}
INVARIANTS ListMatchesItems NoDanglingReceipt ServedSinceAdded FoundSinceAdded
PROPERTY SetWindowSpec
CHECK_DEADLOCK FALSE
