SPECIFICATION Spec
CONSTANTS
  g = g
  x1 = x1
  x2 = x2
  y1 = y1
  NoBlock = NoBlock
  Block <- MCBlock
  Genesis = g
  Number <- MCNumber
  Ancestors <- MCAncestors
  WithTxs = {x2, y1}
  Includes = {x2, y1}
  AskedFor = {x2, y1}
  MaxTries = 2
  FailsIn = {x2}
  MaxConfirms = 2
INVARIANTS AnswerWasCanonical FoundUnlessShared PendingNonceExact SafeModeAnswersFinal ResolvedIsConfirmed
PROPERTIES PollSettlesOnce PromisesSettle
CHECK_DEADLOCK FALSE
