SPECIFICATION Spec
CONSTANTS
  TenGwei = 1000
  EntryRange = 16
  TxFeePerGas = 19984
  StorageByteDeposit = 30000000
  MaxValidUntil = 100000000
  Costs <- MCCosts
  Overrides <- MCOverrides
  GasJobs <- MCGasJobs
  NativeGasJobs <- MCNativeGasJobs
  TxJobs <- MCTxJobs
  Blocks <- MCBlocks
  LogJobs <- MCLogJobs
  RequestJobs <- MCRequestJobs
INVARIANTS CodecCovers GasFound SenderRecovered EveryLogOnce FiltersAgree RequestsUnderstood
