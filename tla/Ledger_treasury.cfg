SPECIFICATION Spec
CONSTANTS
  Addr = {"p", "a", "b", "t"}
  Tx <- MCFeeTx
  NoBlock = NoBlock
  Wallet = "p"
  TreasuryAddr = "t"
  InitialReward = 10
  HalvingInterval = 1
  MinReward = 1
  FeeSplitForkHeight = 1
  ProducerFeeBPS = 9000
  BaseFee = 1
  FeeCongestionStep = 4
  FeeStepIncrement = 1
  MaxMempoolTxs = 2
  MaxBlockTxs = 2
  MaxHeight = 3
INVARIANTS SupplyIsMinted
\* The exploration ends at MaxHeight; the node does not.
CHECK_DEADLOCK FALSE
