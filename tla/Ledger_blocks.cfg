SPECIFICATION Spec
CONSTANTS
  Addr = {"p", "a", "b", "t"}
  Tx <- MCTx
  NoBlock = NoBlock
  Wallet = "p"
  TreasuryAddr = "t"
  InitialReward = 8
  HalvingInterval = 1
  MinReward = 1
  FeeSplitForkHeight = 100
  ProducerFeeBPS = 9000
  BaseFee = 1
  FeeCongestionStep = 2
  FeeStepIncrement = 1
  MaxMempoolTxs = 2
  MaxBlockTxs = 2
  MaxHeight = 3
INVARIANTS TypeOK  SupplyIsMinted EachTxOnce PoolFits OwnBlockSettles
PROPERTIES RootIsState LeavesForAReason
\* The exploration ends at MaxHeight; the node does not.
CHECK_DEADLOCK FALSE
