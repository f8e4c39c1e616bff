CONSTANTS
  ImageFiles <- MCImages
  BaseKinds <- MCBases
  MaxLaunches = 3
  BaseLayers = {0, 1}
  SpecLayers = {2}
  KvRope = 1
  Block = 2
  RowsOf <- MCRows
  ColsOf <- MCCols
  Checkpoints <- MCCheckpoints
  GateTokens = {1, 9, 17, 33}
  WarmSetups <- MCSetups
  Scheduled <- MCScheduled
  Forwards <- MCForwards
  Splits <- MCSplits
SPECIFICATION BootSpec
INVARIANT MountedPatched
INVARIANT AnchorErrorWritesNothing
INVARIANT ShardsRight
INVARIANT LoadComplete
INVARIANT DeferredAsBuilt
INVARIANT Gb10LogitsExact
 
INVARIANT MhcWarm
CHECK_DEADLOCK FALSE
