CONSTANTS
  r1 = r1
  r2 = r2
  b1 = b1
  b2 = b2
  NoBlock = NoBlock
  Req <- MCReq
  Block <- MCBlock
  KPool = 2
  NumSpec = 2
  Align = 4
  MaxLen = 6
  MaxBatch = 9
SPECIFICATION TwoShapesSpec
SYMMETRY MCSymmetry
INVARIANT TypeOK
INVARIANT CommittedPoolsOwn
INVARIANT BoundaryKeysOwn
INVARIANT OneDraftFaithful
PROPERTY ImplementsIndex
CHECK_DEADLOCK FALSE
