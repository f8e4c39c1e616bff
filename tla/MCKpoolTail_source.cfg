CONSTANTS
  r1 = r1
  r2 = r2
  b1 = b1
  b2 = b2
  NoBlock = NoBlock
  Req <- MCReq
  Block <- MCBlock
  KPool = 2
  NumSpec = 2
  Align = 2
  MaxLen = 5
  MaxBatch = 6
SPECIFICATION TwoShapesSpec
SYMMETRY MCSymmetry
INVARIANT CommittedPoolsFaithful
CHECK_DEADLOCK FALSE
