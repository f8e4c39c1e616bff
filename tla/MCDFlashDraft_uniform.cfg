CONSTANTS
  r1 = r1
  r2 = r2
  r3 = r3
  s1 = s1
  s2 = s2
  t0 = t0
  t1 = t1
  t2 = t2
  NoSlot = NoSlot
  Req <- MCTwoReq
  Slot <- MCSlot
  Token <- MCToken
  FirstToken = t0
  NumSpec = 1
  TopK = 2
  MixedBatches = FALSE
  MaxRounds = 3
SPECIFICATION Spec
SYMMETRY MCSymmetry
INVARIANT TypeOK
INVARIANT RejectionReadsTheWalk
INVARIANT ProbeCountsTrueRejections
INVARIANT NoWalkHitIsRejected
CHECK_DEADLOCK FALSE
