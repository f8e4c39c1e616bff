CONSTANTS
  KPool = 3
  TopK = 6
  BlockN = 3
  DecodeRows <- MCDecodeRows
  PrefillRows <- MCPrefillRows
  Scores <- MCScores
  MaxRequests = 2
  MaxPad = 1
  MaxRows = 18
  NumLayers = 3
  TPSize = 2
  StackTokens = 3
  SpecTokens = 3
  Taps = 3
  MaxDraftReqs = 3
  MaxGraphPad = 2
  GroupKinds <- MCGroupKinds
  MaxHit = 3
SPECIFICATION ServingSpec
INVARIANT LowestPoolsDropped
CHECK_DEADLOCK FALSE
