CONSTANTS
  imgA = imgA
  imgF = imgF
  v1 = v1
  v2 = v2
  NoImage = NoImage
  NoBox = NoBox
  Image <- MCImage
  Fallback = imgF
  Revision <- MCRevision
  MaxBoots = 2
  MaxEdits = 1
  MaxPolls = 2
SPECIFICATION MCSpec
INVARIANT RanksServeTheSame
CHECK_DEADLOCK FALSE
