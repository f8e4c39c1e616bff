CONSTANTS
  ImageFiles <- MCImages
  BaseKinds <- MCBases
  MaxLaunches = 2
SPECIFICATION OverlaySpec
INVARIANT MountedFromImage
CHECK_DEADLOCK FALSE
