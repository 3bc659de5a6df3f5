SPECIFICATION RenderSpec
CONSTANTS
  Papers <- PapersMC
  A5 = "A5"
  A5Turned = "A5 turned"
  Jobs <- JobsMC
  WidthStep = 4
  HeightStep = 2
  MaxDots = 16
  Wrap = 64
  Byte = 4
  Screen = 3
  Thresholds = {1, 24, 126, 233, 255}
  BihLen = 2
  BidMax = 3
  FirstCap = 3
  Pieces = {1, 3}
  MaxPieces = 3
INVARIANTS
  RowHolds
  SheetIsPage
  EntityWhole
  HeaderInPlace
  InkFollowsTone
CHECK_DEADLOCK FALSE
