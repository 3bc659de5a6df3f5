SPECIFICATION PathSpec
CONSTANTS
  Size = 4
  Radius = 1
  Gauss <- GaussMC
  Density = 4
  White = 5
  Seeds <- SeedsMC
  Resolutions = {20, 40}
  Sizes <- SizesMC
  Percent = {50}
  Headers <- HeadersMC
  Bits = 2
  Wrap = 8
  FirstCap = 10
  ReadSizes = {4, 100}
  MaxBlocks = 2
  MaxPages = 2
INVARIANTS
  EnergyIsField
  RanksNest
  MaskBalanced
  StreamIsThePage
  SamplesInBlock
  WritesFit
PROPERTIES
  MaskCompletes
CHECK_DEADLOCK FALSE
