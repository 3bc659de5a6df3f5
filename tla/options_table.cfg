SPECIFICATION Spec
CONSTANTS
  MaxX = 850
  MaxY = 1169
  MaxYAdf = 1400
  MinWindow = 15
  Grid = 4
  Feeders = {TRUE, FALSE}
  AskedModes = {"Lineart", "Gray"}
  AskedDpi <- AskedDpiMC
  AskedX <- AskedXMC
  AskedY = {3, 4700, 6000}
  AskedThresholds <- AskedThresholdsMC
  Percent = 3
  NoMem = {"string"}
INVARIANTS
  OptionsTypeOK
  InRange
  WindowInBed
  WindowCovers
  SmallOnlyAtOrigin
