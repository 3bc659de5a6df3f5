SPECIFICATION ParametersSpec
CONSTANTS
  MaxX = 850
  MaxY = 1169
  MaxYAdf = 1400
  MinWindow = 15
  Grid = 4
  Feeders = {TRUE}
  AskedModes = {"Color", "Halftone"}
  AskedDpi = {1200}
  AskedX = {2}
  AskedY = {6000}
  AskedThresholds = {}
  Percent = 3
  NoMem = {"mask"}
INVARIANTS
  ParametersTypeOK
  RowsMatchParams
  SettingsMatchParams
