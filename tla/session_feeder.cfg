SPECIFICATION Spec
CONSTANTS
  MaxFaults = 0
  QMax = 2
  MaxSheets = 2
  MaxBlocks = 2
  Blocks <- BlocksMC
  LockCodes = {0, 2}
  JobCodes = {0, 8}
  Feeders = {TRUE}
  MaxSkip = 2
  LockTries = 2
  Attempts = 2
  MaxDrain = 9
  MaxLines = 2
  MaxStarts = 3
  Lengths = {2}
  Modes = {}
PROPERTIES
  KeepsContract
INVARIANTS
  CleanBoundary
