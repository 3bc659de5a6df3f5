SPECIFICATION FairSpec
CONSTANTS
  MaxFaults = 1
  QMax = 2
  MaxSheets = 0
  MaxBlocks = 1
  Blocks <- BlocksMC
  LockCodes = {0, 2}
  JobCodes = {0, 8}
  Feeders = {FALSE}
  MaxSkip = 2
  LockTries = 2
  Attempts = 2
  MaxDrain = 8
  MaxLines = 2
  MaxStarts = 2
  Lengths = {2}
  Modes = {TRUE}
PROPERTIES
  CallsReturn
  ClosedReleases
