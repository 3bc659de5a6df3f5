SPECIFICATION Spec
CONSTANTS
  MaxPages = 2
  Copies = {1, 2}
  Duplex = {TRUE, FALSE}
  Faults = {}
INVARIANTS
  CopiesAccounted
CHECK_DEADLOCK FALSE
