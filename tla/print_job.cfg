SPECIFICATION Spec
CONSTANTS
  MaxPages = 4
  Copies = {1, 2}
  Duplex = {TRUE, FALSE}
  Faults = {"files", "memory", "spool", "backend"}
INVARIANTS
  JobTypeOK
  JobWhole
  StreamIsPrefix
  SheetsPaired
  DocClosed
CHECK_DEADLOCK FALSE
