SPECIFICATION Spec
CONSTANTS
  Units = {u1, u2}
  Builtin = {u1}
  Listed = {{}, {u2}, {u1, u2}}
  Handles = {h1, h2}
  MaxNoMem = 1
INVARIANTS
  RegistryTypeOK
  ClaimsMatchHandles
  BusyMatchesHandles
  NoDangling
