SPECIFICATION MachineSpec
CONSTANTS
  Prefix <- StoredSum
  Instructions <- NoMore
  MaxInstrs = 20
  MaxDepth = 20
INVARIANTS
  MachineStackTracksAccount
