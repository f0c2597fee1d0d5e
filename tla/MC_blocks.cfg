SPECIFICATION MachineSpec
CONSTANTS
  Prefix <- InMain
  Instructions <- WholeInstrs
  MaxInstrs = 8
  MaxDepth = 3
INVARIANTS
  BlocksStack
  MachineStackTracksAccount
PROPERTIES
  KeepsBlocksApart
