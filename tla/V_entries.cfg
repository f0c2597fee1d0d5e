SPECIFICATION LinkSpec
CONSTANTS
  Prefix <- TwoPrograms
  Instructions <- NoMore
  MaxInstrs = 17
  MaxDepth = 3
INVARIANTS
  MergedFieldsResolve
