SPECIFICATION PipeSpec
CONSTANTS
  Prefix <- None
  Instructions <- NoInstrs
  MaxInstrs = 0
  MaxDepth = 16
  Programs <- EmptyBranches
  MaxCalls = 40
INVARIANTS
  CompiledPrototypesResolve
