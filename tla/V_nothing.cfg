SPECIFICATION PipeSpec
CONSTANTS
  Prefix <- None
  Instructions <- NoInstrs
  MaxInstrs = 0
  MaxDepth = 16
  Programs <- SetToNothing
  MaxCalls = 40
INVARIANTS
  VariablesKeepSlots
