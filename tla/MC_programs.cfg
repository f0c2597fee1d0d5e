SPECIFICATION PipeSpec
CONSTANTS
  Prefix <- None
  Instructions <- NoInstrs
  MaxInstrs = 0
  MaxDepth = 16
  Programs <- ProgramsToRun
  MaxCalls = 40
INVARIANTS
  NamesNest
  LabelsUnique
  FlagsReachJumps
  GeneratorAccepts
  JumpsAgreeOnDepth
  AccessesFindVariables
  CompiledVarsStay
  CompiledPrototypesResolve
  CompiledFieldsResolve
PROPERTIES
  ProgramsEnd
