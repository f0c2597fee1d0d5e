SPECIFICATION ElfSpec
CONSTANTS
  Outputs <- NestedFunctions
INVARIANTS
  SectionsMapped
