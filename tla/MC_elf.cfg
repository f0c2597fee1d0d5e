SPECIFICATION ElfSpec
CONSTANTS
  Outputs <- UpToThree
INVARIANTS
  LayoutDisjoint
  FilePlacesMatchMemory
  PairsMapped
  HeadersFit
  EntryPointRight
  CopiesInside
