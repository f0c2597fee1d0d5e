SPECIFICATION Spec
CONSTANTS
  Prefix <- Empty
  Instructions <- AllInstrs
  MaxInstrs = 5
  MaxDepth = 2
INVARIANTS
  TypeOK
  OpenSectionsExclusive
  ReferencesAccounted
PROPERTIES
  KeepsBlocksApart
