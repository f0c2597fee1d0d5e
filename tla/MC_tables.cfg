SPECIFICATION Spec
CONSTANTS
  Prefix <- InMainOfTwo
  Instructions <- TableInstrs
  MaxInstrs = 8
  MaxDepth = 2
INVARIANTS
  OpenSectionsExclusive
  LabelsInside
  ScopesNest
  PrototypesNumbered
  FieldsApart
  ReferencesAccounted
PROPERTIES
  SuspendedSectionsFrozen
  VisibleSymbolsKept
