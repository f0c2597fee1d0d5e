SPECIFICATION LinkSpec
CONSTANTS
  Prefix <- InMain
  Instructions <- LinkInstrs
  MaxInstrs = 7
  MaxDepth = 4
INVARIANTS
  LinkTypeOK
  LinkedFieldsResolve
  FreedBytesUntouched
