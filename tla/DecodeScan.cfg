CONSTANTS
  a = a
  b = b
  c = c
  Names = {a, b, c}
  MaxTotalValues = 6
  MaxNestingDepth = 3
  MaxObjectMembers = 2
  MaxArrayItems = 2
SYMMETRY NameSymmetry
SPECIFICATION Spec
INVARIANTS
  ScanExact
  ScanBounded
