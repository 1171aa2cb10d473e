CONSTANTS
  v = v
  w = w
  Values <- TwoValues
  Wrong = wrong
  Missing = missing
  Null = null
  NoKey = none
  TOP_KEY = 3
  MAX_INSERT_ROWS = 3
  RowSpecs <- SomeRows
SPECIFICATION Spec
INVARIANTS
  TypeOK
  PassesAgree
  RefusedLeavesNothing
PROPERTIES
  ImplementsAtomicRows
