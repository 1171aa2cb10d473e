CONSTANTS
  a = a
  b = b
  TABLE_MAX_PAGES = 6
  Names <- TwoNames
  LAST_ROOT = 5
  USED_ROOTS = FALSE
  CRASH_EARLY = FALSE
SYMMETRY EitherName
SPECIFICATION Spec
INVARIANTS
  TypeOK
  PagesOwned
  FreePagesIdle
  RootsBelowNext
  CountCoversPages
PROPERTIES
  ImplementsPageOwners
CHECK_DEADLOCK FALSE
