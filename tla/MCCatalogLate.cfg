CONSTANTS
  a = a
  b = b
  TABLE_MAX_PAGES = 6
  Names <- TwoNames
  LAST_ROOT = 5
  USED_ROOTS = TRUE
  CRASH_EARLY = FALSE
SYMMETRY EitherName
SPECIFICATION Spec
INVARIANT PagesOwned
CHECK_DEADLOCK FALSE
