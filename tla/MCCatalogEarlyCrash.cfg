CONSTANTS
  a = a
  b = b
  TABLE_MAX_PAGES = 6
  Names <- TwoNames
  LAST_ROOT = 5
  USED_ROOTS = FALSE
  CRASH_EARLY = TRUE
SYMMETRY EitherName
SPECIFICATION Spec
INVARIANT PagesOwned
