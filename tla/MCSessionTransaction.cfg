CONSTANTS
  a = a
  b = b
  Databases <- TwoDatabases
  NoDatabase = none
  MAX_STATEMENTS = 4
  LOSE_NEW = FALSE
SYMMETRY EitherDatabase
SPECIFICATION Spec
INVARIANTS
  DeferredUntilCommit
