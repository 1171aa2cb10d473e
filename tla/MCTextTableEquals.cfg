CONSTANTS
  MAX_CELL_TEXT = 2
  MAX_SCHEMA_COLUMNS = 3
  MAX_INSERT_ROWS = 2
  UINT32_MAX = 11
  EQUALS = TRUE
  Inputs <- Documented
VIEW Table
SPECIFICATION Spec
PROPERTIES
  ImplementsTypedTable
