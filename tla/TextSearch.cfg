SPECIFICATION Spec
CONSTANTS
  Rows = {1, 2}
  FieldTypes = {"CHAR", "CHARX", "VARCHAR"}
  IndexTypes = {"UNIQUE", "NONUNIQUENOTNULL", "UNORDERED"}
  Length = 2
  Literals <- MCLiterals
  Patterns <- MCPatterns
  MaxSubs = 3
  BlankUpdates = FALSE
INVARIANTS EntriesFollowTheRows StagedKeysHaveWork NoTwoRowsAlike SearchesAreExact
CHECK_DEADLOCK FALSE
