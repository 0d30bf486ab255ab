SPECIFICATION Spec
CONSTANTS
  Subs = {s1, s2, s3}
  NoSub = NoSub
  Values = {v1, v2}
  NoVal = NoVal
  MaxRowid = 2
  MaxSelect = 1
  SelectLocks = {"NOLOCK", "READLOCK", "WRITELOCK"}
CHECK_DEADLOCK FALSE
INVARIANT CommittedRowsExist
