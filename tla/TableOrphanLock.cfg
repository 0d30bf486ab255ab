SPECIFICATION Spec
CONSTANTS
  Subs = {s1, s2, s3}
  NoSub = NoSub
  Values = {v1, v2}
  NoVal = NoVal
  MaxRowid = 2
  MaxSelect = 2
  SelectLocks = {"READLOCK", "WRITELOCK"}
CHECK_DEADLOCK FALSE
INVARIANT LocksHaveAnOwner
