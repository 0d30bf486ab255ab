SPECIFICATION Spec
CONSTANTS
  Subs = {s1, s2, s3}
  NoSub = NoSub
  Values = {v1, v2}
  NoVal = NoVal
  MaxRowid = 2
  MaxSelect = 2
  SelectLocks = {"NOLOCK", "READLOCK", "WRITELOCK"}
SYMMETRY Symmetry
CHECK_DEADLOCK FALSE
INVARIANTS TypeOK LockDiscipline ChangesHaveAnOwner
PROPERTY ImplementsLockedStore
