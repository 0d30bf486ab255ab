SPECIFICATION Spec
CONSTANTS
  Txns = {t1, t2, t3}
  Engines = {0, 1}
  EngineOf <- MCEngineOf
  Vals = {0, 1, 2}
  Fields = {0, 1}
  UniqueFields = {0}
  NonuniqueFields = {1}
  Values <- MCValues
  NoVal = NoVal
  Rowids = {1, 2, 3, 4}
  Subs = {1, 2, 3, 4, 5, 6}
  NoSub = 0
  Loaded <- MCOneRow
  Statements <- MCByKey
  MaxStmts = 1
  HangUps = {}
SYMMETRY Symmetry
CHECK_DEADLOCK FALSE
INVARIANTS NothingLeftBehind SingleSubTransaction IndexesMatchRows
PROPERTY ImplementsAtomicStore
