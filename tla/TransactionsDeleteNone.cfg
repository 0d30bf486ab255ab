SPECIFICATION FairSpec
CONSTANTS
  Txns = {t1, t2}
  Engines = {0, 1}
  EngineOf <- MCEngineOf
  Vals = {0, 1, 2}
  Fields = {0, 1}
  UniqueFields = {0}
  NonuniqueFields = {1}
  Values <- MCValues
  NoVal = NoVal
  Rowids = {1, 2, 3}
  Subs = {1, 2, 3, 4}
  NoSub = 0
  Loaded <- MCOneRow
  Statements <- MCDeleteNone
  MaxStmts = 1
  HangUps = {}
CHECK_DEADLOCK FALSE
PROPERTY EveryCommandEnds
