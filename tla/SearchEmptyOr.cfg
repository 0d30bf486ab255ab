SPECIFICATION Spec
CONSTANTS
  Subs = {s1, s2}
  NoSub = 0
  NoVal = NoVal
  Values <- MCValues
  Me = s1
  Other = s2
  Rows = {1, 2, 3}
  Home <- MCHome
  NumEngines = 2
  EngineOf <- MCEngineOf
  Fields = {0, 1}
  NULL = NULL
  FieldType <- MCInt
  Unordered = {}
  KeyIsUnique = TRUE
  Contents <- MCContents
  Queries <- MCEmptyOr
INVARIANT ResultIsTheMatches
