SPECIFICATION Spec
CONSTANTS
  Queries <- MCQueries
  MaxQueries = 4
  UsesSsl = TRUE
  Pipelines = FALSE
  HangsUp = TRUE
  BlockStates = {"BEGIN"}
INVARIANTS OneAnswerEach ReadyTellsTheTruth
PROPERTIES AbortedBlocksRest QueriesAreAnswered ClosedSessionsRollBack
CHECK_DEADLOCK FALSE
