SPECIFICATION Spec
CONSTANTS
  a1 = a1
  a2 = a2
  c1 = c1
  c2 = c2
  Agents = {a1, a2}
  Engines = {e1}
  Loader = a1
  Clients = {c1, c2}
  AgentOf <- MCAgentOf
  TableNames = {t}
  Columns = {x, y}
  Procedures = {p}
  Commands <- MCCommands
  Disciplined = TRUE
  MaxOps = 4
INVARIANTS CopiesFollowTheManager AnswersAreTrue NamesResolve
PROPERTIES CommandsAreAnswered
CHECK_DEADLOCK FALSE
