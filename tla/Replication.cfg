SPECIFICATION FairSpec
CONSTANTS
  Txns = {t1, t2}
  NumReplicas = 2
  Partitions = {0, 1}
  Vals = {0, 1, 2}
  NULL = NULL
  PartitionOf <- MCPartitionOf
  IndexType <- MCBoth
  NewRows <- MCNewRows
  MaxChanges = 2
  Primitives = {"INSERT", "UPDATE", "DELETE"}
CHECK_DEADLOCK FALSE
INVARIANTS CommittedIsDispatched ReplicaHasTheInserts
PROPERTIES CommitsEnd
