--------------------------- MODULE MCReplication ---------------------------
(***************************************************************************)
(* Replication of a table with field 0 placing the rows.                   *)
(***************************************************************************)
EXTENDS Replication

MCPartitionOf == [v \in Vals \cup {NULL} |-> IF v = NULL THEN 0 ELSE v % Cardinality(Partitions)]
Row(a, b) == (0 :> a) @@ (1 :> b)

\* Rows whose values are in one partition, in two, and one with a null.
MCNewRows == {Row(0, 0), Row(1, 0), Row(2, NULL)}

MCBoth    == (0 :> "UNIQUE") @@ (1 :> "NONUNIQUE")
=============================================================================
