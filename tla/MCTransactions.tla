--------------------------- MODULE MCTransactions ---------------------------
(***************************************************************************)
(* Transactions on small instances: the tables, the rows they start with   *)
(* and the statements clients send.                                        *)
(***************************************************************************)
EXTENDS Transactions

MCValues   == [Fields -> Vals]
MCEngineOf == [v \in Vals |-> v % Cardinality(Engines)]

Row(a, b) == (0 :> a) @@ (1 :> b)

\* One row, in Engine 1.
MCOneRow == <<1, 1>> :> Row(1, 0)

MCEmpty == Nothing

InsertOf(rows)    == {[cmd |-> "INSERT", row |-> r] : r \in rows}
Equal(cmd, n, v)  == [cmd |-> cmd, where |-> "EQUAL", field |-> n, val |-> v]
UpdateEqual(n, v, set) == Equal("UPDATE", n, v) @@ [set |-> set]

\* Statements that name the row by its primary key.
MCByKey == InsertOf({Row(0, 0), Row(2, 0)})
           \cup {Equal("SELECT", 0, 1), Equal("DELETE", 0, 1),
                 UpdateEqual(0, 1, 1 :> 1), UpdateEqual(0, 1, 0 :> 2)}

\* The row's entry in the nonunique index moves within Engine 0.
MCMoveEntry == {Equal("DELETE", 0, 1), UpdateEqual(0, 1, 1 :> 2)}

\* Statements of a transaction block that only inserts, reads and deletes.
MCBlock == InsertOf({Row(2, 0)})
           \cup {Equal("SELECT", 0, 1), Equal("SELECT", 1, 0), Equal("DELETE", 0, 1),
                 [cmd |-> "SELECT", where |-> "ALL"]}

\* Statements that find their rows in another Engine than they lock them in.
MCByIndex == {Equal("SELECT", 1, 0), UpdateEqual(1, 0, 1 :> 1),
              [cmd |-> "UPDATE", where |-> "ALL", set |-> 1 :> 1]}

\* Statements that never come out empty-handed without ending.
MCNoDelete == (MCByKey \ {Equal("DELETE", 0, 1)}) \cup MCByIndex

\* Three fields, the last two in the Engine that does not have the row.
MCWideRow == InsertOf({Row(0, 1) @@ (2 :> 1)})

\* The key 1 is taken; 2 in the second field is free, in the other Engine.
MCTakenKey == InsertOf({Row(1, 2)})

MCUpdateTwice == {UpdateEqual(0, 1, 1 :> 1), UpdateEqual(0, 1, 1 :> 2)}

MCDeleteNone == {Equal("DELETE", 0, 1), Equal("DELETE", 0, 2)}

MCSelectUpdate == {Equal("SELECT", 0, 1), UpdateEqual(0, 1, 1 :> 1)}

Symmetry == Permutations(Txns)
=============================================================================
