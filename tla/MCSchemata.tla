----------------------------- MODULE MCSchemata -----------------------------
(* Schemata with two agents, an Engine and a client at each agent.         *)
EXTENDS Schemata, TLC

CONSTANTS a1, a2, c1, c2

MCAgentOf == (c1 :> a1) @@ (c2 :> a2)

\* c1 makes a table and uses it, c2 does the rest.
MCCommands ==
  (c1 :> {"createschema", "createtable", "addcolumn", "compile"}) @@
  (c2 :> {"createtable", "deletetable", "loadprocedure", "pglogin"})

\* Both add columns.
MCBothAdd ==
  (c1 :> {"createschema", "createtable", "addcolumn"}) @@ (c2 :> {"addcolumn"})

\* c2 compiles what c1 has made.
MCOtherCompiles ==
  (c1 :> {"createschema", "createtable", "addcolumn"}) @@ (c2 :> {"compile"})

\* c2 is a PostgreSQL client that is there before the schema.
MCLoginFirst == (c1 :> {"createschema"}) @@ (c2 :> {"pglogin"})

\* c2 makes a table when there is no schema.
MCNoSchema == (c1 :> {"createschema"}) @@ (c2 :> {"createtable"})

\* c2 loads a procedure before the schema is there.
MCLoadFirst == (c1 :> {"createschema"}) @@ (c2 :> {"loadprocedure"})
=============================================================================
