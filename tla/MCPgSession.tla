---------------------------- MODULE MCPgSession ----------------------------
(* Instances of PgSession for the runs.                                      *)
EXTENDS PgSession

MCQueries == {"BEGIN", "COMMIT", "ROLLBACK", "CHANGE", "SYNTAX", "UNKNOWN"}
=============================================================================
