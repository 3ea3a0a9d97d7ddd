------------------------------ MODULE MCPgStore ------------------------------
(* Small instances of PgStore.                                             *)
EXTENDS PgStore
CONSTANTS c1, c2, p1, p2
=============================================================================
