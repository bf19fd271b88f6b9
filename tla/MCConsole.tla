------------------------------ MODULE MCConsole ------------------------------
(* One board, one exam and a few changes of the server.                      *)
EXTENDS Console

==============================================================================
