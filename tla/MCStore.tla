------------------------------ MODULE MCStore ------------------------------
(* The saver with few changes.                                               *)
EXTENDS Store

=============================================================================
