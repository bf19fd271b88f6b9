------------------------------- MODULE MCAuth -------------------------------
(* Two browsers and short windows, in the order of the real ones:            *)
(* GLOBAL_WINDOW < WINDOW < SESSION_TTL.                                     *)
EXTENDS Auth

=============================================================================
