--------------------------- MODULE MCExamControl ---------------------------
(* One board and its agent against a server that restarts.                   *)
EXTENDS ExamControl

=============================================================================
