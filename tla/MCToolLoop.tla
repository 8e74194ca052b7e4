----------------------------- MODULE MCToolLoop -----------------------------
(* A small instance of ToolLoop by itself, for one text job.               *)
EXTENDS ToolLoop, TLC
=============================================================================
