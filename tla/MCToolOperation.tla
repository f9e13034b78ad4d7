-------------------------- MODULE MCToolOperation --------------------------
(* Small instances of ToolOperation for TLC. *)
EXTENDS ToolOperation, TLC
=============================================================================
