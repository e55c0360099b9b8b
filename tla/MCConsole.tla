------------------------------ MODULE MCConsole ------------------------------
(* The console with a screen of three lines of two tab stops. *)
EXTENDS Console
=============================================================================
