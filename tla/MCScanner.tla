------------------------------- MODULE MCScanner -------------------------------
(***************************************************************************)
(* Every file of up to MaxLen characters, with a buffer they can fill.     *)
(***************************************************************************)
EXTENDS Scanner

================================================================================
