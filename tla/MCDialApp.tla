-------------------------------- MODULE MCDialApp --------------------------------
(* DialApp for TLC: everything is a small number or a BOOLEAN of the .cfg. *)
EXTENDS DialAppProps
================================================================================
