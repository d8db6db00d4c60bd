-------------------------------- MODULE MCScreen --------------------------------
(* Screen for TLC: everything is a small number or a BOOLEAN of the .cfg.  *)
EXTENDS Screen
================================================================================
