--------------------------------- MODULE MCOta ---------------------------------
(* Ota for TLC: the images are model values of the .cfg.                   *)
EXTENDS Ota
================================================================================
