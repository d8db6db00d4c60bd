------------------------------ MODULE MCApiServer ------------------------------
(* ApiServer for TLC: its constants are the bounds the .cfg file sets. *)
EXTENDS ApiServer
================================================================================
