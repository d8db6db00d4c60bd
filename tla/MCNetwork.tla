------------------------------- MODULE MCNetwork -------------------------------
(* Network for TLC: its constants are the bounds the .cfg files set. *)
EXTENDS Network
================================================================================
