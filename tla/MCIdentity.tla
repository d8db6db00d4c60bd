------------------------------- MODULE MCIdentity -------------------------------
(* Identity for TLC: its constants are the bounds the .cfg files set. *)
EXTENDS Identity
================================================================================
