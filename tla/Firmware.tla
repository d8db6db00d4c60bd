------------------------------- MODULE Firmware -------------------------------
(***************************************************************************)
(* What the over-the-air update promises: "a bad update can't brick the    *)
(* dial" (sdkconfig.defaults:171).  There is always one confirmed image,   *)
(* an installed one is on trial until it has started up once, and a trial  *)
(* that fails leaves the confirmed image as it was.  No slots, no flash,   *)
(* no HTTP: Ota is shown to implement it.                                  *)
(***************************************************************************)

CONSTANTS
  Healthy,  \* images that start up
  Broken,   \* images that are well-formed and never finish starting up
  None      \* no image

VARIABLES
  confirmed,  \* the image a dial that is switched on ends up with
  trial       \* the image it tries first, if any

vars == <<confirmed, trial>>

Init == confirmed \in Healthy /\ trial = None

\* An upload replaces the image of an earlier trial that failed.
Install ==
  /\ trial = None
  /\ trial' \in Healthy \cup Broken
  /\ UNCHANGED confirmed

\* The trial has started up.
Confirm ==
  /\ trial \in Healthy
  /\ confirmed' = trial
  /\ trial' = None

\* It has not, or power failed first.
Revert ==
  /\ trial' = None
  /\ UNCHANGED confirmed

Next == Install \/ Confirm \/ Revert

Spec == Init /\ [][Next]_vars
===============================================================================
