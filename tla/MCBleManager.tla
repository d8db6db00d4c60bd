---------------------------- MODULE MCBleManager ----------------------------
(* Instances of BleManager for TLC.                                         *)
EXTENDS BleManagerProps, TLC

\* Every fault but "dscs": a refused descriptor search leaves the machine in a
\* state its comments rule out, which has a run of its own.
LifecycleFaults == (Calls \cup Mishaps) \ {"dscs"}

\* Liveness excludes "cancel" too, a scan that cannot be stopped and blocks every
\* later connect; and the rejection of a peer excludes "reattempt", by which
\* the controller may bring the rejected link back.
SettledFaults == LifecycleFaults \ {"cancel", "reattempt"}

\* Handles are interchangeable; not used where liveness is checked.
HandleSymmetry == Permutations(Handles)
=============================================================================
