------------------------------ MODULE DialAppProps ------------------------------
(* What the app task promises: invariants, action and liveness properties. *)
EXTENDS DialApp

\* DialController and GroheClient each remember whether a user's command is in
\* flight, and never disagree: a controller that forgot would let a second press
\* through, one that remembered too long would ignore every press
\* (command_pending_ against pending_command_).
PendingAgree ==
  command_pending <=> pending_command \in {"Dispense", "Stop"}

\* The pour timer runs exactly while the dial shows a pour: whatever ends the
\* one (timer, stop, lost connection) ends the other (DispenseSession against
\* dispense_status).
SessionShown ==
  session <=> dispense_status \in {"Dispensing", "Stopping"}

\* A dispense is answered while the dial still shows Idle, however the timers
\* and a lost connection interleave with the answer; HandleCommandOutcome calls
\* this guaranteed and would otherwise drop the failure.
DispenseFromIdle ==
  pending_command = "Dispense" => dispense_status = "Idle"

\* The dial shows a delivered volume only for a pour it shows: every way back
\* to Idle clears it (dial_state.hpp, delivered_ml).
NothingDeliveredWhenIdle ==
  dispense_status \in {"Idle", "Failed"} => ~delivered

\* The dial claims Ready exactly when both conditions for sending a command
\* hold for the current connection.
ReadyIsHonest ==
  connection_status = "Ready" <=> ready /\ subscribed

\* "There is no reachable combination" in which a pour is shown while the link is
\* not ready (ui_manager.cpp, Render's ladder of hints): the two are changed by
\* different handlers, a lost connection must end both, and a command that is
\* still to be answered must have gone with its connection.
PourNeedsLink ==
  dispense_status \in {"Dispensing", "Stopping"} =>
    connection_status = "Ready" /\ time_valid

\* The answer that resolves a user's command is the answer to that command and
\* came over the connection it was sent on, never one left over from an earlier
\* connection or from an identity probe (TakeCommandOutcome).
OutcomeAnswersCommand ==
  step = "outcome" /\ OutcomeAvailable =>
    /\ response.to.kind = pending_command /\ pending_command # "Probe"
    /\ response.on = found
    /\ pending_command = "Dispense" => response.to.amount = pending_amount

\* The amount the dial counts up to is the amount of the pour the appliance
\* acknowledged, though the encoder and the API may have changed the dialled
\* amount since it was sent (pending_dispense_amount_ml_).
PourShowsItsAmount ==
  [][session' /\ ~session =>
       active_amount' = response.to.amount /\ response.to.kind = "Dispense"]_vars

\* The verdict on a probe is drawn from the answer to that probe, given by the
\* appliance about to be pinned or rejected (ProcessIdentityProbeOutcome).
VerdictFromProbedPeer ==
  step = "verdict" /\ pending_command = "Probe" /\ response # None =>
    response.to.kind = "Probe" /\ response.on = found

\* Whatever is lost on the way, the dial does not stay in a pour, in
\* "Stopping...", or on a checkmark: it returns to Idle (Tick).
ReturnsToIdle == dispense_status # "Idle" ~> dispense_status = "Idle"

\* A command in flight is resolved once anything is heard of it: an answer in the
\* queue or the end of the connection, however the two race, makes the next press
\* heard again.  (An answer that is lost on a live link is waited for for ever:
\* there is no timeout.)
CommandResolved ==
  command_pending /\ (notifications # <<>> \/ ~linked) ~> ~command_pending
================================================================================
