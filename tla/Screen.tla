--------------------------------- MODULE Screen ---------------------------------
(***************************************************************************)
(* What the user sees: App::Run's rendering and display sleep and          *)
(* UiManager::Render, around the app task of DialApp.  DialState is read   *)
(* from DialApp's variables; the module adds what App::Run remembers of a  *)
(* pass, the time status, and what UiManager and LVGL keep between two     *)
(* calls of Render.  LVGL runs on a task of its own: an animation may end  *)
(* between any two steps.                                                  *)
(***************************************************************************)
EXTENDS DialAppProps

VARIABLES
  time_status,       \* state_.time_status
  state_changed,     \* App::Run: a handler of this pass reported a change
  encoder_activity,  \* App::Run: the encoder was touched in this pass
  stale,             \* something Render shows has changed since it was called
  backlight_on,      \* the backlight, switched by App::Run only
  inactive,          \* kDisplaySleepTimeoutMs has passed since last_activity_us
  rendered,          \* what Render saw last: last_dispense_status_,
                     \* last_connection_status_, last_time_status_ and
                     \* last_ring_ready_
  ring,              \* the colour of the ring's indicator
  anims,             \* the animations LVGL is running
  at_boot,           \* history: the fields of rendered that have not changed since boot
  overtaken          \* history: a pulse has ended over a ring that was grey by then

uiVars == <<rendered, ring, anims, at_boot, overtaken>>
screenVars == <<time_status, state_changed, encoder_activity, stale, backlight_on,
                inactive, uiVars>>

TimeStatuses == {"Syncing", "Available", "Unavailable"}
Animations == {"pulse", "highlight", "sweep", "halo"}

\* The fields of DialState that some widget shows.
Shown == <<dispense_status, connection_status, time_status, amount_ml,
           active_amount, delivered>>

RingReady ==
  connection_status = "Ready" /\ time_status = "Available" /\ dispense_status # "Failed"

\* App::Run has rendered once before it enters its loop: the ring, created in
\* the accent colour, is grey by then, and UiManager's trackers start with the
\* very statuses the dial boots with, so that no animation is started.
ScreenInit ==
  /\ Init
  /\ time_status = "Syncing"
  /\ state_changed = FALSE /\ encoder_activity = FALSE /\ stale = FALSE
  /\ backlight_on = TRUE /\ inactive = FALSE
  /\ rendered = [dispense |-> "Idle", connection |-> "Connecting",
                 time |-> "Syncing", ready |-> FALSE]
  /\ ring = "desaturated" /\ anims = {}
  /\ at_boot = {"time", "connection"} /\ overtaken = FALSE

--------------------------------------------------------------------------------
(* What the handlers return: whether something on the screen changed.      *)

\* HandleConnectionLost, or HandleReadyForProtocol and HandleSubscribed.
PollReturns ==
  CASE Head(events).type = "ConnectionFailed" ->
         dispense_status # "Idle" \/ connection_status # "ConnectionLost"
    [] Head(events).type = "DeviceFound" -> FALSE
    [] OTHER -> connection_status' # connection_status

\* A stop's answer that comes too late changes nothing and is not reported.
OutcomeReturns ==
  OutcomeAvailable /\
    IF pending_command = "Dispense"
      THEN response.code = "success" \/ dispense_status = "Idle"
      ELSE dispense_status = "Stopping"

\* Seeded bug: only what becomes of a pour is reported.
TickReturnsOfPour ==
  CASE dispense_status = "Dispensing" -> PourOver \/ delivered' # delivered
    [] dispense_status = "Stopping" -> PourOver
    [] dispense_status \in {"Finished", "Failed"} -> status_over
    [] OTHER -> FALSE

TickReturns ==
  IF connection_status = "ConnectionLost" /\ lost_over THEN TRUE
  ELSE CASE dispense_status = "Dispensing" -> PourOver \/ delivered' # delivered
         [] dispense_status = "Stopping" -> PourOver
         [] dispense_status \in {"Finished", "Failed"} -> status_over
         [] OTHER -> FALSE

--------------------------------------------------------------------------------
(* The steps of a pass up to HandleCommandOutcome.                          *)

\* changed: a handler of this step returned true, or the loop set the flag.
Observe(changed) ==
  /\ state_changed' = (state_changed \/ changed)
  /\ UNCHANGED <<time_status, encoder_activity, backlight_on, inactive, uiVars>>
  /\ stale' = (stale \/ Shown' # Shown)

\* Every encoder event counts as a change, an ignored press too.
Encoder ==
  \/ /\ ShortPress \/ Rotate \/ (NoRequest /\ step = "encoder")
     /\ encoder_activity' = TRUE /\ state_changed' = TRUE
     /\ UNCHANGED <<time_status, backlight_on, inactive, uiVars>>
     /\ stale' = (Shown' # Shown)
  \/ NoRequest /\ step = "encoder" /\ Observe(FALSE)

Api ==
  \/ (ApiDispense \/ ApiStop) /\ Observe(TRUE)
  \/ NoRequest /\ step = "api" /\ Observe(FALSE)

PollClient ==
  \/ PollEvent /\ Observe(PollReturns)
  \/ PollNotification /\ Observe(TRUE)  \* HandleApplianceState
  \/ /\ EventsDrained \/ MaybeStartIdentityProbe
        \/ NotificationsDrained \/ ProcessIdentityProbeOutcome
     /\ Observe(FALSE)
  \/ HandleCommandOutcome /\ Observe(OutcomeReturns)

--------------------------------------------------------------------------------
(* UiManager::Render, given the DialState at the end of the pass.           *)

\* The pulse marks a pour that starts, not a stop that is taken back.
PourStarts == rendered.dispense = "Idle" /\ dispense_status' = "Dispensing"

\* The ring's colour is touched when its readiness changes, and by the pulse.
RingColour ==
  IF PourStarts THEN "highlight"
  ELSE IF RingReady' = rendered.ready THEN ring
  ELSE IF RingReady' THEN "accent" ELSE "desaturated"

\* Seeded bug: Stopping is left to the animation that is running.
AnimationsUntilPourEnds ==
  (IF PourStarts THEN {"pulse"} ELSE anims \cap {"pulse"})
  \cup (IF dispense_status' = "Dispensing" THEN {"highlight"}
        ELSE IF dispense_status' = "Stopping" THEN anims \cap {"highlight"} ELSE {})
  \cup (IF time_status' # "Syncing" THEN {}
        ELSE IF rendered.time # "Syncing" THEN {"sweep"} ELSE anims \cap {"sweep"})
  \cup (IF connection_status' # "Connecting" THEN {}
        ELSE IF rendered.connection # "Connecting" THEN {"halo"} ELSE anims \cap {"halo"})

\* An animation is started on the edge into its status and deleted with any
\* other status; the pulse ends by itself.
AnimationsRun ==
  (IF PourStarts THEN {"pulse"} ELSE anims \cap {"pulse"})
  \cup (IF dispense_status' # "Dispensing" THEN {}
        ELSE IF rendered.dispense # "Dispensing" THEN {"highlight"}
        ELSE anims \cap {"highlight"})
  \cup (IF time_status' # "Syncing" THEN {}
        ELSE IF rendered.time # "Syncing" THEN {"sweep"} ELSE anims \cap {"sweep"})
  \cup (IF connection_status' # "Connecting" THEN {}
        ELSE IF rendered.connection # "Connecting" THEN {"halo"} ELSE anims \cap {"halo"})

Render ==
  /\ ring' = RingColour
  /\ anims' = AnimationsRun
  /\ rendered' = [dispense |-> dispense_status', connection |-> connection_status',
                  time |-> time_status', ready |-> RingReady']
  /\ at_boot' = {field \in at_boot : rendered'[field] = rendered[field]}
  /\ overtaken' = (overtaken /\ RingReady' = rendered.ready)

--------------------------------------------------------------------------------
(* DialController::HandleTimeStatus, Tick, and the tail of the pass.        *)

\* Without a valid time the dial claims to be syncing for kTimeSyncTimeoutUs
\* after the link became ready, and not while there is no link.
NextTimeStatus ==
  IF time_valid THEN {"Available"}
  ELSE IF connection_status # "Ready" THEN {"Unavailable"}
  ELSE {"Syncing", "Unavailable"}

\* Seeded bug: a pour lights the display and is not counted as activity.
BacklightPourNotCounted ==
  LET awake == encoder_activity \/ dispense_status' \in {"Dispensing", "Stopping"}
  IN  IF awake THEN backlight_on' = TRUE /\ inactive' = (inactive /\ ~encoder_activity)
               ELSE backlight_on' = (backlight_on /\ ~inactive) /\ UNCHANGED inactive

\* The display sleeps after a minute without activity; a pour is activity.
Backlight ==
  LET awake == encoder_activity \/ dispense_status' \in {"Dispensing", "Stopping"}
  IN  IF awake THEN backlight_on' = TRUE /\ inactive' = FALSE
               ELSE backlight_on' = (backlight_on /\ ~inactive) /\ UNCHANGED inactive

EndOfPass ==
  /\ Tick
  /\ time_status' \in NextTimeStatus
  /\ IF state_changed \/ time_status' # time_status \/ TickReturns
       THEN Render /\ stale' = FALSE
       ELSE UNCHANGED uiVars /\ stale' = (stale \/ Shown' # Shown)
  /\ Backlight
  /\ encoder_activity' = FALSE /\ state_changed' = FALSE

\* A minute has passed since last_activity_us, as the end of the pass will find.
\* While a pour is shown every pass sets it anew, and the checkmark's
\* kFinishedHoldUs is less than half a second.
MinuteElapses ==
  /\ ~inactive /\ inactive' = TRUE
  /\ step = "tick" /\ dispense_status \in {"Idle", "Failed"}
  /\ UNCHANGED <<vars, time_status, state_changed, encoder_activity, stale,
                 backlight_on, uiVars>>

--------------------------------------------------------------------------------
(* The LVGL task, and what happens around the app task.                     *)

\* The pulse's last callback reverts to the accent colour, whatever Render has
\* put there in the meantime.
PulseEnds ==
  /\ "pulse" \in anims
  /\ anims' = anims \ {"pulse"}
  /\ ring' = "accent" /\ overtaken' = ~rendered.ready
  /\ UNCHANGED <<vars, time_status, state_changed, encoder_activity, stale,
                 backlight_on, inactive, rendered, at_boot>>

\* Between an outcome and the Tick of the same pass there is no time for a pour,
\* which takes seconds.
AroundApp ==
  /\ Environment
  /\ step = "tick" => status_over' = status_over
  /\ UNCHANGED screenVars

ScreenNext ==
  \/ Encoder \/ Api \/ PollClient \/ EndOfPass
  \/ MinuteElapses \/ PulseEnds
  \/ AroundApp

ScreenSpec == ScreenInit /\ [][ScreenNext]_<<vars, screenVars>>

--------------------------------------------------------------------------------
\* Between two passes the screen shows the DialState as it is: nothing that some
\* widget shows changes without App::Run hearing of it from the handler that
\* changed it (the return values of DialController's handlers).
ScreenIsCurrent == step = "encoder" => ~stale

\* A pour is seen on a lit display from its first picture to its checkmark, one
\* started through the API behind a sleeping display too: the checkmark is no
\* activity itself and must live on the minute the pour's own passes have left
\* (last_activity_us).
PourIsLit ==
  rendered.dispense \in {"Dispensing", "Stopping", "Finished"} => backlight_on

\* What Render starts and stops on the edges between the statuses it remembers
\* fits the statuses themselves.  The highlight travels exactly while pouring;
\* sweep and halo run exactly while syncing and connecting, except for a status
\* the dial has shown since boot.  A ready ring has the accent colour, or the
\* pulse's own while that lasts; one that is not ready is grey, except after a
\* pulse that ended too late, and then only until the ring is ready again.
WidgetsFit ==
  step = "encoder" =>
    /\ "highlight" \in anims <=> dispense_status = "Dispensing"
    /\ "sweep" \in anims <=> time_status = "Syncing" /\ "time" \notin at_boot
    /\ "halo" \in anims <=> connection_status = "Connecting" /\ "connection" \notin at_boot
    /\ RingReady => ring = "accent" \/ (ring = "highlight" /\ "pulse" \in anims)
    /\ ~RingReady => ring = "desaturated" \/ overtaken
================================================================================
