-------------------------------- MODULE DialApp --------------------------------
(***************************************************************************)
(* The app task: App::Run's loop, the DialController whose handlers it     *)
(* calls and the GroheClient it polls.  One pass of the loop is the        *)
(* sequence of steps named by `step'; other tasks run between any two of   *)
(* them.  The BLE host task and the appliance are external: they appear    *)
(* as what GroheClient can see of them, BleManager's two queues and the    *)
(* fate of a written command.                                              *)
(***************************************************************************)
EXTENDS Integers, Sequences, FiniteSets

CONSTANTS
  None,                  \* no response yet
  MinAmount, MaxAmount,  \* kMinAmountMl, kMaxAmountMl
  AmountStep,            \* amount_step_ml_
  EventDepth,            \* kEventQueueDepth: 8 in the code
  CharDepth,             \* kCharacteristicQueueDepth: 16 in the code
  Stalls,                \* whether the app task may sleep through a reconnection
  Losses,                \* whether a command or its answer may get lost on a live link
  Provisions,            \* whether new credentials may be stored at run time
  StoreFails             \* whether writing the pin to flash may fail

Amounts == MinAmount .. MaxAmount
Steps == {"encoder", "api", "events", "probe", "notifications", "verdict",
          "outcome", "tick"}
Statuses == {"Idle", "Dispensing", "Stopping", "Finished", "Failed"}
Kinds == {"Dispense", "Stop", "Probe"}
Commands == [kind : Kinds, amount : Amounts \cup {0}]
Codes == {"success", "invalidHmac", "other"}
Links == {0, 1}
Responses == [to : Commands, code : Codes, on : Links]
Lifecycle == {"DeviceFound", "ReadyForProtocol", "Subscribed", "ConnectionFailed"}

ASSUME DialAssumption ==
  /\ MinAmount \in Nat \ {0} /\ MaxAmount \in Nat /\ MinAmount <= MaxAmount
  /\ AmountStep \in Nat \ {0}
  /\ EventDepth \in Nat /\ CharDepth \in Nat
  /\ None \notin Responses
  /\ {Stalls, Losses, Provisions, StoreFails} \subseteq BOOLEAN

VARIABLES
  step,               \* where App::Run's loop stands
  \* DialController
  dispense_status,    \* state_.dispense_status
  connection_status,  \* state_.connection_status
  amount_ml,          \* state_.amount_ml
  active_amount,      \* state_.active_dispense_amount_ml
  delivered,          \* whether state_.delivered_ml > 0
  command_pending,    \* command_pending_
  pending_amount,     \* pending_dispense_amount_ml_
  session,            \* dispense_session_.active_
  status_over,        \* the status's deadline has passed: end_time_us_,
                      \* finished_until_us_ or failed_until_us_
  lost_over,          \* connection_lost_until_us_ has passed
  \* GroheClient
  ready,              \* ready_for_protocol_ (the controller's copy moves with it)
  subscribed,         \* subscribed_ (likewise)
  pending_command,    \* pending_command_
  response,           \* protocol_.State(), with the command it really answers;
                      \* None while its sequence is pending_command_'s baseline
  found,              \* last_found_address_: the link it was found for
  pinned,             \* GetPinnedApplianceAddress().has_value
  time_valid,         \* time_provider_.IsValid()
  \* External: the host task and the appliance
  linked,             \* a connection, or an attempt at one, is under way
  link,               \* which one: successive links alternate
  reported,           \* the events this link has already reported
  events,             \* event_queue_
  notifications,      \* the notifications in characteristic_queue_
  wire,               \* commands written and not yet seen by the appliance
  pouring             \* the amount the appliance is pouring, 0 for none

controllerVars == <<dispense_status, connection_status, amount_ml, active_amount,
                    delivered, command_pending, pending_amount, session,
                    status_over, lost_over>>
clientVars == <<ready, subscribed, pending_command, response, found, pinned>>
linkVars == <<linked, link, reported, events>>
applianceVars == <<notifications, pouring>>
vars == <<step, controllerVars, clientVars, time_valid, linkVars, applianceVars,
          wire>>

ControllerType ==
  /\ dispense_status \in Statuses
  /\ connection_status \in {"Connecting", "Ready", "ConnectionLost"}
  /\ amount_ml \in Amounts
  /\ active_amount \in Amounts \cup {0} /\ pending_amount \in Amounts \cup {0}
  /\ delivered \in BOOLEAN /\ command_pending \in BOOLEAN /\ session \in BOOLEAN
  /\ status_over \in BOOLEAN /\ lost_over \in BOOLEAN

ClientType ==
  /\ ready \in BOOLEAN /\ subscribed \in BOOLEAN
  /\ pending_command \in Kinds \cup {"None"}
  /\ response \in Responses \cup {None}
  /\ found \in Links
  /\ pinned \in BOOLEAN /\ time_valid \in BOOLEAN

LinkType ==
  /\ linked \in BOOLEAN /\ link \in Links
  /\ reported \subseteq {"ReadyForProtocol", "Subscribed"}
  /\ events \in Seq([type : Lifecycle, on : Links]) /\ Len(events) <= EventDepth
  /\ notifications \in Seq(Responses) /\ Len(notifications) <= CharDepth
  /\ wire \in Seq(Commands)
  /\ pouring \in Amounts \cup {0}

\* Every variable has its type and every queue respects its capacity.
TypeOK == step \in Steps /\ ControllerType /\ ClientType /\ LinkType

Init ==
  /\ step = "encoder"
  /\ dispense_status = "Idle" /\ connection_status = "Connecting"
  /\ amount_ml \in Amounts /\ active_amount = 0 /\ pending_amount = 0
  /\ delivered = FALSE /\ command_pending = FALSE /\ session = FALSE
  /\ status_over = FALSE /\ lost_over = FALSE
  /\ ready = FALSE /\ subscribed = FALSE
  /\ pending_command = "None" /\ response = None
  /\ found = 0 /\ pinned \in BOOLEAN /\ time_valid = FALSE
  /\ linked = FALSE /\ link = 0 /\ reported = {} /\ events = <<>>
  /\ notifications = <<>> /\ wire = <<>> /\ pouring = 0

--------------------------------------------------------------------------------
(* GroheClient::SendCommand                                                *)

\* Seeded bug: a command may overtake one that is still in flight.
MaySendWhilePending == ready /\ subscribed /\ time_valid

\* What SendCommand checks before it builds and queues a payload.
MaySend ==
  pending_command = "None" /\ ready /\ subscribed /\ time_valid

\* The command is queued.  Only answers that come after it can be its own:
\* SendCommand remembers the sequence number of the latest one.
Sent(kind, amount) ==
  /\ MaySend
  /\ pending_command' = kind
  /\ response' = None
  /\ wire' = Append(wire, [kind |-> kind, amount |-> amount])
  /\ UNCHANGED <<ready, subscribed, found, pinned>>

\* SendCommand returned false: a check failed, or the payload could not be
\* built or queued.  Nothing changed.
NotSent == UNCHANGED <<clientVars, wire>>

--------------------------------------------------------------------------------
(* The encoder and the API: DialController decides, App sends and reports  *)
(* back with HandleCommandSent.                                            *)

RequestDispense(amount) ==
  /\ ~command_pending /\ dispense_status = "Idle"
  /\ pending_amount' = amount
  /\ \/ Sent("Dispense", amount) /\ command_pending' = TRUE
     \/ NotSent /\ command_pending' = FALSE
  /\ UNCHANGED dispense_status

\* Stopping is shown at once and taken back if the stop was not sent.
RequestStop ==
  /\ ~command_pending /\ dispense_status = "Dispensing"
  /\ \/ Sent("Stop", 0) /\ command_pending' = TRUE /\ dispense_status' = "Stopping"
     \/ NotSent /\ command_pending' = FALSE /\ dispense_status' = "Dispensing"
  /\ UNCHANGED pending_amount

RequestFrame ==
  UNCHANGED <<connection_status, active_amount, delivered, session, status_over,
              lost_over, time_valid, linkVars, applianceVars>>

ShortPress ==
  /\ step = "encoder" /\ step' = "api"
  /\ RequestDispense(amount_ml) \/ RequestStop
  /\ UNCHANGED amount_ml /\ RequestFrame

Rotate ==
  /\ step = "encoder" /\ step' = "api"
  /\ amount_ml' \in
       { IF amount_ml + AmountStep <= MaxAmount THEN amount_ml + AmountStep ELSE MaxAmount,
         IF amount_ml - AmountStep >= MinAmount THEN amount_ml - AmountStep ELSE MinAmount }
  /\ UNCHANGED <<dispense_status, command_pending, pending_amount>>
  /\ NotSent /\ RequestFrame

\* The API's amount is shown on the dial even when the command is then refused.
ApiDispense ==
  /\ step = "api" /\ step' = "events"
  /\ \E amount \in Amounts : RequestDispense(amount) /\ amount_ml' = amount
  /\ RequestFrame

ApiStop ==
  /\ step = "api" /\ step' = "events"
  /\ RequestStop
  /\ UNCHANGED amount_ml /\ RequestFrame

\* No event, or one the controller ignores: a press while a command is in
\* flight or while the status is about to return by itself, a long press.
NoRequest ==
  /\ step \in {"encoder", "api"}
  /\ step' = IF step = "encoder" THEN "api" ELSE "events"
  /\ UNCHANGED <<controllerVars, clientVars, time_valid, linkVars, applianceVars, wire>>

--------------------------------------------------------------------------------
(* GroheClient::Poll, first half: the lifecycle queue                      *)

\* Seeded bug: the controller goes on waiting for the lost command.
HandleConnectionLostStillPending ==
  /\ UNCHANGED command_pending /\ session' = FALSE
  /\ ready' = FALSE /\ subscribed' = FALSE
  /\ dispense_status' = "Idle"
  /\ delivered' = IF dispense_status = "Idle" THEN delivered ELSE FALSE
  /\ connection_status' = "ConnectionLost"
  /\ status_over' = FALSE /\ lost_over' = FALSE
  /\ pending_command' = "None" /\ response' = None
  /\ UNCHANGED found

\* Seeded bug: a pour goes on being counted, as it does when a stop is not answered.
HandleConnectionLostPouring ==
  /\ command_pending' = FALSE /\ UNCHANGED session
  /\ ready' = FALSE /\ subscribed' = FALSE
  /\ UNCHANGED dispense_status
  /\ UNCHANGED delivered
  /\ connection_status' = "ConnectionLost"
  /\ UNCHANGED status_over /\ lost_over' = FALSE
  /\ pending_command' = "None" /\ response' = None
  /\ UNCHANGED found

\* DialController::HandleConnectionLost and GroheClient's own reset.
HandleConnectionLost ==
  /\ command_pending' = FALSE /\ session' = FALSE
  /\ ready' = FALSE /\ subscribed' = FALSE
  /\ dispense_status' = "Idle"
  /\ delivered' = IF dispense_status = "Idle" THEN delivered ELSE FALSE
  /\ connection_status' = "ConnectionLost"
  /\ status_over' = FALSE /\ lost_over' = FALSE
  /\ pending_command' = "None" /\ response' = None
  /\ UNCHANGED found

\* HandleReadyForProtocol or HandleSubscribed, then UpdateConnectionStatus.
HandleProgress(type) ==
  /\ ready' = (ready \/ type = "ReadyForProtocol")
  /\ subscribed' = (subscribed \/ type = "Subscribed")
  /\ connection_status' =
       IF ready' = ready /\ subscribed' = subscribed THEN connection_status
       ELSE IF ready' /\ subscribed' THEN "Ready" ELSE "Connecting"
  /\ lost_over' = (lost_over /\ connection_status' = connection_status)
  /\ UNCHANGED <<dispense_status, delivered, command_pending, session, status_over,
                 found, pending_command, response>>

HandleDeviceFound(on) ==
  /\ found' = on
  /\ UNCHANGED <<dispense_status, connection_status, delivered, command_pending,
                 session, status_over, lost_over, ready, subscribed,
                 pending_command, response>>

PollEvent ==
  /\ step = "events" /\ events # <<>>
  /\ LET event == Head(events) IN
       CASE event.type = "ConnectionFailed" -> HandleConnectionLost
         [] event.type = "DeviceFound" -> HandleDeviceFound(event.on)
         [] OTHER -> HandleProgress(event.type)
  /\ events' = Tail(events)
  /\ UNCHANGED <<step, amount_ml, active_amount, pending_amount, pinned, time_valid, linked, link, reported, applianceVars, wire>>

EventsDrained ==
  /\ step = "events" /\ events = <<>>
  /\ step' = "probe"
  /\ UNCHANGED <<controllerVars, clientVars, time_valid, linkVars, applianceVars, wire>>

--------------------------------------------------------------------------------
(* GroheClient::Poll, second half: the identity probe                      *)

\* The early returns of MaybeStartIdentityProbe.
ProbeWanted ==
  ready /\ subscribed /\ ~pinned /\ pending_command = "None"

\* A probe is a stop command no user asked for.  One that could not be sent
\* is tried again in the next pass.
MaybeStartIdentityProbe ==
  /\ step = "probe" /\ step' = "notifications"
  /\ \/ ProbeWanted /\ Sent("Probe", 0)
     \/ NotSent
  /\ UNCHANGED <<controllerVars, time_valid, linkVars, applianceVars>>

\* GroheProtocol::HandleNotification, for every notification in the queue.  With
\* no command in flight nobody looks at it.
PollNotification ==
  /\ step = "notifications" /\ notifications # <<>>
  /\ response' = IF pending_command = "None" THEN None ELSE Head(notifications)
  /\ notifications' = Tail(notifications)
  /\ UNCHANGED <<step, controllerVars, ready, subscribed, pending_command, found,
                 pinned, time_valid, linkVars, pouring, wire>>

NotificationsDrained ==
  /\ step = "notifications" /\ notifications = <<>>
  /\ step' = "verdict"
  /\ UNCHANGED <<controllerVars, clientVars, time_valid, linkVars, applianceVars, wire>>

\* The pin is stored in flash first, and is only in force once it is.
ProcessIdentityProbeOutcome ==
  /\ step = "verdict" /\ step' = "outcome"
  /\ IF pending_command = "Probe" /\ response # None
       THEN /\ pending_command' = "None" /\ response' = None
            /\ \/ response.code = "invalidHmac" /\ UNCHANGED pinned
               \/ response.code # "invalidHmac" /\ pinned' = TRUE
               \/ response.code # "invalidHmac" /\ StoreFails /\ UNCHANGED pinned
       ELSE UNCHANGED <<pending_command, response, pinned>>
  /\ UNCHANGED <<controllerVars, ready, subscribed, found, time_valid, linkVars,
                 applianceVars, wire>>

--------------------------------------------------------------------------------
(* TakeCommandOutcome and DialController::HandleCommandOutcome             *)

OutcomeAvailable == pending_command # "None" /\ response # None

\* Seeded bug: the pour is shown with whatever is dialled by now.
DispenseAcceptedAsDialled ==
  /\ dispense_status' = "Dispensing"
  /\ active_amount' = amount_ml
  /\ delivered' = FALSE
  /\ session' = TRUE /\ status_over' = FALSE

DispenseAccepted ==
  /\ dispense_status' = "Dispensing"
  /\ active_amount' = pending_amount
  /\ delivered' = FALSE
  /\ session' = TRUE /\ status_over' = FALSE

DispenseRejected ==
  /\ IF dispense_status = "Idle"
       THEN dispense_status' = "Failed" /\ status_over' = FALSE
       ELSE UNCHANGED <<dispense_status, status_over>>
  /\ UNCHANGED <<active_amount, delivered, session>>

\* Seeded bug: the stopped pour's timer keeps running.
StopAcceptedTimerRunning ==
  /\ IF dispense_status = "Stopping"
       THEN /\ dispense_status' = "Idle" /\ delivered' = FALSE
            /\ UNCHANGED <<session, status_over>>
       ELSE UNCHANGED <<dispense_status, delivered, session, status_over>>
  /\ UNCHANGED active_amount

\* An acknowledgement that comes after the status moved on is stale.
StopAccepted ==
  /\ IF dispense_status = "Stopping"
       THEN /\ dispense_status' = "Idle" /\ delivered' = FALSE
            /\ session' = FALSE /\ status_over' = FALSE
       ELSE UNCHANGED <<dispense_status, delivered, session, status_over>>
  /\ UNCHANGED active_amount

StopRejected ==
  /\ dispense_status' = IF dispense_status = "Stopping" THEN "Dispensing"
                        ELSE dispense_status
  /\ UNCHANGED <<active_amount, delivered, session, status_over>>

HandleCommandOutcome ==
  /\ step = "outcome" /\ step' = "tick"
  /\ IF OutcomeAvailable
       THEN /\ pending_command' = "None" /\ response' = None
            /\ command_pending' = FALSE
            /\ CASE pending_command = "Dispense" /\ response.code = "success" -> DispenseAccepted
                 [] pending_command = "Dispense" /\ response.code # "success" -> DispenseRejected
                 [] pending_command # "Dispense" /\ response.code = "success" -> StopAccepted
                 [] OTHER -> StopRejected
       ELSE UNCHANGED <<pending_command, response, command_pending, dispense_status,
                        active_amount, delivered, session, status_over>>
  /\ UNCHANGED <<connection_status, amount_ml, pending_amount, lost_over, ready,
                 subscribed, found, pinned, time_valid, linkVars,
                 applianceVars, wire>>

--------------------------------------------------------------------------------
(* DialController::Tick                                                    *)

\* Seeded bug: the timer is only looked at while Dispensing is shown.
PourOverUnlessStopping == session /\ status_over /\ dispense_status # "Stopping"

PourOver == session /\ status_over

\* Dispensing counts the delivered amount up; Stopping does not, but both end
\* when the predicted duration has elapsed.
TickSession ==
  IF PourOver
    THEN /\ session' = FALSE /\ dispense_status' = "Finished"
         /\ status_over' = FALSE /\ UNCHANGED delivered
    ELSE /\ delivered' \in {delivered, delivered \/ dispense_status = "Dispensing"}
         /\ UNCHANGED <<session, dispense_status, status_over>>

\* Finished and Failed are shown for a while and then return to Idle.
TickHold ==
  /\ IF status_over
       THEN /\ dispense_status' = "Idle" /\ status_over' = FALSE
            /\ delivered' = IF dispense_status = "Finished" THEN FALSE ELSE delivered
       ELSE UNCHANGED <<dispense_status, delivered, status_over>>
  /\ UNCHANGED session

\* A "Connection lost" that has been shown long enough takes the whole tick.
Tick ==
  /\ step = "tick" /\ step' = "encoder"
  /\ IF connection_status = "ConnectionLost" /\ lost_over
       THEN /\ connection_status' = "Connecting" /\ lost_over' = FALSE
            /\ UNCHANGED <<dispense_status, delivered, session, status_over>>
       ELSE /\ CASE dispense_status \in {"Dispensing", "Stopping"} -> TickSession
                 [] dispense_status \in {"Finished", "Failed"} -> TickHold
                 [] OTHER -> UNCHANGED <<dispense_status, delivered, session, status_over>>
            /\ UNCHANGED <<connection_status, lost_over>>
  /\ UNCHANGED <<amount_ml, active_amount, command_pending, pending_amount,
                 clientVars, time_valid, linkVars, applianceVars, wire>>

--------------------------------------------------------------------------------
(* The other tasks and the appliance                                       *)

ElapseFrame ==
  UNCHANGED <<step, dispense_status, connection_status, amount_ml, active_amount,
              delivered, command_pending, pending_amount, session, clientVars,
              time_valid, linkVars, applianceVars, wire>>

\* The predicted end of the pour, or of the time its result is shown, is reached.
StatusElapses ==
  /\ dispense_status # "Idle" /\ ~status_over
  /\ status_over' = TRUE
  /\ UNCHANGED lost_over /\ ElapseFrame

LostElapses ==
  /\ connection_status = "ConnectionLost" /\ ~lost_over
  /\ lost_over' = TRUE
  /\ UNCHANGED status_over /\ ElapseFrame

\* SNTP sets the clock; it stays set.
TimeSynced ==
  /\ ~time_valid /\ time_valid' = TRUE
  /\ UNCHANGED <<step, controllerVars, clientVars, linkVars, applianceVars, wire>>

\* The HTTP task stores new credentials, which forgets the pin.
Provision ==
  /\ Provisions /\ pinned
  /\ pinned' = FALSE
  /\ UNCHANGED <<step, controllerVars, ready, subscribed, pending_command, response,
                 found, time_valid, linkVars, applianceVars, wire>>

EnvironmentFrame == UNCHANGED <<step, controllerVars, clientVars, time_valid>>

Report(type) ==
  events' = IF Len(events) < EventDepth
              THEN Append(events, [type |-> type, on |-> link']) ELSE events

\* What the previous link left in the queues has been polled.
Polled ==
  notifications = <<>> /\ \A i \in DOMAIN events : events[i].type # "ConnectionFailed"

\* BleManager found the appliance again.  That is a backoff of at least a second
\* after the previous failure, time for many passes of a loop that does not stall.
LinkFound ==
  /\ ~linked /\ linked' = TRUE
  /\ Stalls \/ Polled
  /\ link' = 1 - link /\ reported' = {} /\ wire' = <<>>
  /\ Report("DeviceFound")
  /\ EnvironmentFrame /\ UNCHANGED applianceVars

LinkProgress(type) ==
  /\ linked /\ type \notin reported
  /\ reported' = reported \cup {type}
  /\ UNCHANGED <<linked, link>>
  /\ Report(type)
  /\ EnvironmentFrame /\ UNCHANGED <<applianceVars, wire>>

LinkFailed ==
  /\ linked /\ linked' = FALSE
  /\ UNCHANGED <<link, reported>>
  /\ Report("ConnectionFailed")
  /\ EnvironmentFrame /\ UNCHANGED <<applianceVars, wire>>

\* The appliance obeys a command it can verify; a probe is a stop to it.
Obey(command) ==
  pouring' = IF command.kind = "Dispense" THEN command.amount ELSE 0

Answer(command, code) ==
  \/ Len(notifications) < CharDepth
     /\ notifications' = Append(notifications, [to |-> command, code |-> code, on |-> link])
  \/ (Losses \/ Len(notifications) >= CharDepth) /\ UNCHANGED notifications

Execute ==
  /\ linked /\ "Subscribed" \in reported /\ wire # <<>>
  /\ wire' = Tail(wire)
  /\ \E code \in Codes :
       /\ IF code = "success" THEN Obey(Head(wire)) ELSE UNCHANGED pouring
       /\ Answer(Head(wire), code)
  /\ EnvironmentFrame /\ UNCHANGED linkVars

\* A failed GATT write is logged and forgotten.
WriteLost ==
  /\ Losses /\ wire # <<>>
  /\ wire' = Tail(wire)
  /\ EnvironmentFrame /\ UNCHANGED <<linkVars, applianceVars>>

PourEnds ==
  /\ pouring # 0 /\ pouring' = 0
  /\ EnvironmentFrame /\ UNCHANGED <<linkVars, notifications, wire>>

--------------------------------------------------------------------------------
AppTask ==
  \/ NoRequest \/ ShortPress \/ Rotate \/ ApiDispense \/ ApiStop
  \/ PollEvent \/ EventsDrained \/ MaybeStartIdentityProbe
  \/ PollNotification \/ NotificationsDrained
  \/ ProcessIdentityProbeOutcome \/ HandleCommandOutcome \/ Tick

Link ==
  LinkFound \/ LinkFailed \/ \E type \in {"ReadyForProtocol", "Subscribed"} : LinkProgress(type)

Environment ==
  \/ StatusElapses \/ LostElapses
  \/ TimeSynced \/ Provision \/ Link
  \/ Execute \/ WriteLost \/ PourEnds

Next == AppTask \/ Environment

Spec == Init /\ [][Next]_vars

\* App::Run's loop never blocks, clocks advance and a linked appliance reads
\* what is written to it.
AppFairness ==
  /\ WF_vars(AppTask)
  /\ WF_vars(StatusElapses) /\ WF_vars(LostElapses)
  /\ WF_vars(Execute)

FairSpec == Spec /\ AppFairness
================================================================================
