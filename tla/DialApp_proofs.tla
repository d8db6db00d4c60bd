----------------------------- MODULE DialApp_proofs -----------------------------
(***************************************************************************)
(* What holds of the app task and of the screen around it for any range of *)
(* amounts and any depth of the queues: the types, that the dial, its pour *)
(* timer and the client agree, that what resolves a command is its answer, *)
(* and that the screen shows the state as it is.                           *)
(***************************************************************************)
EXTENDS Screen, SequenceTheorems, TLAPS

--------------------------------------------------------------------------------
(* Types                                                                   *)

\* The front of a queue that is not empty, and what is left behind it.
LEMMA FrontAndRest ==
  ASSUME NEW S, NEW queue \in Seq(S), queue # <<>>
  PROVE  Head(queue) \in S /\ Tail(queue) \in Seq(S) /\ Len(Tail(queue)) = Len(queue) - 1
  BY HeadTailProperties

\* Amounts are positive integers, and one lies between the bounds.
LEMMA AmountsAreInt == Amounts \subseteq Int /\ MinAmount \in Amounts /\ MaxAmount \in Amounts
  BY DialAssumption DEF Amounts

\* What a step leaves alone keeps its type.
LEMMA ControllerUntouched ==
  ASSUME ControllerType, UNCHANGED controllerVars PROVE ControllerType'
  BY DEF ControllerType, controllerVars

\* Likewise the client's variables.
LEMMA ClientUntouched ==
  ASSUME ClientType, UNCHANGED <<clientVars, time_valid>> PROVE ClientType'
  BY DEF ClientType, clientVars

\* Likewise the link, the appliance and the queues.
LEMMA LinkUntouched ==
  ASSUME LinkType, UNCHANGED <<linkVars, applianceVars, wire>> PROVE LinkType'
  BY DEF LinkType, linkVars, applianceVars

\* Sending a command, or not, keeps the client's and the wire's types.
LEMMA SendType ==
  ASSUME ClientType, wire \in Seq(Commands), NEW kind \in Kinds,
         NEW amount \in Amounts \cup {0},
         Sent(kind, amount) \/ NotSent, UNCHANGED time_valid
  PROVE  ClientType' /\ wire' \in Seq(Commands)
<1>1. [kind |-> kind, amount |-> amount] \in Commands
  BY DEF Commands
<1>2. CASE Sent(kind, amount)
  BY <1>1, <1>2 DEF Sent, ClientType
<1>3. CASE NotSent
  BY <1>3 DEF NotSent, clientVars, ClientType
<1> QED BY <1>2, <1>3

\* A dispense request keeps the types.
LEMMA DispenseRequestType ==
  ASSUME TypeOK, NEW amount \in Amounts, RequestDispense(amount), UNCHANGED time_valid
  PROVE  /\ ClientType' /\ wire' \in Seq(Commands)
         /\ command_pending' \in BOOLEAN /\ dispense_status' \in Statuses
         /\ pending_amount' \in Amounts \cup {0}
<1>1. Sent("Dispense", amount) \/ NotSent
  BY DEF RequestDispense
<1>2. ClientType' /\ wire' \in Seq(Commands)
  BY <1>1, SendType DEF TypeOK, LinkType, Kinds
<1> QED BY <1>2 DEF RequestDispense, TypeOK, ControllerType

\* A stop request keeps the types.
LEMMA StopRequestType ==
  ASSUME TypeOK, RequestStop, UNCHANGED time_valid
  PROVE  /\ ClientType' /\ wire' \in Seq(Commands)
         /\ command_pending' \in BOOLEAN /\ dispense_status' \in Statuses
         /\ pending_amount' \in Amounts \cup {0}
<1>1. Sent("Stop", 0) \/ NotSent
  BY DEF RequestStop
<1>2. ClientType' /\ wire' \in Seq(Commands)
  BY <1>1, SendType DEF TypeOK, LinkType, Kinds
<1> QED BY <1>2 DEF RequestStop, TypeOK, ControllerType, Statuses

\* The encoder and the API keep the types.
LEMMA RequestStep ==
  ASSUME TypeOK, ShortPress \/ Rotate \/ ApiDispense \/ ApiStop \/ NoRequest
  PROVE  TypeOK'
<1> USE DEF TypeOK
<1>1. CASE ShortPress
  <2>1. amount_ml \in Amounts /\ UNCHANGED time_valid
    BY <1>1 DEF ControllerType, ShortPress, RequestFrame
  <2>2. /\ ClientType' /\ wire' \in Seq(Commands)
        /\ command_pending' \in BOOLEAN /\ dispense_status' \in Statuses
        /\ pending_amount' \in Amounts \cup {0}
    BY <1>1, <2>1, DispenseRequestType, StopRequestType DEF ShortPress
  <2> QED BY <1>1, <2>2 DEF ShortPress, RequestFrame, ControllerType, LinkType,
                            linkVars, applianceVars, Steps
<1>2. CASE Rotate
  <2>1. ClientType' /\ wire' = wire
    BY <1>2 DEF Rotate, NotSent, RequestFrame, ClientType, clientVars
  <2>2. amount_ml' \in Amounts
    BY <1>2, DialAssumption DEF Rotate, Amounts, ControllerType
  <2> QED BY <1>2, <2>1, <2>2 DEF Rotate, RequestFrame, ControllerType, LinkType,
                                  linkVars, applianceVars, Steps
<1>3. CASE ApiDispense
  <2>1. PICK amount \in Amounts : RequestDispense(amount) /\ amount_ml' = amount
    BY <1>3 DEF ApiDispense
  <2>2. UNCHANGED time_valid
    BY <1>3 DEF ApiDispense, RequestFrame
  <2>3. /\ ClientType' /\ wire' \in Seq(Commands)
        /\ command_pending' \in BOOLEAN /\ dispense_status' \in Statuses
        /\ pending_amount' \in Amounts \cup {0}
    BY <2>1, <2>2, DispenseRequestType
  <2> QED BY <1>3, <2>1, <2>3 DEF ApiDispense, RequestFrame, ControllerType,
                                  LinkType, linkVars, applianceVars, Steps
<1>4. CASE ApiStop
  <2>1. UNCHANGED time_valid
    BY <1>4 DEF ApiStop, RequestFrame
  <2>2. /\ ClientType' /\ wire' \in Seq(Commands)
        /\ command_pending' \in BOOLEAN /\ dispense_status' \in Statuses
        /\ pending_amount' \in Amounts \cup {0}
    BY <1>4, <2>1, StopRequestType DEF ApiStop
  <2> QED BY <1>4, <2>2 DEF ApiStop, RequestFrame, ControllerType, LinkType,
                            linkVars, applianceVars, Steps
<1>5. CASE NoRequest
  BY <1>5 DEF NoRequest, ControllerType, ClientType, LinkType, controllerVars,
              clientVars, linkVars, applianceVars, Steps
<1> QED BY <1>1, <1>2, <1>3, <1>4, <1>5

\* Taking a lifecycle event keeps the types.
LEMMA PollEventType == ASSUME TypeOK, PollEvent PROVE TypeOK'
<1> USE DEF TypeOK
<1>1. /\ Head(events) \in [type : Lifecycle, on : Links]
      /\ Tail(events) \in Seq([type : Lifecycle, on : Links])
      /\ Len(Tail(events)) = Len(events) - 1
  BY FrontAndRest DEF PollEvent, LinkType
<1>2. LinkType'
  <2>1. Len(events) \in Nat /\ Len(events) <= EventDepth
    BY DEF LinkType
  <2>2. events' = Tail(events) /\ Len(events') <= EventDepth
    BY <1>1, <2>1, DialAssumption DEF PollEvent
  <2> QED BY <1>1, <2>2 DEF PollEvent, LinkType, applianceVars
<1>3. ControllerType' /\ ClientType'
  <2>1. CASE HandleConnectionLost
    BY <2>1 DEF PollEvent, HandleConnectionLost, ControllerType, ClientType, Statuses
  <2>2. CASE HandleDeviceFound(Head(events).on)
    BY <1>1, <2>2 DEF PollEvent, HandleDeviceFound, ControllerType, ClientType
  <2>3. CASE HandleProgress(Head(events).type)
    BY <2>3 DEF PollEvent, HandleProgress, ControllerType, ClientType
  <2> QED BY <2>1, <2>2, <2>3 DEF PollEvent
<1>4. step' \in Steps
  BY DEF PollEvent
<1> QED BY <1>2, <1>3, <1>4

\* The rest of Poll keeps the types.
LEMMA PollStep ==
  ASSUME TypeOK,
         EventsDrained \/ MaybeStartIdentityProbe \/ PollNotification
           \/ NotificationsDrained \/ ProcessIdentityProbeOutcome
  PROVE  TypeOK'
<1> USE DEF TypeOK
<1>1. CASE EventsDrained \/ NotificationsDrained
  <2>1. UNCHANGED <<controllerVars, clientVars, time_valid, linkVars, applianceVars, wire>>
    BY <1>1 DEF EventsDrained, NotificationsDrained
  <2>2. step' \in Steps
    BY <1>1 DEF EventsDrained, NotificationsDrained, Steps
  <2> QED BY <2>1, <2>2, ControllerUntouched, ClientUntouched, LinkUntouched
<1>2. CASE MaybeStartIdentityProbe
  <2>1. (Sent("Probe", 0) \/ NotSent) /\ UNCHANGED time_valid
    BY <1>2 DEF MaybeStartIdentityProbe
  <2>2. ClientType' /\ wire' \in Seq(Commands)
    BY <2>1, SendType DEF LinkType, Kinds
  <2> QED BY <1>2, <2>2 DEF MaybeStartIdentityProbe, ControllerType, LinkType,
                            controllerVars, linkVars, applianceVars, Steps
<1>3. CASE PollNotification
  <2>1. /\ Head(notifications) \in Responses
        /\ Tail(notifications) \in Seq(Responses)
        /\ Len(Tail(notifications)) = Len(notifications) - 1
    BY <1>3, FrontAndRest DEF PollNotification, LinkType
  <2>2. Len(notifications) \in Nat /\ Len(notifications) <= CharDepth
    BY DEF LinkType
  <2>3. notifications' = Tail(notifications) /\ Len(notifications') <= CharDepth
    BY <1>3, <2>1, <2>2, DialAssumption DEF PollNotification
  <2> QED BY <1>3, <2>1, <2>3 DEF PollNotification, ControllerType, ClientType,
                                  LinkType, controllerVars, linkVars
<1>4. CASE ProcessIdentityProbeOutcome
  <2>1. UNCHANGED <<controllerVars, linkVars, applianceVars, wire>> /\ step' \in Steps
    BY <1>4 DEF ProcessIdentityProbeOutcome, Steps
  <2>2. ClientType'
    BY <1>4 DEF ProcessIdentityProbeOutcome, ClientType
  <2> QED BY <2>1, <2>2, ControllerUntouched, LinkUntouched
<1> QED BY <1>1, <1>2, <1>3, <1>4

\* Applying an outcome and the passing of time keep the types.
LEMMA OutcomeStep == ASSUME TypeOK, HandleCommandOutcome \/ Tick PROVE TypeOK'
<1> USE DEF TypeOK
<1>1. CASE HandleCommandOutcome
  <2>1. LinkType' /\ step' \in Steps
    BY <1>1 DEF HandleCommandOutcome, LinkType, linkVars, applianceVars, Steps
  <2>2. ClientType'
    BY <1>1 DEF HandleCommandOutcome, ClientType
  <2>3. ControllerType'
    BY <1>1 DEF HandleCommandOutcome, ControllerType, DispenseAccepted,
                DispenseRejected, StopAccepted, StopRejected, Statuses
  <2> QED BY <2>1, <2>2, <2>3
<1>2. CASE Tick
  <2>1. LinkType' /\ ClientType' /\ step' \in Steps
    BY <1>2 DEF Tick, LinkType, ClientType, clientVars, linkVars, applianceVars, Steps
  <2>2. ControllerType'
    BY <1>2 DEF Tick, ControllerType, TickSession, TickHold, Statuses
  <2> QED BY <2>1, <2>2
<1> QED BY <1>1, <1>2

\* A report fits the queue or is dropped.
LEMMA ReportType ==
  ASSUME LinkType, NEW type \in Lifecycle, link' \in Links, Report(type)
  PROVE  events' \in Seq([type : Lifecycle, on : Links]) /\ Len(events') <= EventDepth
<1> DEFINE event == [type |-> type, on |-> link']
<1>1. event \in [type : Lifecycle, on : Links]
  OBVIOUS
<1>2. events \in Seq([type : Lifecycle, on : Links]) /\ Len(events) <= EventDepth
  BY DEF LinkType
<1>3. CASE Len(events) < EventDepth
  <2>1. events' = Append(events, event)
    BY <1>3 DEF Report
  <2>2. events' \in Seq([type : Lifecycle, on : Links]) /\ Len(events') = Len(events) + 1
    BY <1>1, <1>2, <2>1, AppendProperties
  <2>3. Len(events) \in Nat
    BY <1>2
  <2> QED BY <1>3, <2>2, <2>3, DialAssumption
<1>4. CASE ~(Len(events) < EventDepth)
  BY <1>2, <1>4 DEF Report
<1> QED BY <1>3, <1>4

\* The host task and the appliance keep the types.
LEMMA LinkTypeStep ==
  ASSUME TypeOK, Link \/ Execute \/ WriteLost \/ PourEnds
  PROVE  LinkType'
<1> USE DEF TypeOK
<1>1. CASE LinkFound
  <2>1. link' \in Links /\ reported' = {} /\ wire' = <<>> /\ linked' = TRUE
    BY <1>1 DEF LinkFound, LinkType, Links
  <2>2. events' \in Seq([type : Lifecycle, on : Links]) /\ Len(events') <= EventDepth
    BY <1>1, <2>1, ReportType DEF LinkFound, Lifecycle
  <2>3. <<>> \in Seq(Commands)
    OBVIOUS
  <2> QED BY <1>1, <2>1, <2>2, <2>3 DEF LinkFound, LinkType, applianceVars
<1>2. CASE LinkFailed
  <2>1. link' \in Links
    BY <1>2 DEF LinkFailed, LinkType
  <2>2. events' \in Seq([type : Lifecycle, on : Links]) /\ Len(events') <= EventDepth
    BY <1>2, <2>1, ReportType DEF LinkFailed, Lifecycle
  <2> QED BY <1>2, <2>2 DEF LinkFailed, LinkType, applianceVars
<1>3. CASE \E type \in {"ReadyForProtocol", "Subscribed"} : LinkProgress(type)
  <2>1. PICK type \in {"ReadyForProtocol", "Subscribed"} : LinkProgress(type)
    BY <1>3
  <2>2. link' \in Links /\ reported' \subseteq {"ReadyForProtocol", "Subscribed"}
    BY <2>1 DEF LinkProgress, LinkType
  <2>3. events' \in Seq([type : Lifecycle, on : Links]) /\ Len(events') <= EventDepth
    BY <2>1, <2>2, ReportType DEF LinkProgress, Lifecycle
  <2> QED BY <2>1, <2>2, <2>3 DEF LinkProgress, LinkType, applianceVars
<1>4. CASE Execute
  <2>1. Head(wire) \in Commands /\ Tail(wire) \in Seq(Commands)
    BY <1>4, FrontAndRest DEF Execute, LinkType
  <2>2. PICK code \in Codes :
          /\ IF code = "success" THEN Obey(Head(wire)) ELSE UNCHANGED pouring
          /\ Answer(Head(wire), code)
    BY <1>4 DEF Execute
  <2>3. pouring' \in Amounts \cup {0}
    BY <2>1, <2>2 DEF Obey, LinkType, Commands
  <2>4. notifications' \in Seq(Responses) /\ Len(notifications') <= CharDepth
    <3> DEFINE response1 == [to |-> Head(wire), code |-> code, on |-> link]
    <3>1. response1 \in Responses
      BY <2>1 DEF Responses, LinkType
    <3>2. notifications \in Seq(Responses) /\ Len(notifications) <= CharDepth
      BY DEF LinkType
    <3>3. CASE Len(notifications) < CharDepth /\ notifications' = Append(notifications, response1)
      <4>1. notifications' \in Seq(Responses) /\ Len(notifications') = Len(notifications) + 1
        BY <3>1, <3>2, <3>3, AppendProperties
      <4>2. Len(notifications) \in Nat
        BY <3>2
      <4> QED BY <3>3, <4>1, <4>2, DialAssumption
    <3>4. CASE UNCHANGED notifications
      BY <3>2, <3>4
    <3> QED BY <2>2, <3>3, <3>4 DEF Answer
  <2> QED BY <1>4, <2>1, <2>3, <2>4 DEF Execute, LinkType, linkVars
<1>5. CASE WriteLost
  <2>1. Tail(wire) \in Seq(Commands)
    BY <1>5, FrontAndRest DEF WriteLost, LinkType
  <2> QED BY <1>5, <2>1 DEF WriteLost, LinkType, linkVars, applianceVars
<1>6. CASE PourEnds
  BY <1>6 DEF PourEnds, LinkType, linkVars
<1> QED BY <1>1, <1>2, <1>3, <1>4, <1>5, <1>6 DEF Link

\* What other tasks do keeps the types.
LEMMA EnvironmentStep == ASSUME TypeOK, Environment PROVE TypeOK'
<1> USE DEF TypeOK
<1>1. CASE StatusElapses \/ LostElapses
  <2>1. ElapseFrame /\ status_over' \in BOOLEAN /\ lost_over' \in BOOLEAN
    BY <1>1 DEF StatusElapses, LostElapses, ControllerType
  <2>2. UNCHANGED <<clientVars, time_valid, linkVars, applianceVars, wire>>
    BY <2>1 DEF ElapseFrame
  <2>3. ControllerType' /\ step' \in Steps
    BY <2>1 DEF ElapseFrame, ControllerType
  <2> QED BY <2>2, <2>3, ClientUntouched, LinkUntouched
<1>2. CASE TimeSynced \/ Provision
  <2>1. UNCHANGED <<step, controllerVars, linkVars, applianceVars, wire>>
    BY <1>2 DEF TimeSynced, Provision
  <2>2. ClientType'
    BY <1>2 DEF TimeSynced, Provision, ClientType, clientVars
  <2> QED BY <2>1, <2>2, ControllerUntouched, LinkUntouched
<1>3. CASE Link \/ Execute \/ WriteLost \/ PourEnds
  <2>1. EnvironmentFrame
    BY <1>3 DEF Link, LinkFound, LinkFailed, LinkProgress, Execute, WriteLost, PourEnds
  <2>2. step' \in Steps /\ ControllerType' /\ ClientType'
    BY <2>1 DEF EnvironmentFrame, ControllerType, ClientType, controllerVars, clientVars
  <2> QED BY <1>3, <2>2, LinkTypeStep
<1> QED BY <1>1, <1>2, <1>3 DEF Environment

\* Every step preserves the types.
LEMMA TypeStep == TypeOK /\ [Next]_vars => TypeOK'
<1> SUFFICES ASSUME TypeOK, [Next]_vars PROVE TypeOK'
  OBVIOUS
<1>1. CASE AppTask
  BY <1>1, RequestStep, PollEventType, PollStep, OutcomeStep DEF AppTask
<1>2. CASE Environment
  BY <1>2, EnvironmentStep
<1>3. CASE UNCHANGED vars
  BY <1>3 DEF vars, TypeOK, ControllerType, ClientType, LinkType, controllerVars,
              clientVars, linkVars, applianceVars
<1> QED BY <1>1, <1>2, <1>3 DEF Next

\* Every variable of the app task and every queue has its type.
THEOREM TypeCorrect == Spec => []TypeOK
<1>1. Init => TypeOK
  <2> SUFFICES ASSUME Init PROVE TypeOK
    OBVIOUS
  <2>1. step \in Steps /\ ControllerType
    BY DEF Init, ControllerType, Steps, Statuses
  <2>2. ClientType
    BY DEF Init, ClientType, Kinds, Links
  <2>3. \A S : <<>> \in Seq(S) /\ Len(<<>>) = 0
    BY EmptySeq
  <2>4. events \in Seq([type : Lifecycle, on : Links]) /\ Len(events) <= EventDepth
    BY <2>3, DialAssumption DEF Init
  <2>5. notifications \in Seq(Responses) /\ Len(notifications) <= CharDepth
    BY <2>3, DialAssumption DEF Init
  <2>6. LinkType
    BY <2>3, <2>4, <2>5 DEF Init, LinkType, Links
  <2> QED BY <2>1, <2>2, <2>6 DEF TypeOK
<1> QED BY <1>1, TypeStep, PTL DEF Spec
--------------------------------------------------------------------------------
(* The dial, its timer and the client agree                                *)

\* The inductive invariant: what the dial shows, what the controller waits for
\* and what the client knows fit together.
DialInv ==
  PendingAgree /\ SessionShown /\ DispenseFromIdle /\ NothingDeliveredWhenIdle
    /\ ReadyIsHonest

agreeVars == <<dispense_status, connection_status, delivered, command_pending, session,
               ready, subscribed, pending_command>>

\* A step that touches none of these variables keeps their agreement.
LEMMA AgreementUntouched == ASSUME DialInv, UNCHANGED agreeVars PROVE DialInv'
  BY DEF agreeVars, DialInv, PendingAgree, SessionShown, DispenseFromIdle,
         NothingDeliveredWhenIdle, ReadyIsHonest

\* A command is only sent while none is in flight, a dispense only from Idle.
LEMMA RequestAgrees ==
  ASSUME TypeOK, DialInv, RequestStop \/ \E amount \in Amounts : RequestDispense(amount),
         RequestFrame
  PROVE  DialInv'
<1>1. UNCHANGED <<connection_status, delivered, session, ready, subscribed>>
  BY DEF RequestFrame, RequestStop, RequestDispense, Sent, NotSent, clientVars
<1>2. ReadyIsHonest'
  BY <1>1 DEF DialInv, ReadyIsHonest
<1>3. CASE RequestStop
  <2>1. ~command_pending /\ dispense_status = "Dispensing"
    BY <1>3 DEF RequestStop
  <2>2. CASE Sent("Stop", 0) /\ command_pending' = TRUE /\ dispense_status' = "Stopping"
    <3>1. pending_command' = "Stop"
      BY <2>2 DEF Sent
    <3> QED BY <1>1, <1>2, <2>1, <2>2, <3>1 DEF DialInv, PendingAgree, SessionShown,
                 DispenseFromIdle, NothingDeliveredWhenIdle
  <2>3. CASE NotSent /\ command_pending' = FALSE /\ dispense_status' = "Dispensing"
    <3>1. pending_command' = pending_command
      BY <2>3 DEF NotSent, clientVars
    <3> QED BY <1>1, <1>2, <2>1, <2>3, <3>1 DEF DialInv, PendingAgree, SessionShown,
                 DispenseFromIdle, NothingDeliveredWhenIdle
  <2> QED BY <1>3, <2>2, <2>3 DEF RequestStop
<1>4. CASE \E amount \in Amounts : RequestDispense(amount)
  <2>1. PICK amount \in Amounts : RequestDispense(amount)
    BY <1>4
  <2>2. ~command_pending /\ dispense_status = "Idle" /\ dispense_status' = "Idle"
    BY <2>1 DEF RequestDispense
  <2>3. CASE Sent("Dispense", amount) /\ command_pending' = TRUE
    <3>1. pending_command' = "Dispense"
      BY <2>3 DEF Sent
    <3> QED BY <1>1, <1>2, <2>2, <2>3, <3>1 DEF DialInv, PendingAgree, SessionShown,
                 DispenseFromIdle, NothingDeliveredWhenIdle
  <2>4. CASE NotSent /\ command_pending' = FALSE
    <3>1. pending_command' = pending_command
      BY <2>4 DEF NotSent, clientVars
    <3> QED BY <1>1, <1>2, <2>2, <2>4, <3>1 DEF DialInv, PendingAgree, SessionShown,
                 DispenseFromIdle, NothingDeliveredWhenIdle
  <2> QED BY <2>1, <2>3, <2>4 DEF RequestDispense
<1> QED BY <1>3, <1>4

\* A connection event changes both sides together.
LEMMA EventAgrees == ASSUME TypeOK, DialInv, PollEvent PROVE DialInv'
<1>1. CASE HandleConnectionLost
  BY <1>1 DEF HandleConnectionLost, DialInv, PendingAgree, SessionShown,
              DispenseFromIdle, NothingDeliveredWhenIdle, ReadyIsHonest
<1>2. CASE HandleDeviceFound(Head(events).on)
  BY <1>2, AgreementUntouched DEF HandleDeviceFound, agreeVars
<1>3. CASE HandleProgress(Head(events).type)
  <2>1. UNCHANGED <<dispense_status, delivered, command_pending, session, pending_command>>
    BY <1>3 DEF HandleProgress
  <2>2. PendingAgree' /\ SessionShown' /\ DispenseFromIdle' /\ NothingDeliveredWhenIdle'
    BY <2>1 DEF DialInv, PendingAgree, SessionShown, DispenseFromIdle,
                NothingDeliveredWhenIdle
  <2>3. ReadyIsHonest'
    BY <1>3 DEF HandleProgress, DialInv, ReadyIsHonest
  <2> QED BY <2>2, <2>3 DEF DialInv
<1> QED BY <1>1, <1>2, <1>3 DEF PollEvent

\* The probe is the client's own business: the controller never waits for it.
LEMMA ProbeAgrees ==
  ASSUME TypeOK, DialInv, MaybeStartIdentityProbe \/ ProcessIdentityProbeOutcome
  PROVE  DialInv'
<1>1. UNCHANGED <<dispense_status, connection_status, delivered, command_pending,
                  session, ready, subscribed>>
  BY DEF MaybeStartIdentityProbe, ProcessIdentityProbeOutcome, controllerVars, Sent,
         NotSent, clientVars
<1>2. \/ pending_command' = pending_command
      \/ pending_command = "None" /\ pending_command' = "Probe"
      \/ pending_command = "Probe" /\ pending_command' = "None"
  BY DEF MaybeStartIdentityProbe, ProcessIdentityProbeOutcome, Sent, MaySend, NotSent,
         clientVars
<1> QED BY <1>1, <1>2 DEF DialInv, PendingAgree, SessionShown, DispenseFromIdle,
             NothingDeliveredWhenIdle, ReadyIsHonest

\* An outcome clears the command on both sides and moves status and timer alike.
LEMMA OutcomeAgrees == ASSUME TypeOK, DialInv, HandleCommandOutcome PROVE DialInv'
<1>1. CASE ~OutcomeAvailable
  BY <1>1, AgreementUntouched DEF HandleCommandOutcome, agreeVars
<1>2. CASE OutcomeAvailable
  <2>1. /\ pending_command' = "None" /\ command_pending' = FALSE
        /\ UNCHANGED <<connection_status, ready, subscribed>>
    BY <1>2 DEF HandleCommandOutcome
  <2>2. DispenseAccepted \/ DispenseRejected \/ StopAccepted \/ StopRejected
    BY <1>2 DEF HandleCommandOutcome
  <2>3. SessionShown' /\ NothingDeliveredWhenIdle'
    BY <2>2 DEF DispenseAccepted, DispenseRejected, StopAccepted, StopRejected,
                DialInv, SessionShown, NothingDeliveredWhenIdle
  <2> QED BY <2>1, <2>3 DEF DialInv, PendingAgree, DispenseFromIdle, ReadyIsHonest
<1> QED BY <1>1, <1>2

\* A status that returns by itself takes its timer and its volume along.
LEMMA TickAgrees == ASSUME TypeOK, DialInv, Tick PROVE DialInv'
<1>1. UNCHANGED <<command_pending, pending_command, ready, subscribed>>
  BY DEF Tick, clientVars
<1>2. ReadyIsHonest'
  BY <1>1 DEF Tick, DialInv, ReadyIsHonest
<1>3. PendingAgree'
  BY <1>1 DEF DialInv, PendingAgree
<1>4. \/ TickSession /\ dispense_status \in {"Dispensing", "Stopping"}
      \/ TickHold /\ dispense_status \in {"Finished", "Failed"}
      \/ UNCHANGED <<dispense_status, delivered, session>>
  BY DEF Tick
<1>5. SessionShown' /\ NothingDeliveredWhenIdle' /\ DispenseFromIdle'
  <2>1. CASE TickSession /\ dispense_status \in {"Dispensing", "Stopping"}
    BY <1>1, <2>1 DEF TickSession, PourOver, DialInv, SessionShown,
                      NothingDeliveredWhenIdle, DispenseFromIdle
  <2>2. CASE TickHold /\ dispense_status \in {"Finished", "Failed"}
    BY <1>1, <2>2 DEF TickHold, DialInv, SessionShown, NothingDeliveredWhenIdle,
                      DispenseFromIdle
  <2>3. CASE UNCHANGED <<dispense_status, delivered, session>>
    BY <1>1, <2>3 DEF DialInv, SessionShown, NothingDeliveredWhenIdle, DispenseFromIdle
  <2> QED BY <1>4, <2>1, <2>2, <2>3
<1> QED BY <1>2, <1>3, <1>5 DEF DialInv

\* Every step preserves the agreement.
LEMMA AgreementStep == TypeOK /\ DialInv /\ [Next]_vars => DialInv'
<1> SUFFICES ASSUME TypeOK, DialInv, [Next]_vars PROVE DialInv'
  OBVIOUS
<1>1. CASE ShortPress \/ ApiDispense \/ ApiStop
  <2>1. RequestFrame
    BY <1>1 DEF ShortPress, ApiDispense, ApiStop
  <2>2. RequestStop \/ \E amount \in Amounts : RequestDispense(amount)
    BY <1>1 DEF ShortPress, ApiDispense, ApiStop, TypeOK, ControllerType
  <2> QED BY <2>1, <2>2, RequestAgrees
<1>2. CASE NoRequest \/ Rotate \/ EventsDrained \/ PollNotification \/ NotificationsDrained
  <2>1. UNCHANGED agreeVars
    BY <1>2 DEF NoRequest, Rotate, RequestFrame, NotSent, EventsDrained,
         PollNotification, NotificationsDrained, controllerVars, clientVars, agreeVars
  <2> QED BY <2>1, AgreementUntouched
<1>3. CASE PollEvent
  BY <1>3, EventAgrees
<1>4. CASE MaybeStartIdentityProbe \/ ProcessIdentityProbeOutcome
  BY <1>4, ProbeAgrees
<1>5. CASE HandleCommandOutcome
  BY <1>5, OutcomeAgrees
<1>6. CASE Tick
  BY <1>6, TickAgrees
<1>7. CASE StatusElapses \/ LostElapses \/ TimeSynced \/ Provision
  <2>1. UNCHANGED agreeVars
    BY <1>7 DEF StatusElapses, LostElapses, ElapseFrame, TimeSynced, Provision,
                controllerVars, clientVars, agreeVars
  <2> QED BY <2>1, AgreementUntouched
<1>8. CASE Link \/ Execute \/ WriteLost \/ PourEnds
  <2>1. EnvironmentFrame
    BY <1>8 DEF Link, LinkFound, LinkFailed, LinkProgress, Execute, WriteLost, PourEnds
  <2>2. UNCHANGED agreeVars
    BY <2>1 DEF EnvironmentFrame, controllerVars, clientVars, agreeVars
  <2> QED BY <2>2, AgreementUntouched
<1>9. CASE UNCHANGED vars
  BY <1>9, AgreementUntouched DEF vars, controllerVars, clientVars, agreeVars
<1> QED BY <1>1, <1>2, <1>3, <1>4, <1>5, <1>6, <1>7, <1>8, <1>9 DEF Next, AppTask,
             Environment

\* The dial starts in agreement.
LEMMA AgreementInit == Init => DialInv
  BY DEF Init, DialInv, PendingAgree, SessionShown, DispenseFromIdle,
         NothingDeliveredWhenIdle, ReadyIsHonest

\* The controller and the client never disagree about a command in flight.
THEOREM PendingAgreed == Spec => []PendingAgree
<1>1. DialInv => PendingAgree
  BY DEF DialInv
<1> QED BY <1>1, AgreementInit, AgreementStep, TypeCorrect, PTL DEF Spec

\* The pour timer runs exactly while a pour is shown.
THEOREM SessionAgrees == Spec => []SessionShown
<1>1. DialInv => SessionShown
  BY DEF DialInv
<1> QED BY <1>1, AgreementInit, AgreementStep, TypeCorrect, PTL DEF Spec

\* A dispense is answered while the dial shows Idle, and an idle dial shows no
\* delivered volume.
THEOREM IdleIsClean == Spec => [](DispenseFromIdle /\ NothingDeliveredWhenIdle)
<1>1. DialInv => DispenseFromIdle /\ NothingDeliveredWhenIdle
  BY DEF DialInv
<1> QED BY <1>1, AgreementInit, AgreementStep, TypeCorrect, PTL DEF Spec

\* The dial claims Ready exactly when a command could be sent.
THEOREM ReadyAgrees == Spec => []ReadyIsHonest
<1>1. DialInv => ReadyIsHonest
  BY DEF DialInv
<1> QED BY <1>1, AgreementInit, AgreementStep, TypeCorrect, PTL DEF Spec
--------------------------------------------------------------------------------
(* A pour and a command in flight have a link                               *)

\* A command is sent, and a pour shown, only over a link that is ready; both
\* end with it.
UsesLink == pending_command # "None" \/ dispense_status \in {"Dispensing", "Stopping"}
LinkHeld == UsesLink => ready /\ subscribed /\ time_valid

\* A step that neither starts anything nor touches the link.
LEMMA HeldUntouched ==
  ASSUME LinkHeld, UsesLink' => UsesLink, ready => ready', subscribed => subscribed',
         time_valid => time_valid'
  PROVE  LinkHeld'
  BY DEF LinkHeld

\* Every step keeps what holds the link.
LEMMA LinkHeldStep == LinkHeld /\ [Next]_vars => LinkHeld'
<1> SUFFICES ASSUME LinkHeld, [Next]_vars PROVE LinkHeld'
  OBVIOUS
<1>1. CASE ShortPress \/ ApiDispense \/ ApiStop
  <2>1. RequestFrame /\ (RequestStop \/ \E amount : RequestDispense(amount))
    BY <1>1 DEF ShortPress, ApiDispense, ApiStop
  <2>2. CASE \E kind, amount : Sent(kind, amount)
    BY <2>1, <2>2 DEF Sent, MaySend, RequestFrame, LinkHeld
  <2>3. CASE NotSent
    BY <2>1, <2>3, HeldUntouched DEF NotSent, clientVars, RequestFrame, RequestStop,
                                     RequestDispense, Sent, UsesLink
  <2> QED BY <2>1, <2>2, <2>3 DEF RequestStop, RequestDispense
<1>2. CASE PollEvent
  <2>1. CASE HandleConnectionLost
    BY <2>1 DEF HandleConnectionLost, LinkHeld, UsesLink
  <2>2. CASE HandleDeviceFound(Head(events).on)
    BY <1>2, <2>2, HeldUntouched DEF PollEvent, HandleDeviceFound, UsesLink
  <2>3. CASE HandleProgress(Head(events).type)
    <3>1. UsesLink' => UsesLink
      BY <2>3 DEF HandleProgress, UsesLink
    <3>2. (ready => ready') /\ (subscribed => subscribed')
      BY <2>3, Zenon DEF HandleProgress
    <3>3. time_valid => time_valid'
      BY <1>2 DEF PollEvent
    <3> QED BY <3>1, <3>2, <3>3, HeldUntouched
  <2> QED BY <1>2, <2>1, <2>2, <2>3 DEF PollEvent
<1>3. CASE MaybeStartIdentityProbe
  <2>1. CASE Sent("Probe", 0)
    BY <1>3, <2>1 DEF MaybeStartIdentityProbe, Sent, MaySend, LinkHeld
  <2>2. CASE NotSent
    BY <1>3, <2>2, HeldUntouched DEF MaybeStartIdentityProbe, NotSent, clientVars,
                                     controllerVars, UsesLink
  <2> QED BY <1>3, <2>1, <2>2 DEF MaybeStartIdentityProbe
<1>4. CASE ProcessIdentityProbeOutcome
  BY <1>4, HeldUntouched DEF ProcessIdentityProbeOutcome, controllerVars, UsesLink
<1>5. CASE HandleCommandOutcome
  BY <1>5, HeldUntouched DEF HandleCommandOutcome, OutcomeAvailable, DispenseAccepted,
       DispenseRejected, StopAccepted, StopRejected, UsesLink
<1>6. CASE Tick
  BY <1>6, HeldUntouched DEF Tick, TickSession, TickHold, clientVars, UsesLink
<1>7. CASE NoRequest \/ Rotate \/ EventsDrained \/ PollNotification \/ NotificationsDrained
  BY <1>7, HeldUntouched DEF NoRequest, Rotate, RequestFrame, NotSent, EventsDrained,
       PollNotification, NotificationsDrained, controllerVars, clientVars, UsesLink
<1>8. CASE StatusElapses \/ LostElapses \/ TimeSynced \/ Provision
  BY <1>8, HeldUntouched DEF StatusElapses, LostElapses, ElapseFrame, TimeSynced, Provision,
       controllerVars, clientVars, UsesLink
<1>9. CASE Link \/ Execute \/ WriteLost \/ PourEnds
  <2>1. EnvironmentFrame
    BY <1>9 DEF Link, LinkFound, LinkFailed, LinkProgress, Execute, WriteLost, PourEnds
  <2> QED BY <2>1, HeldUntouched DEF EnvironmentFrame, controllerVars, clientVars, UsesLink
<1>10. CASE UNCHANGED vars
  BY <1>10, HeldUntouched DEF vars, controllerVars, clientVars, UsesLink
<1> QED BY <1>1, <1>2, <1>3, <1>4, <1>5, <1>6, <1>7, <1>8, <1>9, <1>10 DEF Next, AppTask,
             Environment

\* No pour is shown while the link is not ready, whatever is lost and whenever
\* (ui_manager.cpp's "no reachable combination").
THEOREM PourHasLink == Spec => []PourNeedsLink
<1>1. Init => LinkHeld
  BY DEF Init, LinkHeld, UsesLink
<1>2. LinkHeld /\ ReadyIsHonest => PourNeedsLink
  BY DEF LinkHeld, UsesLink, ReadyIsHonest, PourNeedsLink
<1> QED BY <1>1, <1>2, LinkHeldStep, ReadyAgrees, PTL DEF Spec
--------------------------------------------------------------------------------
(* What is read of a link                                                   *)

\* The code's queue holds eight reports, and a link makes four; a second failure
\* waits for a link, which is found after a backoff.
QueueOfLink == EventDepth >= 4 /\ ~Stalls

\* The last link is up, or its end has not been read.
LinkKnown == linked \/ \E i \in DOMAIN events : events[i].type = "ConnectionFailed"

\* Only what the current link reported is still queued, so that nothing is dropped.
ReportsFit ==
  Len(events) <= 1 + (IF "ReadyForProtocol" \in reported THEN 1 ELSE 0)
                   + (IF "Subscribed" \in reported THEN 1 ELSE 0)
                   + (IF linked THEN 0 ELSE 1)

\* The link's reports begin with its appliance and end with its failure.
ReportsInOrder ==
  \A i \in DOMAIN events :
    /\ events[i].on = link
    /\ events[i].type = "DeviceFound" => i = 1 /\ ~ready /\ ~subscribed
    /\ events[i].type = "ConnectionFailed" => i = Len(events) /\ ~linked

\* The client has been told whose link it is, or is about to be.
PeerKnown ==
  IF LinkKnown
  THEN found = link \/ (events # <<>> /\ events[1].type = "DeviceFound")
  ELSE events = <<>> /\ ~ready /\ ~subscribed

ReadInv == ReportsFit /\ ReportsInOrder /\ PeerKnown
readVars == <<linked, link, reported, events, found, ready, subscribed>>

\* A step that touches neither the link nor what was read of it.
LEMMA ReadUntouched == ASSUME ReadInv, UNCHANGED readVars PROVE ReadInv'
  BY DEF ReadInv, readVars, ReportsFit, ReportsInOrder, PeerKnown, LinkKnown

\* A report that fits comes last.
LEMMA Reported ==
  ASSUME TypeOK, NEW type \in Lifecycle, Report(type), Len(events) < EventDepth
  PROVE  /\ Len(events') = Len(events) + 1 /\ DOMAIN events' = 1 .. Len(events) + 1
         /\ \A i \in DOMAIN events : events'[i] = events[i]
         /\ events'[Len(events) + 1] = [type |-> type, on |-> link']
  BY AppendProperties DEF Report, TypeOK, LinkType

\* The first report is taken, and the others move up.
LEMMA Taken ==
  ASSUME TypeOK, events # <<>>, events' = Tail(events)
  PROVE  /\ Len(events') = Len(events) - 1 /\ DOMAIN events' = 1 .. Len(events) - 1
         /\ \A i \in DOMAIN events' : events'[i] = events[i + 1] /\ i + 1 \in DOMAIN events
         /\ Head(events) = events[1] /\ 1 \in DOMAIN events
         /\ Len(events) \in Nat \ {0} /\ DOMAIN events = 1 .. Len(events)
  BY DEF TypeOK, LinkType

\* A new link is found when the last one's reports have all been read.
LEMMA ReadLinkFound == ASSUME TypeOK, ReadInv, QueueOfLink, LinkFound PROVE ReadInv'
<1>1. ~LinkKnown
  BY DEF LinkFound, QueueOfLink, Polled, LinkKnown
<1>2. events = <<>> /\ ~ready /\ ~subscribed
  BY <1>1 DEF ReadInv, PeerKnown
<1>3. UNCHANGED <<found, ready, subscribed>> /\ linked' = TRUE /\ reported' = {}
  BY DEF LinkFound, EnvironmentFrame, clientVars
<1>4. events' = <<[type |-> "DeviceFound", on |-> link']>>
  BY <1>2, DialAssumption DEF LinkFound, Report, QueueOfLink
<1>5. Len(events') = 1 /\ DOMAIN events' = {1}
      /\ events'[1].type = "DeviceFound" /\ events'[1].on = link'
  BY <1>4
<1> QED BY <1>2, <1>3, <1>5 DEF ReadInv, ReportsFit, ReportsInOrder, PeerKnown, LinkKnown

\* A link reports its progress once each, and its failure last.
LEMMA ReadLinkReports ==
  ASSUME TypeOK, ReadInv, QueueOfLink,
         LinkFailed \/ \E type \in {"ReadyForProtocol", "Subscribed"} : LinkProgress(type)
  PROVE  ReadInv'
<1> DEFINE n == Len(events) + 1
<1>1. PICK type \in Lifecycle :
        /\ Report(type) /\ linked
        /\ \/ /\ type = "ConnectionFailed" /\ linked' = FALSE /\ UNCHANGED reported
           \/ /\ type \in {"ReadyForProtocol", "Subscribed"} \ reported
              /\ linked' = TRUE /\ reported' = reported \cup {type}
  BY DEF LinkFailed, LinkProgress, Lifecycle
<1>2. UNCHANGED <<link, found, ready, subscribed>>
  BY DEF LinkFailed, LinkProgress, EnvironmentFrame, clientVars
<1>3. Len(events) \in Nat /\ DOMAIN events = 1 .. Len(events)
  BY DEF TypeOK, LinkType
<1>4. Len(events) < EventDepth
  BY <1>1, <1>3, DialAssumption DEF QueueOfLink, ReadInv, ReportsFit
<1>5. /\ Len(events') = n /\ DOMAIN events' = 1 .. n
      /\ \A i \in DOMAIN events : events'[i] = events[i]
      /\ events'[n] = [type |-> type, on |-> link']
  BY <1>1, <1>4, Reported
<1>6. ReportsFit'
  BY <1>1, <1>3, <1>5 DEF ReadInv, ReportsFit
<1>7. ReportsInOrder'
  <2>1. \A i \in DOMAIN events : events[i].type # "ConnectionFailed"
    BY <1>1 DEF ReadInv, ReportsInOrder
  <2>2. ASSUME NEW i \in DOMAIN events'
        PROVE  /\ events'[i].on = link'
               /\ events'[i].type = "DeviceFound" => i = 1 /\ ~ready' /\ ~subscribed'
               /\ events'[i].type = "ConnectionFailed" => i = Len(events') /\ ~linked'
    <3>1. CASE i = n
      BY <1>1, <1>5, <3>1
    <3>2. CASE i # n
      <4>1. i \in DOMAIN events /\ events'[i] = events[i]
        BY <1>3, <1>5, <3>2
      <4> QED BY <1>2, <2>1, <4>1 DEF ReadInv, ReportsInOrder
    <3> QED BY <3>1, <3>2
  <2> QED BY <2>2 DEF ReportsInOrder
<1>8. PeerKnown'
  <2>1. found = link \/ (events # <<>> /\ events[1].type = "DeviceFound")
    BY <1>1 DEF ReadInv, PeerKnown, LinkKnown
  <2>2. events # <<>> => events' # <<>> /\ events'[1] = events[1]
    BY <1>3, <1>5
  <2>3. LinkKnown'
    BY <1>1, <1>3, <1>5 DEF LinkKnown
  <2> QED BY <1>2, <2>1, <2>2, <2>3 DEF PeerKnown
<1> QED BY <1>6, <1>7, <1>8 DEF ReadInv

\* Reading a report tells the client what the link's state implies.
LEMMA ReadReport == ASSUME TypeOK, ReadInv, PollEvent PROVE ReadInv'
<1>1. UNCHANGED <<linked, link, reported>> /\ events # <<>> /\ events' = Tail(events)
  BY DEF PollEvent
<1>2. /\ Len(events') = Len(events) - 1 /\ DOMAIN events' = 1 .. Len(events) - 1
      /\ \A i \in DOMAIN events' : events'[i] = events[i + 1] /\ i + 1 \in DOMAIN events
      /\ Head(events) = events[1] /\ 1 \in DOMAIN events
      /\ Len(events) \in Nat \ {0} /\ DOMAIN events = 1 .. Len(events)
  BY <1>1, Taken
<1>3. ReportsFit'
  BY <1>1, <1>2 DEF ReadInv, ReportsFit
<1>4. \A i \in DOMAIN events' :
        /\ events'[i].on = link'
        /\ events'[i].type # "DeviceFound"
        /\ events'[i].type = "ConnectionFailed" => i = Len(events') /\ ~linked'
  BY <1>1, <1>2 DEF ReadInv, ReportsInOrder
<1>5. ReportsInOrder'
  BY <1>4 DEF ReportsInOrder
<1>6. LinkKnown /\ (found = link \/ Head(events).type = "DeviceFound")
  BY <1>1, <1>2 DEF ReadInv, PeerKnown
<1>7. PeerKnown'
  <2>1. CASE Head(events).type = "ConnectionFailed"
    <3>1. ~ready' /\ ~subscribed'
      BY <2>1 DEF PollEvent, HandleConnectionLost
    <3>2. Len(events) = 1 /\ ~linked
      BY <1>2, <2>1 DEF ReadInv, ReportsInOrder
    <3>3. events' = <<>> /\ ~LinkKnown'
      BY <1>1, <1>2, <3>2 DEF LinkKnown, TypeOK, LinkType
    <3> QED BY <3>1, <3>3 DEF PeerKnown
  <2>2. CASE Head(events).type # "ConnectionFailed"
    <3>1. LinkKnown'
      <4>1. CASE linked
        BY <1>1, <4>1 DEF LinkKnown
      <4>2. CASE ~linked
        <5>1. PICK i \in DOMAIN events : events[i].type = "ConnectionFailed"
          BY <1>6, <4>2 DEF LinkKnown
        <5>2. i # 1 /\ i - 1 \in DOMAIN events' /\ events'[i - 1] = events[i]
          BY <1>2, <2>2, <5>1
        <5> QED BY <5>1, <5>2 DEF LinkKnown
      <4> QED BY <4>1, <4>2
    <3>2. found' = link'
      <4>1. CASE Head(events).type = "DeviceFound"
        BY <1>1, <1>2, <4>1 DEF PollEvent, HandleDeviceFound, ReadInv, ReportsInOrder
      <4>2. CASE Head(events).type # "DeviceFound"
        BY <1>1, <1>6, <2>2, <4>2 DEF PollEvent, HandleProgress
      <4> QED BY <4>1, <4>2
    <3> QED BY <3>1, <3>2 DEF PeerKnown
  <2> QED BY <2>1, <2>2
<1> QED BY <1>3, <1>5, <1>7 DEF ReadInv

\* Every step keeps what is read of a link.
LEMMA ReadStep ==
  ASSUME QueueOfLink PROVE TypeOK /\ ReadInv /\ [Next]_vars => ReadInv'
<1> SUFFICES ASSUME TypeOK, ReadInv, [Next]_vars PROVE ReadInv'
  OBVIOUS
<1>1. CASE PollEvent
  BY <1>1, ReadReport
<1>2. CASE Link
  BY <1>2, ReadLinkFound, ReadLinkReports DEF Link
<1>3. CASE ShortPress \/ ApiDispense \/ ApiStop \/ Rotate
  BY <1>3, ReadUntouched DEF ShortPress, ApiDispense, ApiStop, Rotate, RequestFrame,
       RequestDispense, RequestStop, Sent, NotSent, clientVars, linkVars, readVars
<1>4. CASE NoRequest \/ EventsDrained \/ NotificationsDrained \/ MaybeStartIdentityProbe
  BY <1>4, ReadUntouched DEF NoRequest, EventsDrained, NotificationsDrained,
       MaybeStartIdentityProbe, Sent, NotSent, clientVars, linkVars, readVars
<1>5. CASE PollNotification \/ ProcessIdentityProbeOutcome \/ HandleCommandOutcome \/ Tick
  BY <1>5, ReadUntouched DEF PollNotification, ProcessIdentityProbeOutcome,
       HandleCommandOutcome, Tick, clientVars, linkVars, readVars
<1>6. CASE StatusElapses \/ LostElapses \/ TimeSynced \/ Provision
  BY <1>6, ReadUntouched DEF StatusElapses, LostElapses, ElapseFrame, TimeSynced,
       Provision, clientVars, linkVars, readVars
<1>7. CASE Execute \/ WriteLost \/ PourEnds
  BY <1>7, ReadUntouched DEF Execute, WriteLost, PourEnds, EnvironmentFrame, clientVars,
       linkVars, readVars
<1>8. CASE UNCHANGED vars
  BY <1>8, ReadUntouched DEF vars, clientVars, linkVars, readVars
<1> QED BY <1>1, <1>2, <1>3, <1>4, <1>5, <1>6, <1>7, <1>8 DEF Next, AppTask, Environment
--------------------------------------------------------------------------------
(* The answer to a command                                                  *)

\* The command, as the appliance reads it, is the one the client waits for.
Own(command) ==
  /\ command.kind = pending_command
  /\ pending_command = "Dispense" => command.amount = pending_amount

\* A command in flight is in one place at most: written, answered, or its answer
\* read.  Without one, nothing is on its way that could be taken for an answer.
OneInFlight ==
  /\ pending_command = "None" => response = None
  /\ LinkKnown =>
       /\ Len(wire) + Len(notifications)
            <= IF pending_command = "None" \/ response # None THEN 0 ELSE 1
       /\ \A i \in DOMAIN wire : Own(wire[i])
       /\ \A i \in DOMAIN notifications :
            Own(notifications[i].to) /\ notifications[i].on = link
       /\ response # None => Own(response.to) /\ response.on = link

\* The answer to a probe never reaches HandleCommandOutcome.
ProbeFirst == step = "outcome" /\ response # None => pending_command # "Probe"

FlightInv == OneInFlight /\ ProbeFirst
flightVars == <<linked, link, events, wire, notifications, pending_command,
                pending_amount, response>>

\* A step that touches neither the command nor its answer.
LEMMA FlightUntouched ==
  ASSUME FlightInv, UNCHANGED flightVars,
         step' \in {step, "api", "events", "probe", "verdict", "encoder"}
  PROVE  FlightInv'
  BY DEF FlightInv, flightVars, OneInFlight, ProbeFirst, LinkKnown, Own

\* A client that is ready knows its link, and whose it is.
LEMMA ReadyKnowsLink ==
  ASSUME TypeOK, ReadInv, ready PROVE LinkKnown /\ found = link
<1>1. LinkKnown
  BY DEF ReadInv, PeerKnown
<1>2. events # <<>> => 1 \in DOMAIN events
  BY DEF TypeOK, LinkType
<1> QED BY <1>1, <1>2 DEF ReadInv, PeerKnown, ReportsInOrder

\* A command is sent when nothing else is on its way.
LEMMA FlightSent ==
  ASSUME TypeOK, ReadInv, FlightInv, NEW kind \in Kinds, NEW amount \in Amounts \cup {0},
         Sent(kind, amount), UNCHANGED <<linked, link, events, notifications>>,
         kind = "Dispense" => pending_amount' = amount, step' # "outcome"
  PROVE  FlightInv'
<1> DEFINE command == [kind |-> kind, amount |-> amount]
<1>1. LinkKnown /\ LinkKnown' /\ pending_command = "None"
  BY ReadyKnowsLink DEF Sent, MaySend, LinkKnown
<1>2. Len(wire) = 0 /\ Len(notifications) = 0
  BY <1>1 DEF FlightInv, OneInFlight, TypeOK, LinkType
<1>3. wire' = <<command>> /\ notifications' = <<>>
  BY <1>2 DEF Sent, TypeOK, LinkType
<1>4. pending_command' = kind /\ response' = None
  BY DEF Sent
<1>5. Len(wire') = 1 /\ DOMAIN wire' = {1} /\ wire'[1] = command
      /\ Len(notifications') = 0 /\ DOMAIN notifications' = {}
  BY <1>3
<1>6. Own(command)'
  BY <1>4 DEF Own
<1>7. pending_command' # "None"
  BY <1>4 DEF Kinds
<1>8. OneInFlight'
  BY <1>4, <1>5, <1>6, <1>7 DEF OneInFlight, Own
<1> QED BY <1>8 DEF FlightInv, ProbeFirst

\* A press, or the API: the amount that is asked for is not yet that of a command
\* in flight.
LEMMA FlightRequest ==
  ASSUME TypeOK, DialInv, ReadInv, FlightInv,
         RequestStop \/ \E amount \in Amounts : RequestDispense(amount),
         RequestFrame, step' # "outcome"
  PROVE  FlightInv'
<1>1. UNCHANGED <<linked, link, events, notifications>>
  BY DEF RequestFrame, linkVars, applianceVars
<1>2. CASE \E amount \in Amounts : RequestDispense(amount) /\ Sent("Dispense", amount)
  BY <1>1, <1>2, FlightSent DEF RequestDispense, Kinds
<1>3. CASE Sent("Stop", 0)
  BY <1>1, <1>3, FlightSent DEF Kinds
<1>4. CASE NotSent
  <2>1. UNCHANGED <<pending_command, response, wire>>
    BY <1>4 DEF NotSent, clientVars
  <2>2. pending_command # "Dispense"
    BY DEF RequestDispense, RequestStop, DialInv, PendingAgree
  <2>3. \A command : Own(command)' <=> Own(command)
    BY <2>1, <2>2 DEF Own
  <2> QED BY <1>1, <2>1, <2>3 DEF FlightInv, OneInFlight, ProbeFirst, LinkKnown, Own
<1> QED BY <1>2, <1>3, <1>4 DEF RequestDispense, RequestStop

\* Reading a report ends the command or leaves it alone.
LEMMA FlightReport ==
  ASSUME TypeOK, ReadInv, FlightInv, PollEvent PROVE FlightInv'
<1>1. UNCHANGED <<step, linked, link, wire, notifications, pending_amount>>
      /\ events # <<>> /\ events' = Tail(events)
  BY DEF PollEvent, applianceVars
<1>2. /\ \A i \in DOMAIN events' : events'[i] = events[i + 1] /\ i + 1 \in DOMAIN events
      /\ Head(events) = events[1] /\ 1 \in DOMAIN events
      /\ DOMAIN events' = 1 .. Len(events) - 1
  BY <1>1, Taken
<1>3. LinkKnown' => LinkKnown
  BY <1>1, <1>2 DEF LinkKnown
<1>4. CASE Head(events).type = "ConnectionFailed"
  <2>1. pending_command' = "None" /\ response' = None
    BY <1>4 DEF PollEvent, HandleConnectionLost
  <2>2. ~LinkKnown'
    BY <1>1, <1>2, <1>4 DEF ReadInv, ReportsInOrder, LinkKnown, TypeOK, LinkType
  <2> QED BY <2>1, <2>2 DEF FlightInv, OneInFlight, ProbeFirst
<1>5. CASE Head(events).type # "ConnectionFailed"
  <2>1. UNCHANGED <<pending_command, response>>
    BY <1>5 DEF PollEvent, HandleDeviceFound, HandleProgress
  <2> QED BY <1>1, <1>3, <2>1 DEF FlightInv, OneInFlight, ProbeFirst, Own
<1> QED BY <1>4, <1>5

\* What is read is the answer to the command that was waited for.
LEMMA FlightNotification ==
  ASSUME TypeOK, ReadInv, LinkHeld, FlightInv, PollNotification PROVE FlightInv'
<1>1. UNCHANGED <<step, linked, link, events, wire, pending_command, pending_amount>>
      /\ step = "notifications" /\ notifications # <<>>
  BY DEF PollNotification, linkVars, controllerVars
<1>2. /\ Len(notifications') = Len(notifications) - 1
      /\ Len(notifications) \in Nat \ {0} /\ Len(wire) \in Nat
      /\ Head(notifications) = notifications[1] /\ 1 \in DOMAIN notifications
      /\ Head(notifications) \in Responses
  BY <1>1 DEF PollNotification, TypeOK, LinkType
<1>3. CASE pending_command = "None"
  <2>1. response' = None /\ ~LinkKnown'
    BY <1>1, <1>2, <1>3 DEF PollNotification, FlightInv, OneInFlight, LinkKnown
  <2> QED BY <1>1, <2>1 DEF FlightInv, OneInFlight, ProbeFirst
<1>4. CASE pending_command # "None"
  <2>1. LinkKnown /\ LinkKnown'
    BY <1>1, <1>4, ReadyKnowsLink DEF LinkHeld, UsesLink, LinkKnown
  <2>2. response = None /\ Len(notifications) = 1 /\ Len(wire) = 0
    BY <1>2, <2>1 DEF FlightInv, OneInFlight
  <2>3. response' = notifications[1]
    BY <1>2, <1>4 DEF PollNotification
  <2>4. Own(notifications[1].to) /\ notifications[1].on = link
    BY <1>2, <2>1 DEF FlightInv, OneInFlight
  <2>5. (Own(response.to) /\ response.on = link)'
    BY <1>1, <2>3, <2>4 DEF Own
  <2>6. Len(notifications') = 0 /\ DOMAIN notifications' = {} /\ DOMAIN wire' = {}
    BY <1>1, <1>2, <2>2 DEF PollNotification, TypeOK, LinkType
  <2>7. OneInFlight'
    BY <1>1, <1>4, <2>2, <2>5, <2>6 DEF OneInFlight
  <2> QED BY <1>1, <2>7 DEF FlightInv, ProbeFirst
<1> QED BY <1>3, <1>4

\* A verdict or an outcome ends the command.
LEMMA FlightResolved ==
  ASSUME TypeOK, FlightInv, ProcessIdentityProbeOutcome \/ HandleCommandOutcome
  PROVE  FlightInv'
<1>1. UNCHANGED <<linked, link, events, wire, notifications, pending_amount>>
  BY DEF ProcessIdentityProbeOutcome, HandleCommandOutcome, controllerVars, linkVars,
         applianceVars
<1>2. \/ response # None /\ response' = None /\ pending_command' = "None"
      \/ UNCHANGED <<pending_command, response>>
  BY DEF ProcessIdentityProbeOutcome, HandleCommandOutcome, OutcomeAvailable
<1>3. ProbeFirst'
  BY DEF ProcessIdentityProbeOutcome, HandleCommandOutcome, ProbeFirst
<1>4. LinkKnown' <=> LinkKnown
  BY <1>1 DEF LinkKnown
<1>5. CASE response # None /\ response' = None /\ pending_command' = "None"
  <2>1. LinkKnown => Len(wire) = 0 /\ Len(notifications) = 0
    BY <1>5 DEF FlightInv, OneInFlight, TypeOK, LinkType
  <2>2. LinkKnown => DOMAIN wire = {} /\ DOMAIN notifications = {}
    BY <2>1 DEF TypeOK, LinkType
  <2> QED BY <1>1, <1>3, <1>4, <1>5, <2>1, <2>2 DEF FlightInv, OneInFlight
<1>6. CASE UNCHANGED <<pending_command, response>>
  BY <1>1, <1>3, <1>4, <1>6 DEF FlightInv, OneInFlight, Own
<1> QED BY <1>2, <1>5, <1>6

\* The link comes and goes; a new one starts with nothing on its way.
LEMMA FlightLink ==
  ASSUME TypeOK, ReadInv, LinkHeld, FlightInv, QueueOfLink, Link PROVE FlightInv'
<1>1. UNCHANGED <<step, pending_command, pending_amount, response, notifications>>
  BY DEF Link, LinkFound, LinkFailed, LinkProgress, EnvironmentFrame, clientVars,
         controllerVars, applianceVars
<1>2. CASE LinkFound
  <2>1. ~LinkKnown
    BY <1>2 DEF LinkFound, QueueOfLink, Polled, LinkKnown
  <2>2. pending_command = "None" /\ response = None
    BY <2>1 DEF ReadInv, PeerKnown, LinkHeld, UsesLink, FlightInv, OneInFlight
  <2>3. wire' = <<>> /\ notifications' = <<>>
    BY <1>1, <1>2 DEF LinkFound, QueueOfLink, Polled
  <2> QED BY <1>1, <2>2, <2>3 DEF FlightInv, OneInFlight, ProbeFirst
<1>3. CASE LinkFailed \/ \E type \in {"ReadyForProtocol", "Subscribed"} : LinkProgress(type)
  <2>1. LinkKnown /\ UNCHANGED <<link, wire>>
    BY <1>3 DEF LinkFailed, LinkProgress, LinkKnown
  <2> QED BY <1>1, <2>1 DEF FlightInv, OneInFlight, ProbeFirst, Own
<1> QED BY <1>2, <1>3 DEF Link

\* The appliance answers the command it reads, or the command is lost.
LEMMA FlightExecuted ==
  ASSUME TypeOK, FlightInv, Execute \/ WriteLost PROVE FlightInv'
<1>1. UNCHANGED <<step, pending_command, pending_amount, response, linked, link, events>>
      /\ wire # <<>> /\ wire' = Tail(wire)
  BY DEF Execute, WriteLost, EnvironmentFrame, controllerVars, clientVars, linkVars
<1>2. LinkKnown' <=> LinkKnown
  BY <1>1 DEF LinkKnown
<1>3. SUFFICES ASSUME LinkKnown PROVE FlightInv'
  BY <1>1, <1>2 DEF FlightInv, OneInFlight, ProbeFirst
<1>4. /\ Len(wire) = 1 /\ Len(notifications) = 0 /\ response = None
      /\ pending_command # "None" /\ Own(Head(wire))
  <2>1. /\ Len(wire) \in Nat \ {0} /\ Len(notifications) \in Nat
        /\ 1 \in DOMAIN wire /\ Head(wire) = wire[1]
    BY <1>1 DEF TypeOK, LinkType
  <2> QED BY <1>3, <2>1 DEF FlightInv, OneInFlight
<1>5. wire' = <<>> /\ notifications = <<>>
  BY <1>1, <1>4 DEF TypeOK, LinkType
<1>6. \/ notifications' = <<>>
      \/ \E code \in Codes :
           notifications' = <<[to |-> Head(wire), code |-> code, on |-> link]>>
  BY <1>5 DEF Execute, WriteLost, Answer, applianceVars
<1>7. /\ Len(notifications') <= 1
      /\ \A i \in DOMAIN notifications' :
           notifications'[i].to = Head(wire) /\ notifications'[i].on = link
  <2>1. CASE notifications' = <<>>
    BY <2>1
  <2>2. ASSUME NEW code \in Codes,
               notifications' = <<[to |-> Head(wire), code |-> code, on |-> link]>>
        PROVE  /\ Len(notifications') <= 1
               /\ \A i \in DOMAIN notifications' :
                    notifications'[i].to = Head(wire) /\ notifications'[i].on = link
    <3>1. Len(notifications') = 1 /\ DOMAIN notifications' = {1}
      BY <2>2
    <3>2. notifications'[1].to = Head(wire) /\ notifications'[1].on = link
      BY <2>2
    <3> QED BY <3>1, <3>2
  <2> QED BY <1>6, <2>1, <2>2
<1>8. OneInFlight'
  <2>1. Len(wire') = 0 /\ DOMAIN wire' = {} /\ Len(notifications') \in {0, 1}
    BY <1>4, <1>5, <1>6, <1>1
  <2>2. (\A i \in DOMAIN notifications : Own(notifications[i].to) /\ notifications[i].on = link)'
    BY <1>1, <1>4, <1>7 DEF Own
  <2> QED BY <1>1, <1>4, <2>1, <2>2 DEF OneInFlight
<1> QED BY <1>1, <1>8 DEF FlightInv, ProbeFirst

\* Every step keeps the command in flight in one place.
LEMMA FlightStep ==
  ASSUME QueueOfLink
  PROVE  TypeOK /\ DialInv /\ LinkHeld /\ ReadInv /\ FlightInv /\ [Next]_vars => FlightInv'
<1> SUFFICES ASSUME TypeOK, DialInv, LinkHeld, ReadInv, FlightInv, [Next]_vars
             PROVE  FlightInv'
  OBVIOUS
<1>1. CASE ShortPress \/ ApiDispense \/ ApiStop
  <2>1. RequestFrame /\ step' # "outcome"
    BY <1>1 DEF ShortPress, ApiDispense, ApiStop
  <2>2. RequestStop \/ \E amount \in Amounts : RequestDispense(amount)
    BY <1>1 DEF ShortPress, ApiDispense, ApiStop, TypeOK, ControllerType
  <2> QED BY <2>1, <2>2, FlightRequest
<1>2. CASE NoRequest \/ Rotate \/ EventsDrained \/ NotificationsDrained \/ Tick
  BY <1>2, FlightUntouched DEF NoRequest, Rotate, RequestFrame, NotSent, EventsDrained,
       NotificationsDrained, Tick, controllerVars, clientVars, linkVars, applianceVars,
       flightVars
<1>3. CASE MaybeStartIdentityProbe
  <2>1. UNCHANGED <<linked, link, events, notifications, pending_amount>>
        /\ step' = "notifications"
    BY <1>3 DEF MaybeStartIdentityProbe, controllerVars, linkVars, applianceVars
  <2>2. CASE Sent("Probe", 0)
    BY <2>1, <2>2, FlightSent DEF Kinds
  <2>3. CASE NotSent
    BY <2>1, <2>3 DEF NotSent, clientVars, FlightInv, OneInFlight, ProbeFirst, LinkKnown, Own
  <2> QED BY <1>3, <2>2, <2>3 DEF MaybeStartIdentityProbe
<1>4. CASE PollEvent
  BY <1>4, FlightReport
<1>5. CASE PollNotification
  BY <1>5, FlightNotification
<1>6. CASE ProcessIdentityProbeOutcome \/ HandleCommandOutcome
  BY <1>6, FlightResolved
<1>7. CASE Link
  BY <1>7, FlightLink
<1>8. CASE Execute \/ WriteLost
  BY <1>8, FlightExecuted
<1>9. CASE StatusElapses \/ LostElapses \/ TimeSynced \/ Provision \/ PourEnds
  BY <1>9, FlightUntouched DEF StatusElapses, LostElapses, ElapseFrame, TimeSynced,
       Provision, PourEnds, EnvironmentFrame, controllerVars, clientVars, linkVars,
       applianceVars, flightVars
<1>10. CASE UNCHANGED vars
  BY <1>10, FlightUntouched DEF vars, controllerVars, clientVars, linkVars, applianceVars,
       flightVars
<1> QED BY <1>1, <1>2, <1>3, <1>4, <1>5, <1>6, <1>7, <1>8, <1>9, <1>10 DEF Next, AppTask,
             Environment

\* All that is known of a command and its link.
LEMMA InFlight ==
  ASSUME QueueOfLink
  PROVE  Spec => [](TypeOK /\ DialInv /\ LinkHeld /\ ReadInv /\ FlightInv)
<1>1. Init => LinkHeld /\ ReadInv /\ FlightInv
  BY DEF Init, LinkHeld, UsesLink, ReadInv, ReportsFit, ReportsInOrder, PeerKnown,
         LinkKnown, FlightInv, OneInFlight, ProbeFirst
<1> QED BY <1>1, AgreementInit, AgreementStep, LinkHeldStep, ReadStep, FlightStep, TypeCorrect,
             PTL DEF Spec

\* The answer that resolves a user's command answers that very command, given over
\* the link it was sent on, whatever is lost, refused or provisioned meanwhile
\* (TakeCommandOutcome).
THEOREM AnswersCommand ==
  ASSUME QueueOfLink PROVE Spec => []OutcomeAnswersCommand
<1>1. TypeOK /\ LinkHeld /\ ReadInv /\ FlightInv => OutcomeAnswersCommand
  BY ReadyKnowsLink DEF LinkHeld, UsesLink, FlightInv, OneInFlight, ProbeFirst, Own,
       OutcomeAnswersCommand, OutcomeAvailable
<1> QED BY <1>1, InFlight, PTL

\* An appliance is pinned or rejected for its own answer to the probe
\* (ProcessIdentityProbeOutcome).
THEOREM JudgesProbedPeer ==
  ASSUME QueueOfLink PROVE Spec => []VerdictFromProbedPeer
<1>1. TypeOK /\ LinkHeld /\ ReadInv /\ FlightInv => VerdictFromProbedPeer
  BY ReadyKnowsLink DEF LinkHeld, UsesLink, FlightInv, OneInFlight, Own,
       VerdictFromProbedPeer
<1> QED BY <1>1, InFlight, PTL

\* A pour is shown with the amount the appliance acknowledged
\* (pending_dispense_amount_ml_).
THEOREM ShowsItsAmount ==
  ASSUME QueueOfLink PROVE Spec => PourShowsItsAmount
<1>1. TypeOK /\ LinkHeld /\ ReadInv /\ FlightInv /\ [Next]_vars =>
        [session' /\ ~session =>
           active_amount' = response.to.amount /\ response.to.kind = "Dispense"]_vars
  <2> SUFFICES ASSUME TypeOK, LinkHeld, ReadInv, FlightInv, [Next]_vars,
                      session', ~session
               PROVE  active_amount' = response.to.amount /\ response.to.kind = "Dispense"
    OBVIOUS
  <2>1. HandleCommandOutcome /\ OutcomeAvailable /\ DispenseAccepted
        /\ pending_command = "Dispense"
    <3>1. CASE HandleCommandOutcome
      BY <3>1 DEF HandleCommandOutcome, DispenseRejected, StopAccepted, StopRejected
    <3>2. CASE PollEvent
      BY <3>2 DEF PollEvent, HandleConnectionLost, HandleDeviceFound, HandleProgress
    <3>3. CASE Tick
      BY <3>3 DEF Tick, TickSession, TickHold
    <3>4. CASE [AppTask \/ Environment]_vars /\ ~HandleCommandOutcome /\ ~PollEvent /\ ~Tick
      BY <3>4 DEF AppTask, Environment, Link, NoRequest, ShortPress, Rotate, ApiDispense,
           ApiStop, RequestFrame, EventsDrained, MaybeStartIdentityProbe, PollNotification,
           NotificationsDrained, ProcessIdentityProbeOutcome, StatusElapses, LostElapses,
           ElapseFrame, TimeSynced, Provision, LinkFound, LinkFailed, LinkProgress, Execute,
           WriteLost, PourEnds, EnvironmentFrame, controllerVars, vars
    <3> QED BY <3>1, <3>2, <3>3, <3>4 DEF Next
  <2>2. active_amount' = pending_amount
    BY <2>1 DEF DispenseAccepted
  <2>3. Own(response.to)
    BY <2>1, ReadyKnowsLink DEF OutcomeAvailable, LinkHeld, UsesLink, FlightInv, OneInFlight
  <2> QED BY <2>1, <2>2, <2>3 DEF Own
<1> QED BY <1>1, InFlight, PTL DEF Spec, PourShowsItsAmount
--------------------------------------------------------------------------------
(* The screen                                                               *)

\* A step of the app task, or of its surroundings, as the screen sees it.
LEMMA ScreenStep == [ScreenNext]_<<vars, screenVars>> => [Next]_vars
  BY DEF ScreenNext, Encoder, Api, PollClient, EndOfPass, MinuteElapses, PulseEnds,
       AroundApp, Next, AppTask

\* Screen adds to the app task what the user sees, and takes nothing away: what
\* holds of the task holds of it (App::Run's loop).
THEOREM ScreenRunsApp == ScreenSpec => Spec
<1>1. ScreenInit => Init
  BY DEF ScreenInit
<1> QED BY <1>1, ScreenStep, PTL DEF ScreenSpec, Spec

\* Nothing that happens around the app task changes what is shown.
LEMMA SurroundingsDontShow ==
  ASSUME Environment, UNCHANGED screenVars PROVE UNCHANGED <<Shown, step>>
  BY DEF Environment, StatusElapses, LostElapses, ElapseFrame, TimeSynced, Provision, Link,
       LinkFound, LinkFailed, LinkProgress, Execute, WriteLost, PourEnds, EnvironmentFrame,
       controllerVars, screenVars, Shown

\* A handler that changes what is shown says so.
LEMMA HandlersReport ==
  /\ PollEvent => Shown' = Shown \/ time_status' # time_status \/ PollReturns
  /\ HandleCommandOutcome => Shown' = Shown \/ time_status' # time_status \/ OutcomeReturns
<1>1. ASSUME PollEvent, UNCHANGED time_status, ~PollReturns PROVE Shown' = Shown
  <2>1. UNCHANGED <<amount_ml, active_amount>>
    BY <1>1 DEF PollEvent
  <2>2. CASE Head(events).type = "ConnectionFailed"
    BY <1>1, <2>1, <2>2 DEF PollEvent, PollReturns, HandleConnectionLost, Shown
  <2>3. CASE Head(events).type = "DeviceFound"
    BY <1>1, <2>1, <2>3 DEF PollEvent, HandleDeviceFound, Shown
  <2>4. CASE Head(events).type \notin {"ConnectionFailed", "DeviceFound"}
    BY <1>1, <2>1, <2>4 DEF PollEvent, PollReturns, HandleProgress, Shown
  <2> QED BY <2>2, <2>3, <2>4
<1>2. ASSUME HandleCommandOutcome, UNCHANGED time_status, ~OutcomeReturns
      PROVE  Shown' = Shown
  BY <1>2 DEF HandleCommandOutcome, OutcomeReturns, DispenseRejected, StopAccepted,
       StopRejected, Shown
<1> QED BY <1>1, <1>2

\* Tick reports what it changes.
LEMMA TickReports ==
  ASSUME TypeOK, Tick, UNCHANGED time_status, ~TickReturns PROVE Shown' = Shown
<1>1. ~(connection_status = "ConnectionLost" /\ lost_over)
  BY DEF TickReturns
<1>2. UNCHANGED <<connection_status, amount_ml, active_amount>>
  BY <1>1 DEF Tick
<1>3. UNCHANGED <<dispense_status, delivered>>
  BY <1>1 DEF Tick, TickReturns, TickSession, TickHold, TypeOK, ControllerType
<1> QED BY <1>2, <1>3 DEF Shown

\* What the screen shows, unless it is stale.
Current == [dispense |-> dispense_status, connection |-> connection_status,
            time |-> time_status, ready |-> RingReady]

\* The loop knows of every change it has not rendered.
ScreenInv ==
  /\ stale => state_changed /\ step # "encoder"
  /\ ~stale => rendered = Current

\* What the widgets owe to the status rendered last.
RingInv ==
  /\ rendered.ready => ring = "accent" \/ (ring = "highlight" /\ "pulse" \in anims)
  /\ ~rendered.ready => ring = "desaturated" \/ overtaken

WidgetInv ==
  /\ RingInv
  /\ "highlight" \in anims <=> rendered.dispense = "Dispensing"
  /\ "sweep" \in anims <=> rendered.time = "Syncing" /\ "time" \notin at_boot
  /\ "halo" \in anims <=> rendered.connection = "Connecting" /\ "connection" \notin at_boot

\* A pour is lit and counted as activity, but for the rest of the pass in which it
\* begins: it is not over before that pass ends.
PourCounted ==
  dispense_status \in {"Dispensing", "Stopping", "Finished"} =>
    \/ backlight_on /\ ~inactive
    \/ step = "tick" /\ dispense_status = "Dispensing" /\ ~status_over

\* A step that reports what it changes.
LEMMA Observed ==
  ASSUME ScreenInv, NEW changed \in BOOLEAN, Observe(changed), step' # "encoder",
         Shown' = Shown \/ changed
  PROVE  ScreenInv'
<1>1. UNCHANGED <<rendered, time_status>>
  BY DEF Observe, uiVars
<1>2. Shown' = Shown => UNCHANGED Current
  BY DEF Shown, Current, RingReady
<1> QED BY <1>1, <1>2 DEF ScreenInv, Observe

\* Every step but the last of a pass leaves rendering to it.
LEMMA PassObserved ==
  ASSUME TypeOK, ScreenInv, Encoder \/ Api \/ PollClient
  PROVE  ScreenInv' /\ UNCHANGED <<uiVars, backlight_on, inactive>> /\ step' # "encoder"
<1>1. step' # "encoder" /\ UNCHANGED <<uiVars, backlight_on, inactive>>
  BY DEF Encoder, Api, PollClient, ShortPress, Rotate, NoRequest, ApiDispense, ApiStop,
       PollEvent, PollNotification, EventsDrained, MaybeStartIdentityProbe, Observe,
       NotificationsDrained, ProcessIdentityProbeOutcome, HandleCommandOutcome, uiVars
<1>2. CASE Encoder
  <2>1. step = "encoder"
    BY <1>2 DEF Encoder, ShortPress, Rotate
  <2>2. CASE NoRequest /\ Observe(FALSE)
    BY <1>1, <2>2, Observed DEF NoRequest, Observe, controllerVars, Shown
  <2>3. CASE /\ state_changed' = TRUE /\ UNCHANGED <<time_status, uiVars>>
             /\ stale' = (Shown' # Shown)
    <3>1. Shown' = Shown => UNCHANGED Current
      BY DEF Shown, Current, RingReady
    <3> QED BY <1>1, <2>1, <2>3, <3>1 DEF ScreenInv, uiVars
  <2> QED BY <1>2, <2>2, <2>3 DEF Encoder
<1>3. CASE Api
  BY <1>1, <1>3, Observed DEF Api, NoRequest, Observe, controllerVars, Shown
<1>4. CASE PollEvent /\ Observe(PollReturns)
  <2>1. PollReturns \in BOOLEAN
    BY DEF PollReturns
  <2> QED BY <1>1, <1>4, <2>1, HandlersReport, Observed DEF Observe
<1>5. CASE HandleCommandOutcome /\ Observe(OutcomeReturns)
  <2>1. OutcomeReturns \in BOOLEAN
    BY DEF OutcomeReturns
  <2> QED BY <1>1, <1>5, <2>1, HandlersReport, Observed DEF Observe
<1>6. CASE PollNotification /\ Observe(TRUE)
  BY <1>1, <1>6, Observed
<1>7. CASE /\ EventsDrained \/ MaybeStartIdentityProbe \/ NotificationsDrained
                \/ ProcessIdentityProbeOutcome
           /\ Observe(FALSE)
  BY <1>1, <1>7, Observed DEF EventsDrained, MaybeStartIdentityProbe, NotificationsDrained,
       ProcessIdentityProbeOutcome, Observe, controllerVars, Shown
<1> QED BY <1>1, <1>2, <1>3, <1>4, <1>5, <1>6, <1>7 DEF PollClient

\* A pour that is rendered starts on a ready ring.
LEMMA PourIsReady ==
  ASSUME EndOfPass, PourNeedsLink', PourStarts PROVE RingReady'
<1>1. connection_status' = "Ready" /\ time_valid'
  BY DEF PourStarts, PourNeedsLink
<1>2. time_status' = "Available"
  <2>1. time_valid
    BY <1>1 DEF EndOfPass, Tick
  <2> QED BY <2>1 DEF EndOfPass, NextTimeStatus
<1> QED BY <1>1, <1>2 DEF PourStarts, RingReady

\* The pass ends with a screen that is up to date, and with widgets that fit what
\* was rendered.
LEMMA PassRendered ==
  ASSUME TypeOK, PourNeedsLink', ScreenInv, WidgetInv, EndOfPass
  PROVE  ScreenInv' /\ WidgetInv'
<1>1. CASE state_changed \/ time_status' # time_status \/ TickReturns
  <2>1. Render /\ stale' = FALSE
    BY <1>1 DEF EndOfPass
  <2>2. rendered' = Current'
    BY <2>1 DEF Render, Current
  <2>3. RingInv'
    <3>1. rendered'.ready = RingReady' /\ ring' = RingColour
          /\ overtaken' = (overtaken /\ RingReady' = rendered.ready)
      BY <2>1 DEF Render
    <3>2. "pulse" \in anims' <=> PourStarts \/ "pulse" \in anims
      BY <2>1 DEF Render, AnimationsRun
    <3>3. CASE PourStarts
      BY <3>1, <3>2, <3>3, PourIsReady DEF RingInv, RingColour
    <3>4. CASE ~PourStarts /\ RingReady' = rendered.ready
      BY <3>1, <3>2, <3>4 DEF RingInv, RingColour, WidgetInv
    <3>5. CASE ~PourStarts /\ RingReady' # rendered.ready
      BY <3>1, <3>5 DEF RingInv, RingColour
    <3> QED BY <3>3, <3>4, <3>5
  <2>4. ("highlight" \in anims <=> rendered.dispense = "Dispensing")'
    BY <2>1 DEF Render, AnimationsRun, WidgetInv
  <2>5. ("sweep" \in anims <=> rendered.time = "Syncing" /\ "time" \notin at_boot)'
    BY <2>1 DEF Render, AnimationsRun, WidgetInv
  <2>6. ("halo" \in anims <=>
           rendered.connection = "Connecting" /\ "connection" \notin at_boot)'
    BY <2>1 DEF Render, AnimationsRun, WidgetInv
  <2> QED BY <2>1, <2>2, <2>3, <2>4, <2>5, <2>6 DEF ScreenInv, WidgetInv
<1>2. CASE ~(state_changed \/ time_status' # time_status \/ TickReturns)
  <2>1. UNCHANGED uiVars /\ stale' = (stale \/ Shown' # Shown) /\ Tick
    BY <1>2 DEF EndOfPass
  <2>2. Shown' = Shown
    BY <1>2, <2>1, TickReports
  <2>3. UNCHANGED Current /\ ~stale /\ ~stale'
    BY <1>2, <2>1, <2>2 DEF ScreenInv, Shown, Current, RingReady
  <2> QED BY <2>1, <2>3 DEF ScreenInv, WidgetInv, RingInv, uiVars
<1> QED BY <1>1, <1>2

\* Every step keeps the screen.
LEMMA ScreenInvStep ==
  TypeOK /\ PourNeedsLink' /\ ScreenInv /\ WidgetInv /\ [ScreenNext]_<<vars, screenVars>>
    => ScreenInv' /\ WidgetInv'
<1> SUFFICES ASSUME TypeOK, PourNeedsLink', ScreenInv, WidgetInv,
                    [ScreenNext]_<<vars, screenVars>>
             PROVE  ScreenInv' /\ WidgetInv'
  OBVIOUS
<1>1. CASE Encoder \/ Api \/ PollClient
  BY <1>1, PassObserved DEF WidgetInv, RingInv, uiVars
<1>2. CASE EndOfPass
  BY <1>2, PassRendered
<1>3. CASE PulseEnds
  BY <1>3 DEF PulseEnds, ScreenInv, WidgetInv, RingInv, Current, RingReady, vars,
       controllerVars
<1>4. CASE MinuteElapses
  BY <1>4 DEF MinuteElapses, ScreenInv, WidgetInv, RingInv, Current, RingReady, vars,
       controllerVars, uiVars
<1>5. CASE AroundApp
  BY <1>5, SurroundingsDontShow DEF AroundApp, ScreenInv, WidgetInv, RingInv, Current,
       RingReady, Shown, screenVars, uiVars
<1>6. CASE UNCHANGED <<vars, screenVars>>
  BY <1>6 DEF ScreenInv, WidgetInv, RingInv, Current, RingReady, vars,
       controllerVars, screenVars, uiVars
<1> QED BY <1>1, <1>2, <1>3, <1>4, <1>5, <1>6 DEF ScreenNext

\* Within a pass a pour can begin, and can then be shown as stopping or be gone.
LEMMA PourCountedInPass ==
  ASSUME PourCounted, Encoder \/ Api \/ PollClient,
         UNCHANGED <<backlight_on, inactive>>
  PROVE  PourCounted'
<1>1. CASE HandleCommandOutcome
  BY <1>1 DEF HandleCommandOutcome, DispenseAccepted, DispenseRejected, StopAccepted,
       StopRejected, PourCounted
<1>2. CASE PollEvent
  BY <1>2 DEF PollEvent, HandleConnectionLost, HandleDeviceFound, HandleProgress, PourCounted
<1>3. CASE ShortPress \/ ApiDispense \/ ApiStop
  BY <1>3 DEF ShortPress, ApiDispense, ApiStop, RequestDispense, RequestStop, PourCounted
<1>4. CASE ~HandleCommandOutcome /\ ~PollEvent /\ ~(ShortPress \/ ApiDispense \/ ApiStop)
  BY <1>4 DEF Encoder, Api, PollClient, NoRequest, Rotate, EventsDrained, PollNotification,
       MaybeStartIdentityProbe, NotificationsDrained, ProcessIdentityProbeOutcome,
       controllerVars, PourCounted
<1> QED BY <1>1, <1>2, <1>3, <1>4

\* The end of a pass counts the pour, and leaves the checkmark what it had.
LEMMA PourCountedAtEnd ==
  ASSUME PourCounted, EndOfPass PROVE PourCounted'
<1>1. dispense_status' \in {"Dispensing", "Stopping"} => backlight_on' /\ ~inactive'
  BY DEF EndOfPass, Backlight
<1>2. ASSUME dispense_status' = "Finished" PROVE backlight_on' /\ ~inactive'
  <2>1. backlight_on /\ ~inactive
    BY <1>2 DEF EndOfPass, Tick, TickSession, TickHold, PourOver, PourCounted
  <2> QED BY <2>1 DEF EndOfPass, Backlight
<1> QED BY <1>1, <1>2 DEF PourCounted

\* Every step counts the pour.
LEMMA PourCountedStep ==
  TypeOK /\ ScreenInv /\ ScreenInv' /\ PourCounted /\ PourIsLit /\ [ScreenNext]_<<vars, screenVars>>
    => PourCounted' /\ PourIsLit'
<1> SUFFICES ASSUME TypeOK, ScreenInv, ScreenInv', PourCounted, PourIsLit,
                    [ScreenNext]_<<vars, screenVars>>
             PROVE  PourCounted' /\ PourIsLit'
  OBVIOUS
<1>1. CASE Encoder \/ Api \/ PollClient
  BY <1>1, PassObserved, PourCountedInPass DEF PourIsLit, uiVars
<1>2. CASE EndOfPass
  <2>1. PourCounted'
    BY <1>2, PourCountedAtEnd
  <2>2. step' = "encoder"
    BY <1>2 DEF EndOfPass, Tick
  <2>3. rendered'.dispense = dispense_status'
    BY <2>2 DEF ScreenInv, Current
  <2> QED BY <2>1, <2>2, <2>3 DEF PourCounted, PourIsLit
<1>3. CASE MinuteElapses
  BY <1>3 DEF MinuteElapses, PourCounted, PourIsLit, vars, controllerVars, uiVars
<1>4. CASE AroundApp
  <2>1. UNCHANGED <<dispense_status, step, backlight_on, inactive, rendered>>
    BY <1>4, SurroundingsDontShow DEF AroundApp, Shown, screenVars, uiVars
  <2> QED BY <1>4, <2>1 DEF AroundApp, PourCounted, PourIsLit
<1>5. CASE PulseEnds \/ UNCHANGED <<vars, screenVars>>
  BY <1>5 DEF PulseEnds, PourCounted, PourIsLit, vars, controllerVars, screenVars, uiVars
<1> QED BY <1>1, <1>2, <1>3, <1>4, <1>5 DEF ScreenNext

\* All that is known of the screen.
LEMMA ScreenCorrect == ScreenSpec => [](ScreenInv /\ WidgetInv /\ PourCounted /\ PourIsLit)
<1>1. ScreenInit => ScreenInv /\ WidgetInv /\ PourCounted /\ PourIsLit
  <2>1. ScreenInit => RingReady = FALSE
    BY DEF ScreenInit, Init, RingReady
  <2>2. ScreenInit => rendered = Current
    BY <2>1 DEF ScreenInit, Init, Current
  <2> QED BY <2>2 DEF ScreenInit, Init, ScreenInv, WidgetInv, RingInv, PourCounted, PourIsLit
<1> QED BY <1>1, ScreenInvStep, PourCountedStep, ScreenRunsApp, TypeCorrect, PourHasLink, PTL
        DEF ScreenSpec

\* Between two passes the screen shows the state as it is: no handler changes
\* what is shown without saying so.
THEOREM ScreenCurrent == ScreenSpec => []ScreenIsCurrent
<1>1. ScreenInv => ScreenIsCurrent
  BY DEF ScreenInv, ScreenIsCurrent
<1> QED BY <1>1, ScreenCorrect, PTL

\* A pour is lit from its first picture to its checkmark, however it was started:
\* its passes count as activity and the checkmark lives on that (last_activity_us).
THEOREM StaysLit == ScreenSpec => []PourIsLit
  BY ScreenCorrect, PTL

\* Animations and ring fit the statuses they belong to, but for what the dial has
\* shown since boot and for a pulse that ends late (UiManager::Render's trackers).
THEOREM WidgetsFitState == ScreenSpec => []WidgetsFit
<1>1. ScreenInv /\ WidgetInv => WidgetsFit
  BY DEF ScreenInv, WidgetInv, RingInv, WidgetsFit, Current
<1> QED BY <1>1, ScreenCorrect, PTL
================================================================================
