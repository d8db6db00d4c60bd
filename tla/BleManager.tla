------------------------------ MODULE BleManager ------------------------------
(***************************************************************************)
(* The BLE connection lifecycle of the dial: class BleManager, whose       *)
(* members are touched by one task only, NimBLE's host task.               *)
(*                                                                         *)
(* The first group of variables is BleManager's own state, named as in     *)
(* ble_manager.hpp.  The second group is external: what NimBLE and the     *)
(* radio are doing on its behalf.  NimBLE calls back on the host task, so  *)
(* one callback is one action.  The esp_timer task and the app task only   *)
(* post wake-up events and fill queues.                                    *)
(***************************************************************************)
EXTENDS Integers, Sequences, FiniteSets

CONSTANTS
  Handles,         \* connection handles the controller can hand out
  Addresses,       \* peers advertising the Grohe service UUID
  None,            \* BLE_HS_CONN_HANDLE_NONE, or no address
  MaxServices,     \* kMaxServices: 8 in the code
  MaxBackoff,      \* kNumBackoffDelays: 3 in the code
  EventDepth,      \* kEventQueueDepth: 8 in the code
  CharDepth,       \* kCharacteristicQueueDepth: 16 in the code
  CommandDepth,    \* kCommandQueueDepth: 2 in the code
  RejectCapacity,  \* kRejectedAddressCapacity: 4 in the code
  AppCommands,     \* what the app task asks for: a subset of AppCommandKinds
  FaultKinds,      \* what may go wrong: a subset of Calls and Mishaps
  MaxFaults        \* how often, in all

AppCommandKinds == {"Write", "Set", "Clear", "Reject"}

\* NimBLE calls that may be refused for lack of resources.
Calls == {"addr", "disc", "cancel", "connect", "mtu", "svcs", "chrs", "dscs",
          "cccd", "write"}

\* What the radio and the peer may do: a host reset, a link that drops, an
\* attempt that fails, one the controller repeats, a GATT error status.
Mishaps == {"reset", "loss", "noLink", "reattempt", "gatt"}

ASSUME BleAssumption ==
  /\ None \notin Handles /\ None \notin Addresses
  /\ IsFiniteSet(Handles)
  /\ MaxServices \in Nat \ {0} /\ MaxBackoff \in Nat \ {0}
  /\ EventDepth \in Nat /\ CharDepth \in Nat
  /\ CommandDepth \in Nat \ {0} /\ RejectCapacity \in Nat \ {0}
  /\ AppCommands \subseteq AppCommandKinds
  /\ FaultKinds \subseteq Calls \cup Mishaps
  /\ MaxFaults \in Nat

States == {"Initializing", "Idle", "Scanning", "Connecting", "Connected",
           "DiscoveringServices", "ReadyForProtocol", "Backoff"}

EventTypes == {"HostSynced", "HostReset", "DeviceFound", "ReadyForProtocol",
               "Subscribed", "ConnectionFailed"}

GattKinds == {"mtu", "svcs", "chrs", "dscs", "cccd", "write"}

VARIABLES
  state,             \* state_
  conn,              \* conn_handle_
  deviceAddr,        \* device_addr_
  numServices,       \* num_services_
  nextService,       \* next_svc_to_disc_
  pendingSubscribe,  \* pending_subscribe_val_handle_ # 0
  searchStarted,     \* descriptor_search_started_
  subscribeStarted,  \* subscribe_started_
  backoffIndex,      \* backoff_index_
  timer,             \* backoff_timer_ is armed
  filter,            \* address_filter_, None when has_address_filter_ is false
  rejected,          \* rejected_addresses_, oldest first
  filterCommand,     \* filter_command_queue_, peeked and never emptied
  events,            \* event_queue_: the types of the queued BleEvents
  charEvents,        \* characteristic_queue_: what each entry reports
  commands,          \* number of writes in command_queue_
  putting,           \* the wake-up the app task has yet to post for what it
                     \* has already put into a queue: {}, or one of them
  posted             \* which of BleManager's npl events are in NimBLE's queue

VARIABLES
  syncPending,       \* NimBLE is going to call OnHostSync
  discActive,        \* a discovery procedure runs
  connectPending,    \* a connection attempt is under way
  live,              \* handles of links that are up
  closing,           \* live handles that BleManager asked to terminate
  procs,             \* outstanding GATT procedures, as <<kind, handle>>
  faults             \* adverse steps so far

table == <<numServices, nextService, pendingSubscribe, searchStarted,
           subscribeStarted>>
choice == <<deviceAddr, filter, rejected, filterCommand>>
retry == <<backoffIndex, timer>>
app == <<commands, putting, charEvents>>
gap == <<syncPending, discActive, connectPending, live>>

vars == <<state, conn, table, choice, retry, app, events, posted, gap,
          closing, procs, faults>>

FilterCommands == [kind : {"Empty", "Set", "Clear", "Reject"},
                   addr : Addresses \cup {None}]

MachineType ==
  /\ state \in States
  /\ conn \in Handles \cup {None}
  /\ numServices \in 0 .. MaxServices
  /\ nextService \in Nat
  /\ pendingSubscribe \in BOOLEAN
  /\ searchStarted \in BOOLEAN
  /\ subscribeStarted \in BOOLEAN
  /\ backoffIndex \in 0 .. MaxBackoff
  /\ timer \in BOOLEAN
  /\ commands \in 0 .. CommandDepth
  /\ events \in Seq(EventTypes) /\ Len(events) <= EventDepth

ChoiceType ==
  /\ deviceAddr \in Addresses \cup {None}
  /\ filter \in Addresses \cup {None}
  /\ rejected \in Seq(Addresses) /\ Len(rejected) <= RejectCapacity
  /\ filterCommand \in FilterCommands

AppType ==
  /\ charEvents \in Seq({"Found", "Notification"}) /\ Len(charEvents) <= CharDepth
  /\ putting \subseteq {"command", "filter"}
  /\ posted \subseteq {"command", "reconnect", "filter"}

GapType ==
  /\ syncPending \in BOOLEAN
  /\ discActive \in BOOLEAN
  /\ connectPending \in BOOLEAN
  /\ live \subseteq Handles
  /\ closing \subseteq live
  /\ procs \subseteq GattKinds \X Handles
  /\ faults \in 0 .. MaxFaults

TypeOK == MachineType /\ ChoiceType /\ AppType /\ GapType

Init ==
  /\ state = "Initializing"
  /\ conn = None
  /\ deviceAddr = None
  /\ numServices = 0 /\ nextService = 0
  /\ pendingSubscribe = FALSE /\ searchStarted = FALSE /\ subscribeStarted = FALSE
  /\ backoffIndex = 0 /\ timer = FALSE
  /\ filter = None /\ rejected = <<>>
  /\ filterCommand = [kind |-> "Empty", addr |-> None]
  /\ events = <<>> /\ charEvents = <<>>
  /\ commands = 0 /\ putting = {} /\ posted = {}
  /\ syncPending = TRUE /\ discActive = FALSE /\ connectPending = FALSE
  /\ live = {} /\ closing = {} /\ procs = {} /\ faults = 0

-----------------------------------------------------------------------------
(* Queues: a full queue drops what is offered to it.                        *)

Offer(queue, depth, item) ==
  IF Len(queue) < depth THEN Append(queue, item) ELSE queue

Enqueue(queue, type) == Offer(queue, EventDepth, type)

EnqueueCharacteristic(kind) ==
  charEvents' = Offer(charEvents, CharDepth, kind)

-----------------------------------------------------------------------------
(* The environment's faults.                                                *)

Fault(kind) ==
  /\ kind \in FaultKinds
  /\ faults < MaxFaults
  /\ faults' = faults + 1

-----------------------------------------------------------------------------
(* Failure and retry.                                                       *)

ResetTable ==
  /\ numServices' = 0 /\ nextService' = 0
  /\ pendingSubscribe' = FALSE /\ searchStarted' = FALSE
  /\ subscribeStarted' = FALSE

\* Seeded bug: the index runs past kNumBackoffDelays.
ScheduleReconnectUnclamped ==
  /\ backoffIndex' = backoffIndex + 1
  /\ timer' = TRUE
  /\ state' = "Backoff"

\* Seeded bug: kBackoff is entered and the timer forgotten.
ScheduleReconnectUnarmed ==
  /\ backoffIndex' = IF backoffIndex < MaxBackoff THEN backoffIndex + 1
                                                  ELSE backoffIndex
  /\ timer' = timer
  /\ state' = "Backoff"

\* Arming an armed esp_timer is refused and leaves it running.
ScheduleReconnect ==
  /\ backoffIndex' = IF backoffIndex < MaxBackoff THEN backoffIndex + 1
                                                  ELSE backoffIndex
  /\ timer' = TRUE
  /\ state' = "Backoff"

Terminate(handle, links) == closing \cup ({handle} \cap links)

\* Seeded bug: conn_handle_ survives the connection.
EndConnectionKeepingHandle(queue) ==
  /\ closing' = Terminate(conn, live)
  /\ conn' = conn
  /\ commands' = 0
  /\ events' = Enqueue(queue, "ConnectionFailed")

\* Seeded bug: the failure is not reported.
EndConnectionUnreported(queue) ==
  /\ closing' = Terminate(conn, live)
  /\ conn' = None
  /\ commands' = 0
  /\ events' = queue

\* queue: the event queue as the handler left it before failing.
EndConnection(queue) ==
  /\ closing' = Terminate(conn, live)
  /\ conn' = None
  /\ commands' = 0
  /\ events' = Enqueue(queue, "ConnectionFailed")

FailConnection(queue) ==
  /\ EndConnection(queue)
  /\ ResetTable
  /\ ScheduleReconnect

StartScan ==
  /\ ~discActive /\ ~connectPending
  /\ discActive' = TRUE
  /\ state' = "Scanning"
  /\ UNCHANGED faults

StartScanRefused ==
  \/ (discActive \/ connectPending) /\ UNCHANGED faults
  \/ Fault("disc")

OnBackoffTimer ==
  /\ timer
  /\ timer' = FALSE
  /\ posted' = posted \cup {"reconnect"}
  /\ UNCHANGED <<state, conn, table, choice, backoffIndex, app, events, gap,
                 closing, procs, faults>>

\* Seeded bug: a scan refused on retry is logged and not retried.
HandleReconnectEventOnce ==
  /\ "reconnect" \in posted
  /\ posted' = posted \ {"reconnect"}
  /\ \/ /\ state # "Backoff"
        /\ UNCHANGED <<state, discActive, faults>>
     \/ state = "Backoff" /\ StartScan
     \/ state = "Backoff" /\ StartScanRefused /\ UNCHANGED <<state, discActive>>
  /\ UNCHANGED <<conn, table, retry, commands, events, closing, choice, putting,
                 charEvents, syncPending, connectPending, live, procs>>

HandleReconnectEvent ==
  /\ "reconnect" \in posted
  /\ posted' = posted \ {"reconnect"}
  /\ \/ /\ state # "Backoff"
        /\ UNCHANGED <<state, conn, table, retry, commands, events, discActive,
                       closing, faults>>
     \/ /\ state = "Backoff"
        /\ StartScan
        /\ UNCHANGED <<conn, table, retry, commands, events, closing>>
     \/ /\ state = "Backoff"
        /\ StartScanRefused
        /\ FailConnection(events)
        /\ UNCHANGED discActive
  /\ UNCHANGED <<choice, putting, charEvents, syncPending, connectPending, live,
                 procs>>

-----------------------------------------------------------------------------
(* Host start, host reset.                                                  *)

\* When the address or the scan is refused nothing is retried: the state
\* machine stays put until the next host reset.
OnHostSync ==
  /\ syncPending
  /\ syncPending' = FALSE
  /\ \/ /\ Fault("addr")
        /\ UNCHANGED <<state, discActive, events>>
     \/ /\ events' = Enqueue(events, "HostSynced")
        /\ \/ StartScan
           \/ StartScanRefused /\ UNCHANGED <<state, discActive>>
  /\ UNCHANGED <<conn, table, choice, retry, app, posted, connectPending, live,
                 closing, procs>>

\* NimBLE first ends every link, connection attempt and scan, through the
\* callbacks that report them, and calls reset_cb last.
OnHostReset ==
  LET ended == (IF conn # None THEN 1 ELSE 0) + (IF connectPending THEN 1 ELSE 0)
      one == Enqueue(events, "ConnectionFailed")
      two == Enqueue(one, "ConnectionFailed")
  IN
  /\ Fault("reset")
  /\ ~syncPending
  /\ IF ended = 0
       THEN /\ events' = Enqueue(events, "HostReset")
            /\ UNCHANGED <<conn, table, commands, retry>>
       ELSE /\ conn' = None
            /\ ResetTable
            /\ commands' = 0
            /\ backoffIndex' = IF backoffIndex + ended < MaxBackoff
                                 THEN backoffIndex + ended ELSE MaxBackoff
            /\ timer' = TRUE
            /\ events' = Enqueue(IF ended = 1 THEN one ELSE two, "HostReset")
  /\ state' = "Idle"
  /\ syncPending' = TRUE
  /\ discActive' = FALSE /\ connectPending' = FALSE
  /\ live' = {} /\ closing' = {} /\ procs' = {}
  /\ UNCHANGED <<choice, putting, charEvents, posted>>

-----------------------------------------------------------------------------
(* Finding the appliance and connecting to it.                              *)

IsRejectedAddress(a) == \E i \in 1 .. Len(rejected) : rejected[i] = a

\* Seeded bug: the reject list is not consulted.
SelectableUnlessFiltered(a) == filter # None => a = filter

Selectable(a) ==
  IF filter # None THEN a = filter ELSE ~IsRejectedAddress(a)

\* Reports that arrive in any other state are ignored.  A scan that could
\* not be cancelled still runs, and makes ble_gap_connect fail.
HandleDiscReport(a) ==
  /\ discActive
  /\ state = "Scanning"
  /\ Selectable(a)
  /\ deviceAddr' = a
  /\ \/ /\ discActive' = FALSE
        /\ connectPending' = TRUE
        /\ state' = "Connecting"
        /\ events' = Enqueue(events, "DeviceFound")
        /\ UNCHANGED <<conn, table, retry, commands, closing, faults>>
     \/ /\ \/ Fault("connect") /\ discActive' = FALSE
           \/ Fault("cancel") /\ discActive' = TRUE
        /\ FailConnection(Enqueue(events, "DeviceFound"))
        /\ UNCHANGED connectPending
  /\ UNCHANGED <<filter, rejected, filterCommand, putting, charEvents, posted,
                 syncPending, live, procs>>

\* Not guarded by state_: the controller's own reattempt reports here too.  If the
\* exchange and the discovery are both refused it is for one reason, so one fault.
HandleConnect(h) ==
  /\ connectPending
  /\ connectPending' = FALSE
  /\ h \notin live /\ \A p \in procs : p[2] # h
  /\ live' = live \cup {h}
  /\ \/ /\ conn' = h /\ ResetTable
        /\ \/ /\ state' = "Connected"
              /\ procs' = procs \cup {<<"mtu", h>>}
              /\ UNCHANGED faults
           \/ /\ Fault("mtu")
              /\ state' = "DiscoveringServices"
              /\ procs' = procs \cup {<<"svcs", h>>}
        /\ UNCHANGED <<retry, commands, events, closing>>
     \/ /\ "mtu" \in FaultKinds /\ Fault("svcs")
        /\ conn' = None /\ ResetTable
        /\ closing' = closing \cup {h}
        /\ commands' = 0
        /\ events' = Enqueue(events, "ConnectionFailed")
        /\ ScheduleReconnect
        /\ UNCHANGED procs
  /\ UNCHANGED <<choice, putting, charEvents, posted, syncPending, discActive>>

HandleConnectFailed ==
  /\ connectPending
  /\ Fault("noLink") \/ (live = Handles /\ UNCHANGED faults)
  /\ connectPending' = FALSE
  /\ FailConnection(events)
  /\ UNCHANGED <<choice, putting, charEvents, posted, syncPending, discActive,
                 live, procs>>

\* External: the link dies right after it came up and the controller tries
\* again by itself.  The dead link's procedures still have to report.
Reattempt ==
  /\ Fault("reattempt")
  /\ state \in {"Connected", "DiscoveringServices"}
  /\ conn \in live \ closing
  /\ live' = live \ {conn}
  /\ connectPending' = TRUE
  /\ UNCHANGED <<state, conn, table, choice, retry, app, events, posted,
                 syncPending, discActive, closing, procs>>

\* A link goes down: its procedures end with BLE_HS_ENOTCONN, then DISCONNECT
\* is raised.  The first of them that concerns conn_handle_ fails the
\* connection, and what follows is stale.
HandleDisconnect(h) ==
  /\ h \in live
  /\ (h \in closing /\ UNCHANGED faults) \/ (h \notin closing /\ Fault("loss"))
  /\ live' = live \ {h}
  /\ procs' = {p \in procs : p[2] # h}
  /\ closing' = closing \ {h}
  /\ IF h = conn
       THEN /\ conn' = None /\ ResetTable /\ commands' = 0
            /\ events' = Enqueue(events, "ConnectionFailed")
            /\ ScheduleReconnect
       ELSE UNCHANGED <<state, conn, table, retry, commands, events>>
  /\ UNCHANGED <<choice, putting, charEvents, posted, syncPending, discActive,
                 connectPending>>

-----------------------------------------------------------------------------
(* GATT discovery and subscription.  A result whose handle is not           *)
(* conn_handle_ is stale and ignored.  A link that is gone answers with     *)
(* BLE_HS_ENOTCONN only, so every other result needs it to be live.         *)

GattFrame == UNCHANGED <<choice, putting, posted, gap>>

\* Seeded bug: the conn_handle_ comparison is missing.
OutstandingOnAnyLink(kind, h) == <<kind, h>> \in procs

Outstanding(kind, h) == <<kind, h>> \in procs /\ h = conn

Answers(kind, h) == Outstanding(kind, h) /\ h \in live

Without(kind, h) == procs \ {<<kind, h>>}

IgnoreStale(kind, h) ==
  /\ <<kind, h>> \in procs /\ h # conn
  /\ procs' = Without(kind, h)
  /\ UNCHANGED <<state, conn, table, retry, app, events, closing, faults>>
  /\ GattFrame

\* A result that fails the connection: an error status, or no CCCD found.
GattError(kind, h) ==
  /\ Outstanding(kind, h) /\ kind # "mtu"
  /\ (h \notin live /\ UNCHANGED faults) \/ (h \in live /\ Fault("gatt"))
  /\ procs' = Without(kind, h)
  /\ FailConnection(events)
  /\ UNCHANGED charEvents
  /\ GattFrame

\* An error of the MTU exchange is not fatal: discovery follows either way.
OnMtuResult(h) ==
  /\ Outstanding("mtu", h)
  /\ \/ /\ h \in live
        /\ procs' = Without("mtu", h) \cup {<<"svcs", h>>}
        /\ state' = "DiscoveringServices"
        /\ UNCHANGED <<conn, table, retry, commands, events, closing, faults>>
     \/ /\ (h \notin live /\ UNCHANGED faults) \/ (h \in live /\ Fault("svcs"))
        /\ procs' = Without("mtu", h)
        /\ FailConnection(events)
  /\ UNCHANGED charEvents
  /\ GattFrame

HandleService(h) ==
  /\ Answers("svcs", h)
  /\ numServices < MaxServices
  /\ numServices' = numServices + 1
  /\ UNCHANGED <<state, conn, nextService, pendingSubscribe, searchStarted,
                 subscribeStarted, retry, app, events, closing, procs, faults>>
  /\ GattFrame

\* next: the cursor; searching: descriptor_search_started_; ps: the procedures
\* outstanding, all as the calling handler leaves them.
DiscoverNextServiceChrs(next, searching, ps) ==
  \/ /\ next >= numServices
     /\ state' = "ReadyForProtocol"
     /\ backoffIndex' = 0
     /\ events' = Enqueue(events, "ReadyForProtocol")
     /\ nextService' = next /\ searchStarted' = searching /\ procs' = ps
     /\ UNCHANGED <<conn, numServices, pendingSubscribe, subscribeStarted, timer,
                    commands, closing, faults>>
  \/ /\ next < numServices
     /\ nextService' = next /\ searchStarted' = searching
     /\ procs' = ps \cup {<<"chrs", conn>>}
     /\ UNCHANGED <<state, conn, numServices, pendingSubscribe, subscribeStarted,
                    retry, commands, events, closing, faults>>
  \/ /\ next < numServices
     /\ Fault("chrs")
     /\ procs' = ps
     /\ FailConnection(events)

HandleServicesDone(h) ==
  /\ Answers("svcs", h)
  /\ DiscoverNextServiceChrs(nextService, searchStarted, Without("svcs", h))
  /\ UNCHANGED charEvents
  /\ GattFrame

\* Seeded bug: descriptor_search_started_ is tested with the wrong sign.
SearchDueInverted == pendingSubscribe /\ searchStarted

SearchDue == pendingSubscribe /\ ~searchStarted

\* A further characteristic bounds the descriptor search of the previous one.
\* A refused search fails the connection, and the handler goes on: it reports
\* the characteristic and, on the cleared table, may mark it for subscription.
HandleCharacteristic(h, isReadChar) ==
  LET subscribing == isReadChar /\ ~subscribeStarted
  IN
  /\ Answers("chrs", h)
  /\ EnqueueCharacteristic("Found")
  /\ \/ /\ pendingSubscribe' = (pendingSubscribe \/ subscribing)
        /\ searchStarted' = ((searchStarted \/ SearchDue) /\ ~subscribing)
        /\ subscribeStarted' = (subscribeStarted \/ subscribing)
        /\ procs' = IF SearchDue THEN procs \cup {<<"dscs", h>>} ELSE procs
        /\ UNCHANGED <<state, conn, numServices, nextService, retry, commands,
                       events, closing, faults>>
     \/ /\ SearchDue /\ Fault("dscs")
        /\ EndConnection(events)
        /\ ScheduleReconnect
        /\ numServices' = 0 /\ nextService' = 0 /\ searchStarted' = FALSE
        /\ pendingSubscribe' = isReadChar /\ subscribeStarted' = isReadChar
        /\ UNCHANGED procs
  /\ GattFrame

\* HandleChrDisc's EDONE branch when StartDescriptorDiscovery has just failed
\* the connection: it goes on with the cursor and the table FailConnection
\* cleared, finds nothing left to discover, and reports itself ready.
FailThenReady(ps) ==
  /\ closing' = Terminate(conn, live)
  /\ conn' = None
  /\ commands' = 0
  /\ events' = Enqueue(Enqueue(events, "ConnectionFailed"), "ReadyForProtocol")
  /\ numServices' = 0 /\ nextService' = 1
  /\ pendingSubscribe' = FALSE /\ searchStarted' = FALSE
  /\ subscribeStarted' = FALSE
  /\ backoffIndex' = 0
  /\ timer' = TRUE
  /\ state' = "ReadyForProtocol"
  /\ procs' = ps

HandleCharacteristicsDone(h) ==
  LET left == Without("chrs", h)
  IN
  /\ Answers("chrs", h)
  /\ \/ /\ ~SearchDue
        /\ DiscoverNextServiceChrs(nextService + 1, searchStarted, left)
     \/ /\ SearchDue
        /\ DiscoverNextServiceChrs(nextService + 1, TRUE,
                                   left \cup {<<"dscs", h>>})
     \/ /\ SearchDue /\ Fault("dscs")
        /\ FailThenReady(left)
  /\ UNCHANGED charEvents
  /\ GattFrame

\* The CCCD turned up: stop waiting for it and write it.  The search itself
\* goes on to its end.
HandleCccd(h) ==
  /\ Answers("dscs", h)
  /\ pendingSubscribe
  /\ \/ /\ pendingSubscribe' = FALSE
        /\ procs' = procs \cup {<<"cccd", h>>}
        /\ UNCHANGED <<state, conn, numServices, nextService, searchStarted,
                       subscribeStarted, retry, commands, events, closing, faults>>
     \/ /\ Fault("cccd")
        /\ FailConnection(events)
        /\ UNCHANGED procs
  /\ UNCHANGED charEvents
  /\ GattFrame

\* Reaching the end without a CCCD is the error case, GattError.
HandleDescriptorsDone(h) ==
  /\ Answers("dscs", h)
  /\ ~pendingSubscribe
  /\ procs' = Without("dscs", h)
  /\ UNCHANGED <<state, conn, table, retry, app, events, closing, faults>>
  /\ GattFrame

HandleSubscribeWrite(h) ==
  /\ Answers("cccd", h)
  /\ procs' = Without("cccd", h)
  /\ events' = Enqueue(events, "Subscribed")
  /\ UNCHANGED <<state, conn, table, retry, app, closing, faults>>
  /\ GattFrame

HandleNotifyRx(h) ==
  /\ h \in live /\ h = conn
  /\ EnqueueCharacteristic("Notification")
  /\ UNCHANGED <<state, conn, table, retry, commands, events, closing, procs,
                 faults>>
  /\ GattFrame

-----------------------------------------------------------------------------
(* Requests of the app task.                                                *)

AppFrame == UNCHANGED <<state, conn, table, deviceAddr, filter, rejected, retry,
                        gap, closing, procs, faults>>

WriteCharacteristic ==
  /\ "Write" \in AppCommands
  /\ putting = {}
  /\ commands < CommandDepth
  /\ commands' = commands + 1
  /\ putting' = {"command"}
  /\ UNCHANGED <<filterCommand, charEvents, events, posted>>
  /\ AppFrame

\* SetAddressFilter, ClearAddressFilter, RejectCurrentPeerAndKeepScanning:
\* the slot of depth one is overwritten before the wake-up is posted.
QueueFilterCommand(kind, a) ==
  /\ kind \in AppCommands \ {"Write"}
  /\ putting = {}
  /\ (a # None) <=> (kind = "Set")
  /\ filterCommand' = [kind |-> kind, addr |-> a]
  /\ putting' = {"filter"}
  /\ UNCHANGED <<commands, charEvents, events, posted>>
  /\ AppFrame

\* ble_npl_eventq_put: an event already in NimBLE's queue is not put again.
PutEvent ==
  /\ putting # {}
  /\ posted' = posted \cup putting
  /\ putting' = {}
  /\ UNCHANGED <<filterCommand, commands, charEvents, events>>
  /\ AppFrame

PollEvents ==
  /\ putting = {}
  /\ events # <<>>
  /\ events' = <<>>
  /\ UNCHANGED <<filterCommand, app, posted>>
  /\ AppFrame

PollCharacteristicEvents ==
  /\ putting = {}
  /\ charEvents # <<>>
  /\ charEvents' = <<>>
  /\ UNCHANGED <<filterCommand, commands, putting, events, posted>>
  /\ AppFrame

\* Seeded bug: without a connection the handler returns before draining.
HandleCommandEventEarlyReturn ==
  /\ "command" \in posted
  /\ posted' = posted \ {"command"}
  /\ \/ /\ conn = None
        /\ UNCHANGED <<commands, procs>>
     \/ /\ conn # None
        /\ commands' = 0
        /\ procs' = procs \cup {<<"write", conn>> : n \in 1 .. commands}
  /\ UNCHANGED <<state, conn, table, retry, events, closing, faults, choice,
                 putting, charEvents, gap>>

\* The whole queue is drained.  Without a connection the writes are dropped; a
\* refused write fails the connection, and with it the writes still queued.
HandleCommandEvent ==
  /\ "command" \in posted
  /\ posted' = posted \ {"command"}
  /\ \/ /\ conn = None \/ commands = 0
        /\ commands' = 0
        /\ UNCHANGED <<state, conn, table, retry, events, closing, procs, faults>>
     \/ /\ conn \in live /\ commands > 0
        /\ commands' = 0
        /\ procs' = procs \cup {<<"write", conn>>}
        /\ UNCHANGED <<state, conn, table, retry, events, closing, faults>>
     \/ /\ conn # None /\ commands > 0
        /\ (conn \notin live /\ UNCHANGED faults)
             \/ (conn \in live /\ Fault("write"))
        /\ \/ UNCHANGED procs
           \/ conn \in live /\ commands > 1 /\ procs' = procs \cup {<<"write", conn>>}
        /\ FailConnection(events)
  /\ UNCHANGED <<choice, putting, charEvents, gap>>

HandleWriteResult(h) ==
  /\ Answers("write", h)
  /\ procs' = Without("write", h)
  /\ UNCHANGED <<state, conn, table, retry, app, events, closing, faults>>
  /\ GattFrame

\* A full list forgets its oldest entry.
RememberRejectedAddress(a) ==
  IF IsRejectedAddress(a) THEN rejected
  ELSE IF Len(rejected) < RejectCapacity THEN Append(rejected, a)
  ELSE Append(Tail(rejected), a)

HandleFilterCommandEvent ==
  /\ "filter" \in posted
  /\ posted' = posted \ {"filter"}
  /\ \/ /\ filterCommand.kind \in {"Set", "Clear"}
        /\ filter' = filterCommand.addr
        /\ UNCHANGED <<rejected, closing>>
     \/ /\ filterCommand.kind = "Reject"
        /\ IF state \in {"Connected", "DiscoveringServices", "ReadyForProtocol"}
             THEN /\ rejected' = RememberRejectedAddress(deviceAddr)
                  /\ closing' = Terminate(conn, live)
             ELSE UNCHANGED <<rejected, closing>>
        /\ UNCHANGED filter
  /\ UNCHANGED <<state, conn, table, deviceAddr, filterCommand, retry, app,
                 events, gap, procs, faults>>

-----------------------------------------------------------------------------
GattResult ==
  \E h \in Handles :
    \/ \E kind \in GattKinds : IgnoreStale(kind, h) \/ GattError(kind, h)
    \/ OnMtuResult(h)
    \/ HandleService(h)
    \/ HandleServicesDone(h)
    \/ \E isReadChar \in BOOLEAN : HandleCharacteristic(h, isReadChar)
    \/ HandleCharacteristicsDone(h)
    \/ HandleCccd(h)
    \/ HandleDescriptorsDone(h)
    \/ HandleSubscribeWrite(h)
    \/ HandleWriteResult(h)

AppTask ==
  \/ WriteCharacteristic \/ PutEvent
  \/ PollEvents \/ PollCharacteristicEvents
  \/ \E kind \in AppCommandKinds, a \in Addresses \cup {None} :
       QueueFilterCommand(kind, a)

HostEvent ==
  \/ HandleReconnectEvent \/ HandleCommandEvent \/ HandleFilterCommandEvent

Gap ==
  \/ \E a \in Addresses : HandleDiscReport(a)
  \/ \E h \in Handles :
       HandleConnect(h) \/ HandleDisconnect(h) \/ HandleNotifyRx(h)
  \/ HandleConnectFailed
  \/ Reattempt

Next ==
  \/ OnHostSync \/ OnHostReset
  \/ OnBackoffTimer
  \/ HostEvent
  \/ Gap
  \/ GattResult
  \/ AppTask

Spec == Init /\ [][Next]_vars
=============================================================================
