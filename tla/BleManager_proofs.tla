-------------------------- MODULE BleManager_proofs --------------------------
(***************************************************************************)
(* Proofs about BleManager, for every number of handles, addresses, queue  *)
(* slots, services and faults; and that BleManager is, to the app task,    *)
(* the link of BleLink, unless a descriptor search is refused.             *)
(***************************************************************************)
EXTENDS BleManagerProps, TLAPS

-----------------------------------------------------------------------------
(* Lemmas about the operators the handlers are built from.                  *)

(* The bounds the type invariant mentions are numbers.                      *)
LEMMA Bounds ==
  /\ MaxServices \in Nat /\ MaxBackoff \in Nat /\ CommandDepth \in Nat
  /\ MaxFaults \in Nat /\ EventDepth \in Nat /\ CharDepth \in Nat
BY BleAssumption

(* A queue keeps its element type and its depth, whatever is offered to it. *)
LEMMA OfferType ==
  ASSUME NEW S, NEW queue \in Seq(S), NEW depth \in Nat, Len(queue) <= depth,
         NEW item \in S
  PROVE  Offer(queue, depth, item) \in Seq(S) /\ Len(Offer(queue, depth, item)) <= depth
BY DEF Offer

(* Reporting an event (Enqueue) keeps event_queue_ well formed.             *)
LEMMA EnqueueType ==
  ASSUME NEW queue \in Seq(EventTypes), Len(queue) <= EventDepth,
         NEW type \in EventTypes
  PROVE  /\ Enqueue(queue, type) \in Seq(EventTypes)
         /\ Len(Enqueue(queue, type)) <= EventDepth
BY OfferType, Bounds DEF Enqueue

(* RememberRejectedAddress keeps the list within its capacity.              *)
LEMMA RememberType ==
  ASSUME rejected \in Seq(Addresses), Len(rejected) <= RejectCapacity,
         NEW a \in Addresses
  PROVE  /\ RememberRejectedAddress(a) \in Seq(Addresses)
         /\ Len(RememberRejectedAddress(a)) <= RejectCapacity
BY BleAssumption DEF RememberRejectedAddress

(* EndConnection and ScheduleReconnect, which every failing handler runs,   *)
(* leave BleManager's own variables well formed.                            *)
LEMMA EndType ==
  ASSUME MachineType, NEW queue \in Seq(EventTypes), Len(queue) <= EventDepth,
         EndConnection(queue), ScheduleReconnect
  PROVE  /\ events' \in Seq(EventTypes) /\ Len(events') <= EventDepth
         /\ conn' \in Handles \cup {None}
         /\ commands' \in 0 .. CommandDepth
         /\ backoffIndex' \in 0 .. MaxBackoff
         /\ timer' \in BOOLEAN
         /\ state' \in States
<1>1. events' \in Seq(EventTypes) /\ Len(events') <= EventDepth
  BY EnqueueType DEF EndConnection, EventTypes
<1>2. conn' \in Handles \cup {None} /\ commands' \in 0 .. CommandDepth
  BY Bounds DEF EndConnection
<1>3. backoffIndex' \in 0 .. MaxBackoff
  BY Bounds DEF ScheduleReconnect, MachineType
<1>4. timer' \in BOOLEAN /\ state' \in States
  BY DEF ScheduleReconnect, States
<1>5. QED
  BY <1>1, <1>2, <1>3, <1>4

(* A cleared discovery table is well formed.                                *)
LEMMA ResetType ==
  ASSUME ResetTable
  PROVE  /\ numServices' \in 0 .. MaxServices /\ nextService' \in Nat
         /\ pendingSubscribe' \in BOOLEAN
         /\ searchStarted' \in BOOLEAN
         /\ subscribeStarted' \in BOOLEAN
<1>1. numServices' \in 0 .. MaxServices /\ nextService' \in Nat
  BY Bounds DEF ResetTable
<1>2. QED
  BY <1>1 DEF ResetTable

(* The same for the whole of FailConnection.                                *)
LEMMA FailType ==
  ASSUME MachineType, NEW queue \in Seq(EventTypes), Len(queue) <= EventDepth,
         FailConnection(queue)
  PROVE  MachineType'
<1>1. EndConnection(queue) /\ ResetTable /\ ScheduleReconnect
  BY DEF FailConnection
<1>2. QED
  BY <1>1, EndType, ResetType DEF MachineType

(* ble_gap_terminate is only ever asked for links that are up.              *)
LEMMA TerminateType ==
  ASSUME closing \subseteq live
  PROVE  Terminate(conn, live) \subseteq live
BY DEF Terminate

(* No step of the host task, the timer or the app task leaves BleManager's  *)
(* own variables outside their types.                                       *)
LEMMA MachineStep ==
  ASSUME TypeOK, Next
  PROVE  MachineType'
<1>. USE DEF TypeOK
<1>1. CASE UNCHANGED <<state, conn, table, retry, commands, events>>
  BY <1>1 DEF MachineType, table, retry
<1>3. CASE OnHostSync
  <2>1. events' \in Seq(EventTypes) /\ Len(events') <= EventDepth
    BY <1>3, EnqueueType DEF OnHostSync, MachineType, EventTypes
  <2>2. state' \in States
    BY <1>3 DEF OnHostSync, StartScan, MachineType, States
  <2>3. QED
    BY <1>3, <2>1, <2>2 DEF OnHostSync, MachineType, table, retry, app
<1>4. CASE OnHostReset
  <2>1. events' \in Seq(EventTypes) /\ Len(events') <= EventDepth
    BY <1>4, EnqueueType DEF OnHostReset, MachineType, EventTypes
  <2>2. /\ numServices' \in 0 .. MaxServices /\ nextService' \in Nat
        /\ commands' \in 0 .. CommandDepth
        /\ conn' \in Handles \cup {None}
    BY <1>4, Bounds DEF OnHostReset, MachineType, ResetTable, table
  <2>3. /\ pendingSubscribe' \in BOOLEAN
        /\ searchStarted' \in BOOLEAN
        /\ subscribeStarted' \in BOOLEAN
        /\ timer' \in BOOLEAN
    BY <1>4 DEF OnHostReset, MachineType, ResetTable, table, retry
  <2>4. backoffIndex' \in 0 .. MaxBackoff
    BY <1>4, Bounds DEF OnHostReset, MachineType, retry
  <2>5. state' \in States
    BY <1>4 DEF OnHostReset, States
  <2>6. QED
    BY <2>1, <2>2, <2>3, <2>4, <2>5 DEF MachineType
<1>5. CASE OnBackoffTimer
  BY <1>5 DEF OnBackoffTimer, MachineType, table, app
<1>6. CASE HandleReconnectEvent
  <2>1. CASE FailConnection(events)
    BY <2>1, FailType DEF MachineType
  <2>2. CASE ~FailConnection(events)
    BY <1>6, <2>2 DEF HandleReconnectEvent, StartScan, MachineType, States, table, retry
  <2>3. QED
    BY <2>1, <2>2
<1>7. CASE HandleCommandEvent
  <2>1. CASE FailConnection(events)
    BY <2>1, FailType DEF MachineType
  <2>2. CASE ~FailConnection(events)
    BY <1>7, <2>2, Bounds DEF HandleCommandEvent, MachineType, table, retry
  <2>3. QED
    BY <2>1, <2>2
<1>8. CASE HandleFilterCommandEvent
  BY <1>8 DEF HandleFilterCommandEvent, MachineType, table, retry, app
<1>9. ASSUME NEW a \in Addresses, HandleDiscReport(a) PROVE MachineType'
  <2>1. Enqueue(events, "DeviceFound") \in Seq(EventTypes)
        /\ Len(Enqueue(events, "DeviceFound")) <= EventDepth
    BY EnqueueType DEF MachineType, EventTypes
  <2>2. CASE FailConnection(Enqueue(events, "DeviceFound"))
    BY <2>1, <2>2, FailType
  <2>3. CASE ~FailConnection(Enqueue(events, "DeviceFound"))
    BY <1>9, <2>1, <2>3 DEF HandleDiscReport, MachineType, States, table, retry
  <2>4. QED
    BY <2>2, <2>3
<1>10. ASSUME NEW h \in Handles, HandleConnect(h) PROVE MachineType'
  <2>1. /\ numServices' \in 0 .. MaxServices /\ nextService' \in Nat
        /\ pendingSubscribe' \in BOOLEAN
        /\ searchStarted' \in BOOLEAN
        /\ subscribeStarted' \in BOOLEAN
    BY <1>10, ResetType DEF HandleConnect
  <2>2. CASE conn' = h
    <3>1. state' \in States
      BY <1>10, <2>2, BleAssumption DEF HandleConnect, States
    <3>2. UNCHANGED <<retry, commands, events>>
      BY <1>10, <2>2, BleAssumption DEF HandleConnect
    <3>3. QED
      BY <2>1, <2>2, <3>1, <3>2 DEF MachineType, retry
  <2>3. CASE conn' # h
    <3>1. events' \in Seq(EventTypes) /\ Len(events') <= EventDepth
      BY <1>10, <2>3, EnqueueType DEF HandleConnect, MachineType, EventTypes
    <3>2. ScheduleReconnect /\ conn' = None /\ commands' = 0
      BY <1>10, <2>3 DEF HandleConnect
    <3>3. backoffIndex' \in 0 .. MaxBackoff /\ commands' \in 0 .. CommandDepth
      BY <3>2, Bounds DEF ScheduleReconnect, MachineType
    <3>4. timer' \in BOOLEAN /\ state' \in States
      BY <3>2 DEF ScheduleReconnect, States
    <3>5. QED
      BY <2>1, <3>1, <3>2, <3>3, <3>4 DEF MachineType
  <2>4. QED
    BY <2>2, <2>3
<1>11. ASSUME NEW h \in Handles, HandleDisconnect(h) PROVE MachineType'
  <2>1. CASE h = conn
    <3>1. events' \in Seq(EventTypes) /\ Len(events') <= EventDepth
      BY <1>11, <2>1, EnqueueType DEF HandleDisconnect, MachineType, EventTypes
    <3>2. ScheduleReconnect /\ ResetTable /\ conn' = None /\ commands' = 0
      BY <1>11, <2>1 DEF HandleDisconnect
    <3>3. /\ numServices' \in 0 .. MaxServices /\ nextService' \in Nat
          /\ pendingSubscribe' \in BOOLEAN
          /\ searchStarted' \in BOOLEAN
          /\ subscribeStarted' \in BOOLEAN
      BY <3>2, ResetType
    <3>4. backoffIndex' \in 0 .. MaxBackoff /\ commands' \in 0 .. CommandDepth
      BY <3>2, Bounds DEF ScheduleReconnect, MachineType
    <3>5. timer' \in BOOLEAN /\ state' \in States
      BY <3>2 DEF ScheduleReconnect, States
    <3>6. QED
      BY <3>1, <3>2, <3>3, <3>4, <3>5 DEF MachineType
  <2>2. CASE h # conn
    BY <1>1, <1>11, <2>2 DEF HandleDisconnect
  <2>3. QED
    BY <2>1, <2>2
<1>12. CASE HandleConnectFailed
  BY <1>12, FailType DEF HandleConnectFailed, MachineType
<1>13. CASE Reattempt
  BY <1>1, <1>13 DEF Reattempt, app
<1>14. ASSUME NEW h \in Handles, HandleNotifyRx(h) PROVE MachineType'
  BY <1>1, <1>14 DEF HandleNotifyRx
<1>15. ASSUME NEW kind \in GattKinds, NEW h \in Handles, IgnoreStale(kind, h)
       PROVE  MachineType'
  BY <1>1, <1>15 DEF IgnoreStale, app
<1>16. ASSUME NEW kind \in GattKinds, NEW h \in Handles, GattError(kind, h)
       PROVE  MachineType'
  BY <1>16, FailType DEF GattError, MachineType
<1>17. ASSUME NEW h \in Handles, OnMtuResult(h) PROVE MachineType'
  <2>1. CASE FailConnection(events)
    BY <2>1, FailType DEF MachineType
  <2>2. CASE ~FailConnection(events)
    BY <1>17, <2>2 DEF OnMtuResult, MachineType, States, table, retry
  <2>3. QED
    BY <2>1, <2>2
<1>18. ASSUME NEW h \in Handles, HandleService(h) PROVE MachineType'
  BY <1>18, Bounds DEF HandleService, MachineType, retry, app
<1>19. ASSUME NEW next \in Nat, NEW searching \in BOOLEAN, NEW ps,
              DiscoverNextServiceChrs(next, searching, ps)
       PROVE  MachineType'
  <2>1. CASE FailConnection(events)
    BY <2>1, FailType DEF MachineType
  <2>2. CASE next >= numServices /\ ~FailConnection(events)
    <3>1. events' \in Seq(EventTypes) /\ Len(events') <= EventDepth
      BY <1>19, <2>2, EnqueueType DEF DiscoverNextServiceChrs, MachineType, EventTypes
    <3>2. state' \in States /\ backoffIndex' \in 0 .. MaxBackoff
      BY <1>19, <2>2, Bounds DEF DiscoverNextServiceChrs, MachineType, States
    <3>3. QED
      BY <1>19, <2>2, <3>1, <3>2 DEF DiscoverNextServiceChrs, MachineType
  <2>3. CASE next < numServices /\ ~FailConnection(events)
    BY <1>19, <2>3 DEF DiscoverNextServiceChrs, MachineType, retry
  <2>4. QED
    BY <1>19, <2>1, <2>2, <2>3 DEF DiscoverNextServiceChrs
<1>20. ASSUME NEW h \in Handles, HandleServicesDone(h) PROVE MachineType'
  BY <1>19, <1>20 DEF HandleServicesDone, MachineType
<1>21. ASSUME NEW h \in Handles, NEW isReadChar \in BOOLEAN,
              HandleCharacteristic(h, isReadChar)
       PROVE  MachineType'
  <2>1. CASE EndConnection(events) /\ ScheduleReconnect
    <3>1. numServices' \in 0 .. MaxServices /\ nextService' \in Nat
      BY <1>21, Bounds DEF HandleCharacteristic, MachineType
    <3>2. /\ pendingSubscribe' \in BOOLEAN
          /\ searchStarted' \in BOOLEAN
          /\ subscribeStarted' \in BOOLEAN
      BY <1>21 DEF HandleCharacteristic
    <3>3. QED
      BY <2>1, <3>1, <3>2, EndType DEF MachineType
  <2>2. CASE ~(EndConnection(events) /\ ScheduleReconnect)
    BY <1>21, <2>2 DEF HandleCharacteristic, MachineType, SearchDue, retry
  <2>3. QED
    BY <2>1, <2>2
<1>22. ASSUME NEW ps, FailThenReady(ps) PROVE MachineType'
  <2>1. /\ Enqueue(events, "ConnectionFailed") \in Seq(EventTypes)
        /\ Len(Enqueue(events, "ConnectionFailed")) <= EventDepth
    BY EnqueueType DEF MachineType, EventTypes
  <2>2. events' \in Seq(EventTypes) /\ Len(events') <= EventDepth
    BY <1>22, <2>1, EnqueueType DEF FailThenReady, EventTypes
  <2>3. /\ state' \in States /\ backoffIndex' \in 0 .. MaxBackoff
        /\ commands' \in 0 .. CommandDepth /\ numServices' \in 0 .. MaxServices
    BY <1>22, Bounds DEF FailThenReady, States
  <2>4. QED
    BY <1>22, <2>2, <2>3 DEF FailThenReady, MachineType
<1>23. ASSUME NEW h \in Handles, HandleCharacteristicsDone(h) PROVE MachineType'
  <2>1. nextService + 1 \in Nat /\ searchStarted \in BOOLEAN /\ TRUE \in BOOLEAN
    BY DEF MachineType
  <2>2. QED
    BY <1>19, <1>22, <1>23, <2>1 DEF HandleCharacteristicsDone
<1>24. ASSUME NEW h \in Handles, HandleCccd(h) PROVE MachineType'
  <2>1. CASE FailConnection(events)
    BY <2>1, FailType DEF MachineType
  <2>2. CASE ~FailConnection(events)
    BY <1>24, <2>2 DEF HandleCccd, MachineType, retry
  <2>3. QED
    BY <2>1, <2>2
<1>25. ASSUME NEW h \in Handles, HandleDescriptorsDone(h) PROVE MachineType'
  BY <1>1, <1>25 DEF HandleDescriptorsDone, app
<1>26. ASSUME NEW h \in Handles, HandleSubscribeWrite(h) PROVE MachineType'
  <2>1. events' \in Seq(EventTypes) /\ Len(events') <= EventDepth
    BY <1>26, EnqueueType DEF HandleSubscribeWrite, MachineType, EventTypes
  <2>2. QED
    BY <1>26, <2>1 DEF HandleSubscribeWrite, MachineType, table, retry, app
<1>27. ASSUME NEW h \in Handles, HandleWriteResult(h) PROVE MachineType'
  BY <1>1, <1>27 DEF HandleWriteResult, app
<1>28. CASE WriteCharacteristic
  BY <1>28, Bounds DEF WriteCharacteristic, AppFrame, MachineType, table, retry
<1>29. CASE PutEvent
  BY <1>1, <1>29 DEF PutEvent, AppFrame
<1>30. CASE PollEvents
  <2>1. events' \in Seq(EventTypes) /\ Len(events') <= EventDepth
    BY <1>30, Bounds DEF PollEvents
  <2>2. QED
    BY <1>30, <2>1 DEF PollEvents, AppFrame, MachineType, table, retry, app
<1>31. CASE PollCharacteristicEvents
  BY <1>1, <1>31 DEF PollCharacteristicEvents, AppFrame
<1>32. ASSUME NEW kind \in AppCommandKinds, NEW a \in Addresses \cup {None},
              QueueFilterCommand(kind, a)
       PROVE  MachineType'
  BY <1>1, <1>32 DEF QueueFilterCommand, AppFrame
<1>33. QED
  BY <1>3, <1>4, <1>5, <1>6, <1>7, <1>8, <1>9, <1>10, <1>11, <1>12, <1>13, <1>14,
     <1>15, <1>16, <1>17, <1>18, <1>20, <1>21, <1>23, <1>24, <1>25, <1>26, <1>27,
     <1>28, <1>29, <1>30, <1>31, <1>32
  DEF Next, HostEvent, Gap, GattResult, AppTask

(* Filter, reject list, filter command and peer address stay well formed.   *)
LEMMA ChoiceStep ==
  ASSUME TypeOK, AddressKnown, Next
  PROVE  ChoiceType'
<1>. USE DEF TypeOK
<1>1. CASE UNCHANGED choice
  BY <1>1 DEF ChoiceType, choice
<1>2. ASSUME NEW a \in Addresses, HandleDiscReport(a) PROVE ChoiceType'
  BY <1>2 DEF HandleDiscReport, ChoiceType
<1>3. ASSUME NEW kind \in AppCommandKinds, NEW a \in Addresses \cup {None},
             QueueFilterCommand(kind, a)
      PROVE  ChoiceType'
  <2>1. filterCommand' \in FilterCommands
    BY <1>3 DEF QueueFilterCommand, FilterCommands, AppCommandKinds
  <2>2. QED
    BY <1>3, <2>1 DEF QueueFilterCommand, AppFrame, ChoiceType
<1>4. CASE HandleFilterCommandEvent
  <2>1. rejected' \in Seq(Addresses) /\ Len(rejected') <= RejectCapacity
    <3>1. CASE rejected' = rejected
      BY <3>1 DEF ChoiceType
    <3>2. CASE rejected' # rejected
      <4>1. state \in Linked /\ rejected' = RememberRejectedAddress(deviceAddr)
        BY <1>4, <3>2 DEF HandleFilterCommandEvent, Linked
      <4>2. deviceAddr \in Addresses
        BY <4>1 DEF AddressKnown, ChoiceType
      <4>3. QED
        BY <4>1, <4>2, RememberType DEF ChoiceType
    <3>3. QED
      BY <3>1, <3>2
  <2>2. filterCommand.addr \in Addresses \cup {None}
    BY DEF ChoiceType, FilterCommands
  <2>3. filter' \in Addresses \cup {None}
    BY <1>4, <2>2 DEF HandleFilterCommandEvent, ChoiceType
  <2>4. QED
    BY <1>4, <2>1, <2>3 DEF HandleFilterCommandEvent, ChoiceType
<1>5. CASE OnHostSync \/ OnHostReset \/ OnBackoffTimer
  BY <1>1, <1>5 DEF OnHostSync, OnHostReset, OnBackoffTimer
<1>6. CASE HandleReconnectEvent \/ HandleCommandEvent
  BY <1>1, <1>6 DEF HandleReconnectEvent, HandleCommandEvent
<1>7. CASE HandleConnectFailed \/ Reattempt \/ \E h \in Handles : HandleNotifyRx(h)
  BY <1>1, <1>7 DEF HandleConnectFailed, Reattempt, HandleNotifyRx, GattFrame
<1>8. ASSUME NEW h \in Handles, HandleConnect(h) \/ HandleDisconnect(h)
      PROVE  ChoiceType'
  BY <1>1, <1>8 DEF HandleConnect, HandleDisconnect
<1>9. CASE GattResult
  <2>1. GattFrame
    BY <1>9 DEF GattResult, IgnoreStale, GattError, OnMtuResult, HandleService,
       HandleServicesDone, HandleCharacteristic, HandleCharacteristicsDone, HandleCccd,
       HandleDescriptorsDone, HandleSubscribeWrite, HandleWriteResult
  <2>2. QED
    BY <1>1, <2>1 DEF GattFrame
<1>10. CASE WriteCharacteristic \/ PutEvent \/ PollEvents \/ PollCharacteristicEvents
  BY <1>1, <1>10 DEF WriteCharacteristic, PutEvent, PollEvents,
     PollCharacteristicEvents, AppFrame, choice
<1>11. QED
  BY <1>2, <1>3, <1>4, <1>5, <1>6, <1>7, <1>8, <1>9, <1>10
  DEF Next, HostEvent, Gap, AppTask

(* Before the first report selected a peer, nothing is connected, and no    *)
(* handler but the report's own changes that.                               *)
LEMMA AddressStep ==
  ASSUME TypeOK, AddressKnown, Next
  PROVE  AddressKnown'
<1>. DEFINE Nobody == conn = None /\ ~connectPending /\ state \notin Linked
<1>1. CASE deviceAddr # None
  <2>1. deviceAddr' # None
    BY <1>1, BleAssumption
    DEF Next, HostEvent, Gap, AppTask, GattResult, OnHostSync, OnHostReset,
        OnBackoffTimer, HandleReconnectEvent, HandleCommandEvent,
        HandleFilterCommandEvent, HandleDiscReport, HandleConnect, HandleDisconnect,
        HandleNotifyRx, HandleConnectFailed, Reattempt, IgnoreStale, GattError,
        OnMtuResult, HandleService, HandleServicesDone, HandleCharacteristic,
        HandleCharacteristicsDone, HandleCccd, HandleDescriptorsDone,
        HandleSubscribeWrite, HandleWriteResult, WriteCharacteristic, PutEvent,
        PollEvents, PollCharacteristicEvents, QueueFilterCommand, AppFrame, GattFrame,
        choice
  <2>2. QED
    BY <2>1 DEF AddressKnown
<1>2. CASE deviceAddr = None
  <2>. Nobody
    BY <1>2 DEF AddressKnown
  <2>1. CASE OnHostSync \/ OnHostReset \/ OnBackoffTimer
    BY <2>1 DEF OnHostSync, OnHostReset, OnBackoffTimer, StartScan, gap, Linked, AddressKnown
  <2>2. CASE HandleReconnectEvent
    BY <2>2 DEF HandleReconnectEvent, StartScan, FailConnection, EndConnection,
       ScheduleReconnect, Linked, AddressKnown
  <2>3. CASE HandleCommandEvent \/ HandleFilterCommandEvent
    BY <2>3 DEF HandleCommandEvent, HandleFilterCommandEvent, gap, FailConnection,
       EndConnection, ScheduleReconnect, Linked, AddressKnown
  <2>4. ASSUME NEW a \in Addresses, HandleDiscReport(a) PROVE AddressKnown'
    BY <2>4, BleAssumption DEF HandleDiscReport, AddressKnown
  <2>5. ASSUME NEW h \in Handles,
               HandleConnect(h) \/ HandleDisconnect(h) \/ HandleNotifyRx(h)
        PROVE  AddressKnown'
    BY <2>5, BleAssumption DEF HandleConnect, HandleDisconnect, HandleNotifyRx, AddressKnown
  <2>6. CASE HandleConnectFailed \/ Reattempt
    BY <2>6 DEF HandleConnectFailed, Reattempt, Linked
  <2>7. CASE GattResult
    <3>1. PICK h \in Handles : \E kind \in GattKinds : IgnoreStale(kind, h)
      BY <2>7, BleAssumption DEF GattResult, GattError, OnMtuResult, HandleService,
         HandleServicesDone, HandleCharacteristic, HandleCharacteristicsDone, HandleCccd,
         HandleDescriptorsDone, HandleSubscribeWrite, HandleWriteResult, Answers,
         Outstanding
    <3>2. QED
      BY <3>1 DEF IgnoreStale, GattFrame, gap, AddressKnown
  <2>8. CASE AppTask
    BY <2>8 DEF AppTask, WriteCharacteristic, PutEvent, PollEvents,
       PollCharacteristicEvents, QueueFilterCommand, AppFrame, gap, AddressKnown
  <2>9. QED
    BY <2>1, <2>2, <2>3, <2>4, <2>5, <2>6, <2>7, <2>8 DEF Next, HostEvent, Gap
<1>3. QED
  BY <1>1, <1>2

(* The queues of the app task and the set of posted wake-ups.               *)
LEMMA AppStep ==
  ASSUME TypeOK, Next
  PROVE  AppType'
<1>. USE DEF TypeOK
<1>1. CASE UNCHANGED <<charEvents, putting, posted>>
  BY <1>1 DEF AppType
<1>2. ASSUME NEW kind \in {"Found", "Notification"}, EnqueueCharacteristic(kind),
             UNCHANGED <<putting, posted>>
      PROVE  AppType'
  BY <1>2, OfferType, Bounds DEF EnqueueCharacteristic, AppType
<1>3. CASE OnHostSync \/ OnHostReset \/ OnBackoffTimer
  BY <1>3 DEF OnHostSync, OnHostReset, OnBackoffTimer, app, AppType
<1>4. CASE HandleReconnectEvent \/ HandleCommandEvent \/ HandleFilterCommandEvent
  BY <1>4 DEF HandleReconnectEvent, HandleCommandEvent, HandleFilterCommandEvent, app, AppType
<1>5. ASSUME NEW a \in Addresses, HandleDiscReport(a) PROVE AppType'
  BY <1>1, <1>5 DEF HandleDiscReport
<1>6. ASSUME NEW h \in Handles, HandleConnect(h) \/ HandleDisconnect(h) PROVE AppType'
  BY <1>1, <1>6 DEF HandleConnect, HandleDisconnect
<1>7. ASSUME NEW h \in Handles, HandleNotifyRx(h) PROVE AppType'
  BY <1>2, <1>7 DEF HandleNotifyRx, GattFrame
<1>8. CASE HandleConnectFailed \/ Reattempt
  BY <1>1, <1>8 DEF HandleConnectFailed, Reattempt, app
<1>9. ASSUME NEW h \in Handles, NEW isReadChar \in BOOLEAN,
             HandleCharacteristic(h, isReadChar)
      PROVE  AppType'
  BY <1>2, <1>9 DEF HandleCharacteristic, GattFrame
<1>10. ASSUME NEW h \in Handles, NEW kind \in GattKinds,
              IgnoreStale(kind, h) \/ GattError(kind, h)
       PROVE  AppType'
  BY <1>1, <1>10 DEF IgnoreStale, GattError, GattFrame, app
<1>11. ASSUME NEW h \in Handles,
              \/ OnMtuResult(h) \/ HandleService(h) \/ HandleServicesDone(h)
              \/ HandleCharacteristicsDone(h) \/ HandleCccd(h)
              \/ HandleDescriptorsDone(h) \/ HandleSubscribeWrite(h)
              \/ HandleWriteResult(h)
       PROVE  AppType'
  BY <1>1, <1>11 DEF OnMtuResult, HandleService, HandleServicesDone,
     HandleCharacteristicsDone, HandleCccd, HandleDescriptorsDone,
     HandleSubscribeWrite, HandleWriteResult, GattFrame, app
<1>12. CASE WriteCharacteristic \/ PutEvent \/ PollEvents
  BY <1>12 DEF WriteCharacteristic, PutEvent, PollEvents, app, AppType
<1>13. CASE PollCharacteristicEvents
  BY <1>13, Bounds DEF PollCharacteristicEvents, AppType
<1>14. ASSUME NEW kind \in AppCommandKinds, NEW a \in Addresses \cup {None},
              QueueFilterCommand(kind, a)
       PROVE  AppType'
  BY <1>14 DEF QueueFilterCommand, AppType
<1>15. QED
  BY <1>3, <1>4, <1>5, <1>6, <1>7, <1>8, <1>9, <1>10, <1>11, <1>12, <1>13, <1>14
  DEF Next, HostEvent, Gap, GattResult, AppTask

(* A fault leaves the count of faults within its bound.                     *)
LEMMA FaultType ==
  ASSUME GapType, NEW kind, Fault(kind) \/ UNCHANGED faults
  PROVE  faults' \in 0 .. MaxFaults
BY Bounds DEF Fault, GapType

(* Links, procedures and the rest of the environment stay well formed; in   *)
(* particular only live links are ever being terminated.                    *)
LEMMA GapStep ==
  ASSUME TypeOK, Next
  PROVE  GapType'
<1>. USE DEF TypeOK
<1>1. CASE UNCHANGED <<gap, closing, procs, faults>>
  BY <1>1 DEF GapType, gap
<1>2. ASSUME GattFrame, NEW kind, Fault(kind) \/ UNCHANGED faults,
             closing' = closing \/ closing' = Terminate(conn, live),
             procs' \subseteq GattKinds \X Handles
      PROVE  GapType'
  <2>1. closing' \subseteq live
    BY <1>2, TerminateType DEF GapType
  <2>2. QED
    BY <1>2, <2>1, FaultType DEF GattFrame, gap, GapType
<1>3. CASE OnHostSync
  <2>1. faults' \in 0 .. MaxFaults
    BY <1>3, FaultType DEF OnHostSync, StartScan, StartScanRefused
  <2>2. discActive' \in BOOLEAN
    BY <1>3 DEF OnHostSync, StartScan, GapType
  <2>3. QED
    BY <1>3, <2>1, <2>2 DEF OnHostSync, GapType
<1>4. CASE OnHostReset
  BY <1>4, FaultType DEF OnHostReset, GapType
<1>5. CASE OnBackoffTimer
  BY <1>1, <1>5 DEF OnBackoffTimer
<1>6. CASE HandleReconnectEvent
  <2>1. faults' \in 0 .. MaxFaults
    BY <1>6, FaultType DEF HandleReconnectEvent, StartScan, StartScanRefused
  <2>2. closing' \subseteq live
    BY <1>6, TerminateType DEF HandleReconnectEvent, FailConnection, EndConnection, GapType
  <2>3. discActive' \in BOOLEAN
    BY <1>6 DEF HandleReconnectEvent, StartScan, GapType
  <2>4. QED
    BY <1>6, <2>1, <2>2, <2>3 DEF HandleReconnectEvent, GapType
<1>7. CASE HandleCommandEvent
  <2>1. faults' \in 0 .. MaxFaults
    BY <1>7, FaultType DEF HandleCommandEvent
  <2>2. closing' \subseteq live
    BY <1>7, TerminateType DEF HandleCommandEvent, FailConnection, EndConnection, GapType
  <2>3. procs' \subseteq GattKinds \X Handles
    BY <1>7 DEF HandleCommandEvent, GapType, MachineType, GattKinds
  <2>4. QED
    BY <1>7, <2>1, <2>2, <2>3 DEF HandleCommandEvent, gap, GapType
<1>8. CASE HandleFilterCommandEvent
  <2>1. closing' \subseteq live
    BY <1>8, TerminateType DEF HandleFilterCommandEvent, GapType
  <2>2. QED
    BY <1>8, <2>1 DEF HandleFilterCommandEvent, gap, GapType
<1>9. ASSUME NEW a \in Addresses, HandleDiscReport(a) PROVE GapType'
  <2>1. faults' \in 0 .. MaxFaults
    BY <1>9, FaultType DEF HandleDiscReport
  <2>2. closing' \subseteq live
    BY <1>9, TerminateType DEF HandleDiscReport, FailConnection, EndConnection, GapType
  <2>3. discActive' \in BOOLEAN /\ connectPending' \in BOOLEAN
    BY <1>9 DEF HandleDiscReport, GapType
  <2>4. QED
    BY <1>9, <2>1, <2>2, <2>3 DEF HandleDiscReport, GapType
<1>10. ASSUME NEW h \in Handles, HandleConnect(h) PROVE GapType'
  <2>1. faults' \in 0 .. MaxFaults
    BY <1>10, FaultType DEF HandleConnect
  <2>2. closing' \subseteq live' /\ live' \subseteq Handles
    BY <1>10 DEF HandleConnect, GapType
  <2>3. procs' \subseteq GattKinds \X Handles
    BY <1>10 DEF HandleConnect, GapType, GattKinds
  <2>4. QED
    BY <1>10, <2>1, <2>2, <2>3 DEF HandleConnect, GapType
<1>11. ASSUME NEW h \in Handles, HandleDisconnect(h) PROVE GapType'
  <2>1. faults' \in 0 .. MaxFaults
    BY <1>11, FaultType DEF HandleDisconnect
  <2>2. closing' \subseteq live' /\ live' \subseteq Handles
    BY <1>11 DEF HandleDisconnect, GapType
  <2>3. procs' \subseteq GattKinds \X Handles
    BY <1>11 DEF HandleDisconnect, GapType
  <2>4. QED
    BY <1>11, <2>1, <2>2, <2>3 DEF HandleDisconnect, GapType
<1>12. CASE HandleConnectFailed
  <2>1. faults' \in 0 .. MaxFaults
    BY <1>12, FaultType DEF HandleConnectFailed
  <2>2. closing' \subseteq live
    BY <1>12, TerminateType DEF HandleConnectFailed, FailConnection, EndConnection, GapType
  <2>3. QED
    BY <1>12, <2>1, <2>2 DEF HandleConnectFailed, GapType
<1>13. CASE Reattempt
  <2>1. faults' \in 0 .. MaxFaults
    BY <1>13, FaultType DEF Reattempt
  <2>2. QED
    BY <1>13, <2>1 DEF Reattempt, GapType
<1>14. ASSUME NEW h \in Handles, HandleNotifyRx(h) PROVE GapType'
  BY <1>1, <1>14 DEF HandleNotifyRx, GattFrame
<1>15. ASSUME NEW h \in Handles, NEW kind \in GattKinds,
              IgnoreStale(kind, h) \/ GattError(kind, h)
       PROVE  GapType'
  <2>1. procs' \subseteq GattKinds \X Handles
    BY <1>15 DEF IgnoreStale, GattError, Without, GapType
  <2>2. QED
    BY <1>2, <1>15, <2>1 DEF IgnoreStale, GattError, FailConnection, EndConnection
<1>16. ASSUME NEW h \in Handles, OnMtuResult(h) PROVE GapType'
  <2>1. procs' \subseteq GattKinds \X Handles
    BY <1>16 DEF OnMtuResult, Without, GapType, GattKinds
  <2>2. QED
    BY <1>2, <1>16, <2>1 DEF OnMtuResult, FailConnection, EndConnection
<1>17. ASSUME NEW h \in Handles,
              \/ HandleService(h) \/ HandleDescriptorsDone(h)
              \/ HandleSubscribeWrite(h) \/ HandleWriteResult(h)
       PROVE  GapType'
  <2>1. procs' \subseteq GattKinds \X Handles
    BY <1>17 DEF HandleService, HandleDescriptorsDone, HandleSubscribeWrite,
       HandleWriteResult, Without, GapType
  <2>2. QED
    BY <1>2, <1>17, <2>1 DEF HandleService, HandleDescriptorsDone, HandleSubscribeWrite,
       HandleWriteResult
<1>18. ASSUME NEW next, NEW searching, NEW ps \in SUBSET (GattKinds \X Handles), GattFrame,
              conn \in Handles, DiscoverNextServiceChrs(next, searching, ps)
       PROVE  GapType'
  <2>1. procs' \subseteq GattKinds \X Handles
    BY <1>18 DEF DiscoverNextServiceChrs, GattKinds
  <2>2. QED
    BY <1>2, <1>18, <2>1 DEF DiscoverNextServiceChrs, FailConnection, EndConnection
<1>19. ASSUME NEW h \in Handles, HandleServicesDone(h) PROVE GapType'
  <2>1. Without("svcs", h) \in SUBSET (GattKinds \X Handles) /\ conn \in Handles
    BY <1>19 DEF HandleServicesDone, Answers, Outstanding, Without, GapType
  <2>2. QED
    BY <1>18, <1>19, <2>1 DEF HandleServicesDone
<1>20. ASSUME NEW h \in Handles, HandleCharacteristicsDone(h) PROVE GapType'
  <2>1. conn \in Handles
    BY <1>20 DEF HandleCharacteristicsDone, Answers, Outstanding
  <2>2. /\ Without("chrs", h) \in SUBSET (GattKinds \X Handles)
        /\ Without("chrs", h) \cup {<<"dscs", h>>} \in SUBSET (GattKinds \X Handles)
    BY DEF Without, GapType, GattKinds
  <2>3. CASE FailThenReady(Without("chrs", h)) /\ Fault("dscs")
    BY <1>2, <1>20, <2>2, <2>3 DEF HandleCharacteristicsDone, FailThenReady
  <2>4. QED
    BY <1>18, <1>20, <2>1, <2>2, <2>3 DEF HandleCharacteristicsDone
<1>21. ASSUME NEW h \in Handles, NEW isReadChar \in BOOLEAN,
              HandleCharacteristic(h, isReadChar)
       PROVE  GapType'
  <2>1. procs' \subseteq GattKinds \X Handles
    BY <1>21 DEF HandleCharacteristic, GapType, GattKinds
  <2>2. QED
    BY <1>2, <1>21, <2>1 DEF HandleCharacteristic, EndConnection
<1>22. ASSUME NEW h \in Handles, HandleCccd(h) PROVE GapType'
  <2>1. procs' \subseteq GattKinds \X Handles
    BY <1>22 DEF HandleCccd, GapType, GattKinds
  <2>2. QED
    BY <1>2, <1>22, <2>1 DEF HandleCccd, FailConnection, EndConnection
<1>23. CASE AppTask
  BY <1>1, <1>23 DEF AppTask, WriteCharacteristic, PutEvent, PollEvents,
     PollCharacteristicEvents, QueueFilterCommand, AppFrame
<1>24. QED
  BY <1>3, <1>4, <1>5, <1>6, <1>7, <1>8, <1>9, <1>10, <1>11, <1>12, <1>13, <1>14,
     <1>15, <1>16, <1>17, <1>19, <1>20, <1>21, <1>22, <1>23
  DEF Next, HostEvent, Gap, GattResult

-----------------------------------------------------------------------------
(* Every reachable state is well typed: no counter of the manager leaves    *)
(* its range, no queue its depth, and a rejection always stores an address. *)
THEOREM TypeCorrect == Spec => []TypeOK
<1>1. Init => TypeOK /\ AddressKnown
  <2>. SUFFICES ASSUME Init PROVE TypeOK /\ AddressKnown
    OBVIOUS
  <2>1. MachineType
    <3>1. /\ numServices \in 0 .. MaxServices /\ nextService \in Nat
          /\ backoffIndex \in 0 .. MaxBackoff /\ commands \in 0 .. CommandDepth
      BY Bounds DEF Init
    <3>2. events \in Seq(EventTypes) /\ Len(events) <= EventDepth
      BY Bounds DEF Init
    <3>3. QED
      BY <3>1, <3>2 DEF Init, MachineType, States
  <2>2. ChoiceType
    BY BleAssumption DEF Init, ChoiceType, FilterCommands
  <2>3. AppType
    <3>1. charEvents \in Seq({"Found", "Notification"}) /\ Len(charEvents) <= CharDepth
      BY Bounds DEF Init
    <3>2. QED
      BY <3>1 DEF Init, AppType
  <2>4. GapType
    <3>1. faults \in 0 .. MaxFaults
      BY Bounds DEF Init
    <3>2. QED
      BY <3>1 DEF Init, GapType
  <2>5. AddressKnown
    BY DEF Init, AddressKnown, Linked
  <2>6. QED
    BY <2>1, <2>2, <2>3, <2>4, <2>5 DEF TypeOK
<1>2. TypeOK /\ AddressKnown /\ [Next]_vars => TypeOK' /\ AddressKnown'
  <2>. SUFFICES ASSUME TypeOK, AddressKnown, [Next]_vars
                PROVE  TypeOK' /\ AddressKnown'
    OBVIOUS
  <2>1. CASE Next
    BY <2>1, MachineStep, ChoiceStep, AppStep, GapStep, AddressStep DEF TypeOK
  <2>2. CASE UNCHANGED vars
    BY <2>2 DEF vars, table, choice, retry, app, gap, TypeOK, MachineType, ChoiceType,
       AppType, GapType, AddressKnown
  <2>3. QED
    BY <2>1, <2>2
<1>3. QED
  BY <1>1, <1>2, PTL DEF Spec

-----------------------------------------------------------------------------
(* A queued write always has a wake-up on its way.                          *)
THEOREM WritesNotStranded == Spec => []WriteNeverStranded
<1>1. Init => WriteNeverStranded
  BY DEF Init, WriteNeverStranded
<1>2. TypeOK /\ WriteNeverStranded /\ [Next]_vars => WriteNeverStranded'
  <2>. SUFFICES ASSUME TypeOK, WriteNeverStranded, [Next]_vars
                PROVE  WriteNeverStranded'
    OBVIOUS
  <2>1. CASE commands' = 0
    BY <2>1 DEF WriteNeverStranded
  <2>2. CASE commands' = commands /\ putting \cup posted \subseteq putting' \cup posted'
    BY <2>2 DEF WriteNeverStranded
  <2>3. CASE HandleReconnectEvent \/ HandleCommandEvent \/ HandleFilterCommandEvent
    BY <2>1, <2>3 DEF HandleReconnectEvent, HandleCommandEvent, HandleFilterCommandEvent,
       FailConnection, EndConnection, app, WriteNeverStranded
  <2>4. CASE OnHostSync \/ OnHostReset \/ OnBackoffTimer
    BY <2>1, <2>2, <2>4 DEF OnHostSync, OnHostReset, OnBackoffTimer, app
  <2>5. ASSUME NEW a \in Addresses, HandleDiscReport(a) PROVE WriteNeverStranded'
    BY <2>1, <2>2, <2>5 DEF HandleDiscReport, FailConnection, EndConnection
  <2>6. ASSUME NEW h \in Handles,
               HandleConnect(h) \/ HandleDisconnect(h) \/ HandleNotifyRx(h)
        PROVE  WriteNeverStranded'
    BY <2>1, <2>2, <2>6 DEF HandleConnect, HandleDisconnect, HandleNotifyRx, GattFrame
  <2>7. CASE HandleConnectFailed \/ Reattempt
    BY <2>1, <2>2, <2>7 DEF HandleConnectFailed, Reattempt, FailConnection, EndConnection, app
  <2>8. CASE GattResult
    <3>1. GattFrame
      BY <2>8 DEF GattResult, IgnoreStale, GattError, OnMtuResult, HandleService,
         HandleServicesDone, HandleCharacteristic, HandleCharacteristicsDone, HandleCccd,
         HandleDescriptorsDone, HandleSubscribeWrite, HandleWriteResult
    <3>2. commands' \in {0, commands}
      BY <2>8 DEF GattResult, IgnoreStale, GattError, OnMtuResult, HandleService,
         HandleServicesDone, HandleCharacteristic, HandleCharacteristicsDone, HandleCccd,
         HandleDescriptorsDone, HandleSubscribeWrite, HandleWriteResult,
         DiscoverNextServiceChrs, FailThenReady, FailConnection, EndConnection, app
    <3>3. QED
      BY <2>1, <2>2, <3>1, <3>2 DEF GattFrame
  <2>9. CASE AppTask
    BY <2>9 DEF AppTask, WriteCharacteristic, PutEvent, PollEvents,
       PollCharacteristicEvents, QueueFilterCommand, app, WriteNeverStranded
  <2>10. CASE UNCHANGED vars
    BY <2>2, <2>10 DEF vars, app
  <2>11. QED
    BY <2>3, <2>4, <2>5, <2>6, <2>7, <2>8, <2>9, <2>10 DEF Next, HostEvent, Gap
<1>3. QED
  BY <1>1, <1>2, TypeCorrect, PTL DEF Spec

-----------------------------------------------------------------------------
(* The states of the manager and what NimBLE does for it.  A refused        *)
(* descriptor search breaks this (FailThenReady), so it is assumed away.    *)

(* Every failing handler ends in kBackoff, without a connection and with    *)
(* the timer armed.                                                         *)
LEMMA FailLink ==
  ASSUME NEW queue, FailConnection(queue)
  PROVE  state' = "Backoff" /\ conn' = None /\ timer' = TRUE
BY DEF FailConnection, EndConnection, ScheduleReconnect

(* The inductive part of ConnHandleValid and ScanOnlyWhenUnconnected.       *)
LinkInv == SyncIdle /\ ConnHandleValid /\ ScanOnlyWhenUnconnected

\* Every step keeps the handle and the phase in step.
LEMMA LinkStep ==
  ASSUME "dscs" \notin FaultKinds, TypeOK, LinkInv, Next
  PROVE  LinkInv'
<1>. USE BleAssumption
     DEF LinkInv, SyncIdle, ConnHandleValid, ScanOnlyWhenUnconnected, Linked
<1>1. CASE UNCHANGED <<state, conn, syncPending, discActive, connectPending>>
  BY <1>1
<1>2. CASE OnHostSync \/ OnHostReset \/ OnBackoffTimer
  BY <1>2 DEF OnHostSync, OnHostReset, OnBackoffTimer, StartScan, StartScanRefused, gap
<1>3. CASE HandleReconnectEvent
  <2>1. CASE FailConnection(events)
    <3>1. state' = "Backoff" /\ conn' = None
      BY <2>1, FailLink
    <3>2. QED
      BY <1>3, <3>1 DEF HandleReconnectEvent, StartScan
  <2>2. CASE ~FailConnection(events)
    BY <1>3, <2>2 DEF HandleReconnectEvent, StartScan
  <2>3. QED
    BY <2>1, <2>2
<1>4. CASE HandleCommandEvent \/ HandleFilterCommandEvent
  <2>1. CASE FailConnection(events)
    <3>1. state' = "Backoff" /\ conn' = None
      BY <2>1, FailLink
    <3>2. QED
      BY <1>4, <3>1 DEF HandleCommandEvent, HandleFilterCommandEvent, gap
  <2>2. CASE ~FailConnection(events)
    BY <1>1, <1>4, <2>2 DEF HandleCommandEvent, HandleFilterCommandEvent, gap
  <2>3. QED
    BY <2>1, <2>2
<1>5. ASSUME NEW a \in Addresses, HandleDiscReport(a) PROVE LinkInv'
  <2>1. CASE FailConnection(Enqueue(events, "DeviceFound"))
    <3>1. state' = "Backoff" /\ conn' = None
      BY <2>1, FailLink
    <3>2. QED
      BY <1>5, <3>1 DEF HandleDiscReport
  <2>2. CASE ~FailConnection(Enqueue(events, "DeviceFound"))
    BY <1>5, <2>2 DEF HandleDiscReport
  <2>3. QED
    BY <2>1, <2>2
<1>6. ASSUME NEW h \in Handles, HandleConnect(h) PROVE LinkInv'
  BY <1>6 DEF HandleConnect, ScheduleReconnect
<1>7. ASSUME NEW h \in Handles, HandleDisconnect(h) PROVE LinkInv'
  BY <1>7 DEF HandleDisconnect, ScheduleReconnect
<1>8. ASSUME NEW h \in Handles, HandleNotifyRx(h) PROVE LinkInv'
  BY <1>1, <1>8 DEF HandleNotifyRx, GattFrame, gap
<1>9. CASE HandleConnectFailed
  BY <1>9, FailLink DEF HandleConnectFailed
<1>10. CASE Reattempt
  <2>1. conn \in Handles
    BY <1>10 DEF Reattempt, TypeOK, GapType
  <2>2. QED
    BY <1>10, <2>1 DEF Reattempt
<1>11. CASE GattResult
  <2>1. PICK h \in Handles :
          \/ \E kind \in GattKinds : IgnoreStale(kind, h) \/ GattError(kind, h)
          \/ OnMtuResult(h) \/ HandleService(h) \/ HandleServicesDone(h)
          \/ \E b \in BOOLEAN : HandleCharacteristic(h, b)
          \/ HandleCharacteristicsDone(h) \/ HandleCccd(h) \/ HandleDescriptorsDone(h)
          \/ HandleSubscribeWrite(h) \/ HandleWriteResult(h)
    BY <1>11 DEF GattResult
  <2>2. UNCHANGED <<syncPending, discActive, connectPending>>
    BY <2>1 DEF IgnoreStale, GattError, OnMtuResult, HandleService, HandleServicesDone,
       HandleCharacteristic, HandleCharacteristicsDone, HandleCccd, HandleDescriptorsDone,
       HandleSubscribeWrite, HandleWriteResult, GattFrame, gap
  <2>3. CASE UNCHANGED <<state, conn>>
    BY <1>1, <2>2, <2>3
  <2>4. CASE conn = h /\ conn' = h /\ state' \in Linked
    BY <2>2, <2>4
  <2>5. CASE conn = h /\ FailConnection(events)
    BY <2>2, <2>5, FailLink
  <2>6. ASSUME NEW next, NEW searching, NEW ps, conn = h,
               DiscoverNextServiceChrs(next, searching, ps)
        PROVE  LinkInv'
    BY <2>3, <2>4, <2>5, <2>6 DEF DiscoverNextServiceChrs
  <2>7. CASE HandleServicesDone(h) \/ HandleCharacteristicsDone(h)
    BY <2>6, <2>7 DEF HandleServicesDone, HandleCharacteristicsDone, Answers, Outstanding, Fault
  <2>8. CASE OnMtuResult(h) \/ \E kind \in GattKinds : GattError(kind, h)
    BY <2>4, <2>5, <2>8 DEF OnMtuResult, GattError, Outstanding
  <2>9. CASE HandleCccd(h) \/ \E b \in BOOLEAN : HandleCharacteristic(h, b)
    BY <2>3, <2>5, <2>9 DEF HandleCccd, HandleCharacteristic, Answers, Outstanding, Fault
  <2>10. CASE \/ \E kind \in GattKinds : IgnoreStale(kind, h)
              \/ HandleService(h) \/ HandleDescriptorsDone(h)
              \/ HandleSubscribeWrite(h) \/ HandleWriteResult(h)
    BY <2>3, <2>10 DEF IgnoreStale, HandleService, HandleDescriptorsDone,
       HandleSubscribeWrite, HandleWriteResult
  <2>11. QED
    BY <2>1, <2>7, <2>8, <2>9, <2>10
<1>12. CASE AppTask
  BY <1>1, <1>12 DEF AppTask, WriteCharacteristic, PutEvent, PollEvents,
     PollCharacteristicEvents, QueueFilterCommand, AppFrame, gap
<1>13. QED
  BY <1>2, <1>3, <1>4, <1>5, <1>6, <1>7, <1>8, <1>9, <1>10, <1>11, <1>12
  DEF Next, HostEvent, Gap

(* conn_handle_ is set exactly in the connected states, and the radio never *)
(* scans while a link is managed or attempted.                              *)
THEOREM LinkCorrect ==
  ASSUME "dscs" \notin FaultKinds
  PROVE  Spec => [](ConnHandleValid /\ ScanOnlyWhenUnconnected)
<1>1. Init => LinkInv
  BY DEF Init, LinkInv, SyncIdle, ConnHandleValid, ScanOnlyWhenUnconnected, Linked
<1>2. TypeOK /\ LinkInv /\ [Next]_vars => LinkInv'
  <2>1. ASSUME LinkInv, UNCHANGED vars PROVE LinkInv'
    BY <2>1 DEF vars, gap, LinkInv, SyncIdle, ConnHandleValid, ScanOnlyWhenUnconnected
  <2>2. QED
    BY <2>1, LinkStep
<1>3. LinkInv => ConnHandleValid /\ ScanOnlyWhenUnconnected
  BY DEF LinkInv
<1>4. QED
  BY <1>1, <1>2, <1>3, TypeCorrect, PTL DEF Spec

-----------------------------------------------------------------------------
(* No step of the manager comes to rest in a state with nothing under way   *)
(* that would lead out of it.                                               *)
LEMMA AwaitedStep ==
  ASSUME "dscs" \notin FaultKinds, TypeOK, LinkInv, Awaited, Next
  PROVE  Awaited'
<1>. USE BleAssumption DEF Awaited
<1>1. CASE /\ UNCHANGED <<state, conn, discActive, connectPending, timer>>
           /\ conn \in live => conn \in live'
           /\ "reconnect" \in posted => "reconnect" \in posted'
           /\ \A kind \in Discovery : <<kind, conn>> \in procs => <<kind, conn>> \in procs'
  BY <1>1
<1>2. ASSUME NEW queue, FailConnection(queue) PROVE Awaited'
  BY <1>2, FailLink
<1>3. CASE OnHostSync
  BY <1>3 DEF OnHostSync, StartScan, LinkInv, SyncIdle
<1>4. CASE OnHostReset
  BY <1>4 DEF OnHostReset
<1>5. CASE OnBackoffTimer
  BY <1>5 DEF OnBackoffTimer, gap
<1>6. CASE HandleReconnectEvent
  BY <1>2, <1>6 DEF HandleReconnectEvent, StartScan, retry
<1>7. CASE HandleCommandEvent
  BY <1>1, <1>2, <1>7 DEF HandleCommandEvent, retry, gap
<1>8. CASE HandleFilterCommandEvent
  BY <1>1, <1>8 DEF HandleFilterCommandEvent, retry, gap
<1>9. ASSUME NEW a \in Addresses, HandleDiscReport(a) PROVE Awaited'
  BY <1>2, <1>9 DEF HandleDiscReport
<1>10. ASSUME NEW h \in Handles, HandleConnect(h) PROVE Awaited'
  BY <1>10 DEF HandleConnect, ScheduleReconnect, Discovery
<1>11. ASSUME NEW h \in Handles, HandleDisconnect(h) PROVE Awaited'
  <2>1. CASE h = conn
    BY <1>11, <2>1 DEF HandleDisconnect, ScheduleReconnect
  <2>2. CASE h # conn
    BY <1>1, <1>11, <2>2 DEF HandleDisconnect, retry
  <2>3. QED
    BY <2>1, <2>2
<1>12. CASE HandleConnectFailed
  BY <1>2, <1>12 DEF HandleConnectFailed
<1>13. CASE Reattempt
  BY <1>13 DEF Reattempt, retry, Linked
<1>14. ASSUME NEW h \in Handles, NEW kind \in GattKinds, IgnoreStale(kind, h)
       PROVE  Awaited'
  BY <1>1, <1>14 DEF IgnoreStale, Without, GattFrame, gap, retry
<1>15. ASSUME NEW h \in Handles, NEW kind \in GattKinds, GattError(kind, h)
       PROVE  Awaited'
  BY <1>2, <1>15 DEF GattError
<1>16. ASSUME NEW h \in Handles, OnMtuResult(h) PROVE Awaited'
  <2>1. CASE FailConnection(events)
    BY <1>2, <2>1
  <2>2. CASE ~FailConnection(events)
    <3>1. state' = "DiscoveringServices" /\ conn' = h /\ <<"svcs", h>> \in procs'
      BY <1>16, <2>2 DEF OnMtuResult, Outstanding
    <3>2. QED
      BY <3>1 DEF Discovery
  <2>3. QED
    BY <2>1, <2>2
<1>17. ASSUME NEW h \in Handles, NEW next \in Nat, NEW searching, NEW ps, conn = h, h \in live,
              DiscoverNextServiceChrs(next, searching, ps), GattFrame,
              state \in Linked
       PROVE  Awaited'
  <2>. numServices \in Nat
    BY DEF TypeOK, MachineType
  <2>1. CASE next < numServices /\ ~FailConnection(events)
    BY <1>17, <2>1 DEF DiscoverNextServiceChrs, GattFrame, gap, Linked, Discovery, retry
  <2>2. CASE next >= numServices /\ ~FailConnection(events)
    <3>1. state' = "ReadyForProtocol" /\ conn' = h /\ live' = live
      BY <1>17, <2>2 DEF DiscoverNextServiceChrs, GattFrame, gap
    <3>2. QED
      BY <1>17, <3>1
  <2>3. CASE FailConnection(events)
    BY <1>2, <2>3
  <2>4. QED
    BY <1>17, <2>1, <2>2, <2>3 DEF DiscoverNextServiceChrs
<1>18. ASSUME NEW h \in Handles, HandleServicesDone(h) \/ HandleCharacteristicsDone(h)
       PROVE  Awaited'
  <2>1. conn = h /\ h \in live /\ GattFrame
    BY <1>18 DEF HandleServicesDone, HandleCharacteristicsDone, Answers, Outstanding
  <2>2. state \in Linked
    BY <2>1 DEF LinkInv, ConnHandleValid
  <2>. nextService \in Nat /\ nextService + 1 \in Nat
    BY DEF TypeOK, MachineType
  <2>3. QED
    BY <1>17, <1>18, <2>1, <2>2
    DEF HandleServicesDone, HandleCharacteristicsDone, Fault
<1>19. ASSUME NEW h \in Handles, NEW isReadChar \in BOOLEAN,
              HandleCharacteristic(h, isReadChar)
       PROVE  Awaited'
  BY <1>1, <1>19 DEF HandleCharacteristic, Fault, GattFrame, gap, retry
<1>20. ASSUME NEW h \in Handles, HandleCccd(h) PROVE Awaited'
  BY <1>1, <1>2, <1>20 DEF HandleCccd, GattFrame, gap, retry
<1>21. ASSUME NEW h \in Handles,
              \/ HandleService(h) \/ HandleDescriptorsDone(h) \/ HandleSubscribeWrite(h)
              \/ HandleWriteResult(h) \/ HandleNotifyRx(h)
       PROVE  Awaited'
  BY <1>1, <1>21 DEF HandleService, HandleDescriptorsDone, HandleSubscribeWrite,
     HandleWriteResult, HandleNotifyRx, Without, Discovery, GattFrame, gap, retry
<1>22. CASE AppTask
  BY <1>1, <1>22 DEF AppTask, WriteCharacteristic, PutEvent, PollEvents,
     PollCharacteristicEvents, QueueFilterCommand, AppFrame, gap, retry
<1>23. QED
  BY <1>3, <1>4, <1>5, <1>6, <1>7, <1>8, <1>9, <1>10, <1>11, <1>12, <1>13, <1>14,
     <1>15, <1>16, <1>18, <1>19, <1>20, <1>21, <1>22
  DEF Next, HostEvent, Gap, GattResult

(* The machine is never stuck without a scan, attempt, procedure, link,     *)
(* timer or wake-up: the safety half of "always retries".                   *)
THEOREM NeverStuck ==
  ASSUME "dscs" \notin FaultKinds
  PROVE  Spec => []Awaited
<1>1. Init => LinkInv /\ Awaited
  BY DEF Init, Awaited, LinkInv, SyncIdle, ConnHandleValid, ScanOnlyWhenUnconnected, Linked
<1>2. TypeOK /\ LinkInv /\ Awaited /\ [Next]_vars => LinkInv' /\ Awaited'
  <2>1. ASSUME LinkInv, Awaited, UNCHANGED vars PROVE LinkInv' /\ Awaited'
    BY <2>1 DEF vars, gap, retry, Awaited, LinkInv, SyncIdle, ConnHandleValid,
       ScanOnlyWhenUnconnected
  <2>2. QED
    BY <2>1, LinkStep, AwaitedStep
<1>3. QED
  BY <1>1, <1>2, TypeCorrect, PTL DEF Spec

-----------------------------------------------------------------------------
(* Discovery and subscription of the current connection.                    *)
GattInv == DiscoverySequential /\ SubscribeAwaited

(* A procedure of the current connection belongs to a handle, not to        *)
(* BLE_HS_CONN_HANDLE_NONE.                                                  *)
LEMMA NoProcsOfNone ==
  ASSUME TypeOK, NEW kind
  PROVE  <<kind, None>> \notin procs /\ (TypeOK' => <<kind, None>> \notin procs')
BY BleAssumption DEF TypeOK, GapType

(* Where the connection ends, both hold trivially of the next state.        *)
LEMMA GattInvWithoutLink ==
  ASSUME TypeOK, TypeOK', conn' = None, state' # "ReadyForProtocol"
  PROVE  GattInv'
BY NoProcsOfNone DEF GattInv, DiscoverySequential, SubscribeAwaited, Discovery

\* Every step keeps the pending GATT procedures and the phase in step.
LEMMA GattInvStep ==
  ASSUME "dscs" \notin FaultKinds, TypeOK, TypeOK', LinkInv, GattInv, Next
  PROVE  GattInv'
<1>. USE BleAssumption DEF GattInv, DiscoverySequential, SubscribeAwaited, Discovery
<1>1. CASE UNCHANGED <<state, conn, table, procs>>
  BY <1>1 DEF table
<1>2. ASSUME NEW queue, FailConnection(queue) PROVE GattInv'
  BY <1>2, FailLink, GattInvWithoutLink
<1>3. CASE conn' = None /\ state' # "ReadyForProtocol"
  BY <1>3, GattInvWithoutLink
<1>4. CASE OnHostSync
  BY <1>3, <1>4 DEF OnHostSync, StartScan, LinkInv, SyncIdle
<1>5. CASE OnHostReset
  BY <1>3, <1>5 DEF OnHostReset
<1>6. CASE OnBackoffTimer
  BY <1>1, <1>6 DEF OnBackoffTimer
<1>7. CASE HandleReconnectEvent
  BY <1>1, <1>2, <1>7 DEF HandleReconnectEvent, StartScan, table
<1>8. CASE HandleCommandEvent
  <2>1. CASE FailConnection(events)
    BY <1>2, <2>1
  <2>2. CASE ~FailConnection(events)
    BY <1>8, <2>2 DEF HandleCommandEvent, table
  <2>3. QED
    BY <2>1, <2>2
<1>9. CASE HandleFilterCommandEvent
  BY <1>1, <1>9 DEF HandleFilterCommandEvent
<1>10. ASSUME NEW a \in Addresses, HandleDiscReport(a) PROVE GattInv'
  <2>1. conn = None
    BY <1>10 DEF HandleDiscReport, LinkInv, ScanOnlyWhenUnconnected
  <2>2. QED
    BY <1>2, <1>3, <1>10, <2>1 DEF HandleDiscReport
<1>11. ASSUME NEW h \in Handles, HandleConnect(h) PROVE GattInv'
  <2>1. \A kind : <<kind, h>> \notin procs
    BY <1>11 DEF HandleConnect
  <2>2. CASE conn' = h
    <3>1. /\ state' # "ReadyForProtocol" /\ pendingSubscribe' = FALSE
          /\ procs' = procs \cup {<<"mtu", h>>} \/ procs' = procs \cup {<<"svcs", h>>}
      BY <1>11, <2>2 DEF HandleConnect, ResetTable
    <3>2. QED
      BY <2>1, <2>2, <3>1
  <2>3. CASE conn' # h
    BY <1>3, <1>11, <2>3 DEF HandleConnect, ScheduleReconnect
  <2>4. QED
    BY <2>2, <2>3
<1>12. ASSUME NEW h \in Handles, HandleDisconnect(h) PROVE GattInv'
  <2>1. CASE h = conn
    BY <1>3, <1>12, <2>1 DEF HandleDisconnect, ScheduleReconnect
  <2>2. CASE h # conn
    BY <1>12, <2>2 DEF HandleDisconnect, table
  <2>3. QED
    BY <2>1, <2>2
<1>13. CASE HandleConnectFailed
  BY <1>2, <1>13 DEF HandleConnectFailed
<1>14. CASE Reattempt
  BY <1>1, <1>14 DEF Reattempt
<1>15. ASSUME NEW h \in Handles, NEW kind \in GattKinds, IgnoreStale(kind, h)
       PROVE  GattInv'
  BY <1>15 DEF IgnoreStale, Without, table
<1>16. ASSUME NEW h \in Handles, NEW kind \in GattKinds, GattError(kind, h)
       PROVE  GattInv'
  BY <1>2, <1>16 DEF GattError
<1>17. ASSUME NEW h \in Handles, OnMtuResult(h) PROVE GattInv'
  <2>1. CASE FailConnection(events)
    BY <1>2, <2>1
  <2>2. CASE ~FailConnection(events)
    <3>1. /\ procs' = (procs \ {<<"mtu", h>>}) \cup {<<"svcs", h>>}
          /\ <<"mtu", h>> \in procs /\ conn = h /\ conn' = h
          /\ state' = "DiscoveringServices" /\ UNCHANGED table
      BY <1>17, <2>2 DEF OnMtuResult, Outstanding, Without
    <3>2. QED
      BY <3>1 DEF table
  <2>3. QED
    BY <2>1, <2>2
<1>18. ASSUME NEW h \in Handles, NEW done \in {"svcs", "chrs"},
              NEW next \in Nat, NEW searching, NEW ps,
              conn = h, <<done, h>> \in procs,
              ps \ {<<"dscs", h>>} = procs \ {<<done, h>>, <<"dscs", h>>},
              pendingSubscribe =>
                IF searching THEN <<"dscs", h>> \in ps ELSE done = "svcs" /\ <<"chrs", h>> \in ps,
              DiscoverNextServiceChrs(next, searching, ps)
       PROVE  GattInv'
  <2>. numServices \in Nat
    BY DEF TypeOK, MachineType
  <2>1. CASE FailConnection(events)
    BY <1>2, <2>1
  <2>2. \A kind \in Discovery : <<kind, h>> \notin ps
    BY <1>18
  <2>3. CASE next >= numServices /\ ~FailConnection(events)
    BY <1>18, <2>2, <2>3 DEF DiscoverNextServiceChrs
  <2>4. CASE next < numServices /\ ~FailConnection(events)
    <3>1. procs' = ps \cup {<<"chrs", h>>} /\ UNCHANGED <<conn, state, pendingSubscribe>>
      BY <1>18, <2>4 DEF DiscoverNextServiceChrs
    <3>2. searchStarted' = searching
      BY <1>18, <2>4 DEF DiscoverNextServiceChrs
    <3>3. state # "ReadyForProtocol"
      BY <1>18
    <3>4. QED
      BY <1>18, <2>2, <3>1, <3>2, <3>3
  <2>5. QED
    BY <1>18, <2>1, <2>3, <2>4 DEF DiscoverNextServiceChrs
<1>19. ASSUME NEW h \in Handles, HandleServicesDone(h) PROVE GattInv'
  <2>1. conn = h /\ <<"svcs", h>> \in procs
    BY <1>19 DEF HandleServicesDone, Answers, Outstanding
  <2>2. conn # None /\ nextService \in Nat
    BY <2>1 DEF TypeOK, MachineType
  <2>3. QED
    BY <1>18, <1>19, <2>1, <2>2 DEF HandleServicesDone, Without
<1>20. ASSUME NEW h \in Handles, HandleCharacteristicsDone(h) PROVE GattInv'
  <2>1. conn = h /\ <<"chrs", h>> \in procs /\ conn # None
    BY <1>20 DEF HandleCharacteristicsDone, Answers, Outstanding
  <2>. nextService + 1 \in Nat
    BY DEF TypeOK, MachineType
  <2>2. CASE SearchDue
    BY <1>18, <1>20, <2>1, <2>2 DEF HandleCharacteristicsDone, Without, Fault
  <2>3. CASE ~SearchDue
    BY <1>18, <1>20, <2>1, <2>3 DEF HandleCharacteristicsDone, Without, SearchDue
  <2>4. QED
    BY <2>2, <2>3
<1>21. ASSUME NEW h \in Handles, NEW isReadChar \in BOOLEAN,
              HandleCharacteristic(h, isReadChar)
       PROVE  GattInv'
  <2>1. conn = h /\ <<"chrs", h>> \in procs /\ UNCHANGED <<conn, state>>
    BY <1>21 DEF HandleCharacteristic, Answers, Outstanding, Fault
  <2>2. procs' = IF SearchDue THEN procs \cup {<<"dscs", h>>} ELSE procs
    BY <1>21 DEF HandleCharacteristic, Fault
  <2>3. DiscoverySequential'
    BY <2>1, <2>2
  <2>4. SubscribeAwaited'
    BY <1>21, <2>1, <2>2 DEF HandleCharacteristic, SearchDue, Fault
  <2>5. QED
    BY <2>3, <2>4
<1>22. ASSUME NEW h \in Handles, HandleCccd(h) PROVE GattInv'
  <2>1. CASE FailConnection(events)
    BY <1>2, <2>1
  <2>2. CASE ~FailConnection(events)
    BY <1>22, <2>2 DEF HandleCccd
  <2>3. QED
    BY <2>1, <2>2
<1>23. ASSUME NEW h \in Handles,
              \/ HandleService(h) \/ HandleDescriptorsDone(h) \/ HandleSubscribeWrite(h)
              \/ HandleWriteResult(h) \/ HandleNotifyRx(h)
       PROVE  GattInv'
  BY <1>23 DEF HandleService, HandleDescriptorsDone, HandleSubscribeWrite,
     HandleWriteResult, HandleNotifyRx, Without, table
<1>24. CASE AppTask
  BY <1>1, <1>24 DEF AppTask, WriteCharacteristic, PutEvent, PollEvents,
     PollCharacteristicEvents, QueueFilterCommand, AppFrame
<1>25. QED
  BY <1>4, <1>5, <1>6, <1>7, <1>8, <1>9, <1>10, <1>11, <1>12, <1>13, <1>14, <1>15,
     <1>16, <1>17, <1>19, <1>20, <1>21, <1>22, <1>23, <1>24
  DEF Next, HostEvent, Gap, GattResult

(* Whatever late results of earlier links arrive, discovery of the current  *)
(* one is sequential, and a read characteristic it found is subscribed to.  *)
THEOREM DiscoveryCorrect ==
  ASSUME "dscs" \notin FaultKinds
  PROVE  Spec => [](DiscoverySequential /\ SubscribeAwaited)
<1>1. Init => LinkInv /\ GattInv
  BY DEF Init, GattInv, DiscoverySequential, SubscribeAwaited, LinkInv, SyncIdle,
     ConnHandleValid, ScanOnlyWhenUnconnected, Linked
<1>2. TypeOK /\ TypeOK' /\ LinkInv /\ GattInv /\ [Next]_vars => LinkInv' /\ GattInv'
  <2>1. ASSUME LinkInv, GattInv, UNCHANGED vars PROVE LinkInv' /\ GattInv'
    BY <2>1 DEF vars, gap, table, GattInv, DiscoverySequential, SubscribeAwaited, LinkInv,
       SyncIdle, ConnHandleValid, ScanOnlyWhenUnconnected
  <2>2. QED
    BY <2>1, LinkStep, GattInvStep
<1>3. GattInv => DiscoverySequential /\ SubscribeAwaited
  BY DEF GattInv
<1>4. QED
  BY <1>1, <1>2, <1>3, TypeCorrect, PTL DEF Spec

-----------------------------------------------------------------------------
(* Rejected peers.  The invariant follows a peer from its selection to its  *)
(* link: what is being connected to was selectable and stays so, since      *)
(* only a linked peer is rejected and nobody lifts the filter.              *)

NeverCleared ==
  /\ filterCommand.kind # "Clear"
  /\ filterCommand.kind = "Set" => filterCommand.addr # None

LinkIsLive ==
  /\ conn # None => conn \in live
  /\ connectPending => conn = None

AttemptSelectable ==
  connectPending /\ filter = None => ~IsRejectedAddress(deviceAddr)

RejectInv == NeverCleared /\ LinkIsLive /\ AttemptSelectable /\ RejectedPeerLeaves

\* A peer that was rejected is in the list, and a full list still takes it in.
LEMMA FilterEventRejects ==
  ASSUME TypeOK, LinkInv, RejectInv, HandleFilterCommandEvent
  PROVE  RejectInv'
<1>. USE DEF RejectInv, NeverCleared, LinkIsLive, AttemptSelectable, RejectedPeerLeaves,
        IsRejectedAddress
<1>1. UNCHANGED <<conn, deviceAddr, filterCommand, live, connectPending>>
  BY DEF HandleFilterCommandEvent, gap
<1>2. CASE filterCommand.kind \in {"Set", "Clear"}
  BY <1>1, <1>2 DEF HandleFilterCommandEvent
<1>3. CASE filterCommand.kind = "Reject"
  <2>1. CASE state \in Linked
    <3>1. conn # None /\ conn \in closing' /\ ~connectPending
      BY <1>3, <2>1 DEF HandleFilterCommandEvent, LinkInv, ConnHandleValid, Linked, Terminate
    <3>2. QED
      BY <1>1, <3>1
  <2>2. CASE state \notin Linked
    BY <1>1, <1>3, <2>2 DEF HandleFilterCommandEvent, Linked
  <2>3. QED
    BY <2>1, <2>2
<1>4. QED
  BY <1>2, <1>3 DEF HandleFilterCommandEvent

LEMMA RejectStep ==
  ASSUME "dscs" \notin FaultKinds, "reattempt" \notin FaultKinds, "Clear" \notin AppCommands,
         TypeOK, LinkInv, RejectInv, Next
  PROVE  RejectInv'
<1>. USE BleAssumption
     DEF RejectInv, NeverCleared, LinkIsLive, AttemptSelectable, RejectedPeerLeaves,
         IsRejectedAddress
<1>1. CASE UNCHANGED <<conn, choice, connectPending, live, closing>>
  BY <1>1 DEF choice
<1>2. ASSUME conn' = None, UNCHANGED choice, connectPending' => connectPending
      PROVE  RejectInv'
  BY <1>2 DEF choice
<1>3. ASSUME NEW queue, FailConnection(queue) PROVE conn' = None
  BY <1>3 DEF FailConnection, EndConnection
<1>4. CASE OnHostSync \/ OnBackoffTimer
  BY <1>1, <1>4 DEF OnHostSync, OnBackoffTimer, gap
<1>5. CASE OnHostReset
  <2>1. connectPending' = FALSE /\ UNCHANGED choice
    BY <1>5 DEF OnHostReset
  <2>2. CASE conn' = None
    BY <1>2, <2>1, <2>2
  <2>3. CASE conn' # None
    BY <1>5, <2>3 DEF OnHostReset
  <2>4. QED
    BY <2>2, <2>3
<1>6. CASE HandleReconnectEvent
  <2>1. UNCHANGED <<choice, connectPending, live>>
    BY <1>6 DEF HandleReconnectEvent
  <2>2. CASE FailConnection(events)
    BY <1>2, <1>3, <2>1, <2>2
  <2>3. CASE ~FailConnection(events)
    BY <1>1, <1>6, <2>1, <2>3 DEF HandleReconnectEvent
  <2>4. QED
    BY <2>2, <2>3
<1>7. CASE HandleCommandEvent
  <2>1. UNCHANGED <<choice, connectPending, live>>
    BY <1>7 DEF HandleCommandEvent, gap
  <2>2. CASE FailConnection(events)
    BY <1>2, <1>3, <2>1, <2>2
  <2>3. CASE ~FailConnection(events)
    BY <1>1, <1>7, <2>1, <2>3 DEF HandleCommandEvent
  <2>4. QED
    BY <2>2, <2>3
<1>8. CASE HandleFilterCommandEvent
  BY <1>8, FilterEventRejects
<1>9. ASSUME NEW a \in Addresses, HandleDiscReport(a) PROVE RejectInv'
  <2>1. conn = None /\ UNCHANGED <<filter, rejected, filterCommand, live>>
    BY <1>9 DEF HandleDiscReport, LinkInv, ConnHandleValid, Linked
  <2>2. conn' = None
    BY <1>3, <1>9, <2>1 DEF HandleDiscReport
  <2>3. filter' = None => ~IsRejectedAddress(deviceAddr)'
    BY <1>9, <2>1 DEF HandleDiscReport, Selectable
  <2>4. QED
    BY <2>1, <2>2, <2>3
<1>10. ASSUME NEW h \in Handles, HandleConnect(h) PROVE RejectInv'
  <2>1. /\ connectPending /\ connectPending' = FALSE /\ live' = live \cup {h}
        /\ UNCHANGED choice /\ conn' \in {h, None}
    BY <1>10 DEF HandleConnect
  <2>2. QED
    BY <2>1 DEF choice
<1>11. ASSUME NEW h \in Handles, HandleDisconnect(h) PROVE RejectInv'
  <2>1. UNCHANGED <<choice, connectPending>>
    BY <1>11 DEF HandleDisconnect
  <2>2. CASE h = conn
    BY <1>2, <1>11, <2>1, <2>2 DEF HandleDisconnect
  <2>3. CASE h # conn
    BY <1>11, <2>1, <2>3 DEF HandleDisconnect, choice
  <2>4. QED
    BY <2>2, <2>3
<1>12. CASE HandleConnectFailed
  BY <1>2, <1>3, <1>12 DEF HandleConnectFailed
<1>13. ~Reattempt
  BY DEF Reattempt, Fault
<1>14. ASSUME NEW h \in Handles, HandleNotifyRx(h) PROVE RejectInv'
  BY <1>1, <1>14 DEF HandleNotifyRx, GattFrame, gap, choice
<1>15. CASE GattResult
  <2>1. PICK h \in Handles :
          \/ \E kind \in GattKinds : IgnoreStale(kind, h) \/ GattError(kind, h)
          \/ OnMtuResult(h) \/ HandleService(h) \/ HandleServicesDone(h)
          \/ \E b \in BOOLEAN : HandleCharacteristic(h, b)
          \/ HandleCharacteristicsDone(h) \/ HandleCccd(h) \/ HandleDescriptorsDone(h)
          \/ HandleSubscribeWrite(h) \/ HandleWriteResult(h)
    BY <1>15 DEF GattResult
  <2>2. UNCHANGED <<choice, connectPending, live>>
    BY <2>1 DEF IgnoreStale, GattError, OnMtuResult, HandleService, HandleServicesDone,
       HandleCharacteristic, HandleCharacteristicsDone, HandleCccd, HandleDescriptorsDone,
       HandleSubscribeWrite, HandleWriteResult, GattFrame, gap
  <2>3. CASE UNCHANGED <<conn, closing>>
    BY <1>1, <2>2, <2>3
  <2>4. CASE FailConnection(events)
    BY <1>2, <1>3, <2>2, <2>4
  <2>5. ASSUME NEW next, NEW searching, NEW ps, DiscoverNextServiceChrs(next, searching, ps)
        PROVE  RejectInv'
    BY <2>3, <2>4, <2>5 DEF DiscoverNextServiceChrs
  <2>6. CASE HandleServicesDone(h) \/ HandleCharacteristicsDone(h)
    BY <2>5, <2>6 DEF HandleServicesDone, HandleCharacteristicsDone, Fault
  <2>7. CASE OnMtuResult(h) \/ \E kind \in GattKinds : GattError(kind, h)
    BY <2>3, <2>4, <2>7 DEF OnMtuResult, GattError
  <2>8. CASE HandleCccd(h) \/ \E b \in BOOLEAN : HandleCharacteristic(h, b)
    BY <2>3, <2>4, <2>8 DEF HandleCccd, HandleCharacteristic, Fault
  <2>9. CASE \/ \E kind \in GattKinds : IgnoreStale(kind, h)
             \/ HandleService(h) \/ HandleDescriptorsDone(h)
             \/ HandleSubscribeWrite(h) \/ HandleWriteResult(h)
    BY <2>3, <2>9 DEF IgnoreStale, HandleService, HandleDescriptorsDone,
       HandleSubscribeWrite, HandleWriteResult
  <2>10. QED
    BY <2>1, <2>6, <2>7, <2>8, <2>9
<1>16. CASE AppTask
  <2>1. ASSUME NEW kind \in AppCommandKinds, NEW a \in Addresses \cup {None},
               QueueFilterCommand(kind, a)
        PROVE  RejectInv'
    BY <2>1 DEF QueueFilterCommand, AppFrame, gap
  <2>2. CASE WriteCharacteristic \/ PutEvent \/ PollEvents \/ PollCharacteristicEvents
    BY <1>1, <2>2 DEF WriteCharacteristic, PutEvent, PollEvents, PollCharacteristicEvents,
       AppFrame, gap, choice
  <2>3. QED
    BY <1>16, <2>1, <2>2 DEF AppTask
<1>17. QED
  BY <1>4, <1>5, <1>6, <1>7, <1>8, <1>9, <1>10, <1>11, <1>12, <1>13, <1>14, <1>15, <1>16
  DEF Next, HostEvent, Gap

(* A rejected peer is on its way out and not picked again, however the      *)
(* list overflows and wherever the link is when the host task handles the   *)
(* rejection: as long as nobody clears the filter, which nothing in the     *)
(* code does, and the controller does not repeat an attempt by itself.      *)
THEOREM RejectedAreLeft ==
  ASSUME "dscs" \notin FaultKinds, "reattempt" \notin FaultKinds, "Clear" \notin AppCommands
  PROVE  Spec => []RejectedPeerLeaves
<1>1. Init => LinkInv /\ RejectInv
  BY DEF Init, LinkInv, SyncIdle, ConnHandleValid, ScanOnlyWhenUnconnected, Linked,
     RejectInv, NeverCleared, LinkIsLive, AttemptSelectable, RejectedPeerLeaves
<1>2. TypeOK /\ LinkInv /\ RejectInv /\ [Next]_vars => LinkInv' /\ RejectInv'
  <2>1. ASSUME LinkInv, RejectInv, UNCHANGED vars PROVE LinkInv' /\ RejectInv'
    BY <2>1 DEF vars, gap, choice, LinkInv, SyncIdle, ConnHandleValid,
       ScanOnlyWhenUnconnected, Linked, RejectInv, NeverCleared, LinkIsLive,
       AttemptSelectable, RejectedPeerLeaves, IsRejectedAddress
  <2>2. QED
    BY <2>1, LinkStep, RejectStep
<1>3. RejectInv => RejectedPeerLeaves
  BY DEF RejectInv
<1>4. QED
  BY <1>1, <1>2, <1>3, TypeCorrect, PTL DEF Spec

-----------------------------------------------------------------------------
(***************************************************************************)
(* What the refinement needs beyond the invariants above: nothing runs     *)
(* while the machine is off, the controller repeats an attempt only for a  *)
(* link that is gone, and a CCCD is written once.                          *)
(***************************************************************************)
OffIdle == state \in {"Initializing", "Idle"} => ~connectPending /\ ~discActive

ReattemptsDead == connectPending => conn \notin live

SubscribedOnce ==
  /\ pendingSubscribe => subscribeStarted
  /\ conn # None /\ <<"cccd", conn>> \in procs => subscribeStarted /\ ~pendingSubscribe

OnceInv == OffIdle /\ ReattemptsDead /\ SubscribedOnce

\* A connection that is given up leaves nothing of it behind.
LEMMA FailOnce ==
  ASSUME TypeOK, OffIdle, NEW queue, FailConnection(queue),
         live' = live, connectPending' = connectPending
  PROVE  OnceInv'
<1>1. conn' = None /\ state' = "Backoff" /\ pendingSubscribe' = FALSE
  BY DEF FailConnection, EndConnection, ScheduleReconnect, ResetTable
<1>2. None \notin live
  BY BleAssumption DEF TypeOK, GapType
<1> QED BY <1>1, <1>2 DEF OnceInv, OffIdle, ReattemptsDead, SubscribedOnce

\* Every step keeps the additional invariant.
LEMMA OnceStep ==
  ASSUME "dscs" \notin FaultKinds, TypeOK, LinkInv, OnceInv, Next
  PROVE  OnceInv'
<1> USE BleAssumption DEF OnceInv, OffIdle, ReattemptsDead, SubscribedOnce
<1>1. CASE /\ UNCHANGED <<state, conn, table, connectPending, discActive>>
           /\ live' \subseteq live
           /\ conn # None => (<<"cccd", conn>> \in procs' => <<"cccd", conn>> \in procs)
  BY <1>1 DEF table
<1>2. ASSUME NEW queue, FailConnection(queue), UNCHANGED <<live, connectPending>>
      PROVE  OnceInv'
  BY <1>2, FailOnce
<1>3. CASE OnHostSync
  BY <1>3 DEF OnHostSync, StartScan, StartScanRefused, table, LinkInv, SyncIdle
<1>4. CASE OnHostReset
  BY <1>4 DEF OnHostReset, ResetTable, table
<1>5. CASE OnBackoffTimer
  BY <1>1, <1>5 DEF OnBackoffTimer, gap
<1>18. CASE Reattempt
  BY <1>18 DEF Reattempt, table
<1>6. CASE HandleReconnectEvent
  BY <1>1, <1>2, <1>6 DEF HandleReconnectEvent, StartScan, table
<1>7. CASE HandleCommandEvent \/ HandleFilterCommandEvent
  BY <1>1, <1>2, <1>7 DEF HandleCommandEvent, HandleFilterCommandEvent, gap
<1>8. ASSUME NEW a \in Addresses, HandleDiscReport(a) PROVE OnceInv'
  BY <1>2, <1>8 DEF HandleDiscReport, table, LinkInv, ScanOnlyWhenUnconnected, TypeOK, GapType
<1>9. ASSUME NEW h \in Handles, HandleConnect(h) PROVE OnceInv'
  BY <1>9 DEF HandleConnect, ResetTable, ScheduleReconnect
<1>10. ASSUME NEW h \in Handles, HandleDisconnect(h) PROVE OnceInv'
  BY <1>10 DEF HandleDisconnect, ResetTable, ScheduleReconnect, table
<1>11. CASE HandleConnectFailed
  BY <1>11 DEF HandleConnectFailed, FailConnection, EndConnection, ResetTable, ScheduleReconnect
<1>12. ASSUME NEW h \in Handles, NEW kind \in GattKinds,
              IgnoreStale(kind, h) \/ GattError(kind, h)
       PROVE  OnceInv'
  BY <1>1, <1>2, <1>12 DEF IgnoreStale, GattError, Without, GattFrame, gap
<1>13. ASSUME NEW next, NEW searching, NEW ps, conn # None,
              <<"cccd", conn>> \in ps => <<"cccd", conn>> \in procs,
              DiscoverNextServiceChrs(next, searching, ps), GattFrame,
              state \in Linked
       PROVE  OnceInv'
  <2>1. CASE FailConnection(events)
    BY <1>2, <1>13, <2>1 DEF GattFrame, gap
  <2>2. CASE ~FailConnection(events)
    BY <1>13, <2>2 DEF DiscoverNextServiceChrs, GattFrame, gap, Linked
  <2> QED BY <2>1, <2>2
<1>14. ASSUME NEW h \in Handles, HandleServicesDone(h) \/ HandleCharacteristicsDone(h)
       PROVE  OnceInv'
  <2>1. conn = h /\ conn # None /\ GattFrame /\ state \in Linked
    BY <1>14 DEF HandleServicesDone, HandleCharacteristicsDone, Answers, Outstanding,
                 LinkInv, ConnHandleValid
  <2> QED BY <1>13, <1>14, <2>1
          DEF HandleServicesDone, HandleCharacteristicsDone, Without, Fault
<1>15. ASSUME NEW h \in Handles, OnMtuResult(h) \/ HandleCccd(h) PROVE OnceInv'
  <2>1. conn = h /\ GattFrame
    BY <1>15 DEF OnMtuResult, HandleCccd, Answers, Outstanding
  <2>2. CASE FailConnection(events)
    BY <1>2, <2>1, <2>2 DEF GattFrame, gap
  <2>3. CASE ~FailConnection(events)
    BY <1>15, <2>1, <2>3 DEF OnMtuResult, HandleCccd, Without, GattFrame, gap, table
  <2> QED BY <2>2, <2>3
<1>16. ASSUME NEW h \in Handles, NEW isReadChar \in BOOLEAN,
              HandleCharacteristic(h, isReadChar)
       PROVE  OnceInv'
  BY <1>16 DEF HandleCharacteristic, Fault, GattFrame, gap, Answers, Outstanding
<1>17. ASSUME NEW h \in Handles,
              \/ HandleService(h) \/ HandleDescriptorsDone(h) \/ HandleSubscribeWrite(h)
              \/ HandleWriteResult(h) \/ HandleNotifyRx(h)
       PROVE  OnceInv'
  BY <1>1, <1>17 DEF HandleService, HandleDescriptorsDone, HandleSubscribeWrite,
     HandleWriteResult, HandleNotifyRx, Without, GattFrame, gap, table
<1>19. CASE AppTask
  BY <1>1, <1>19 DEF AppTask, WriteCharacteristic, PutEvent, PollEvents,
     PollCharacteristicEvents, QueueFilterCommand, AppFrame, gap
<1> QED
  BY <1>3, <1>4, <1>5, <1>6, <1>7, <1>8, <1>9, <1>10, <1>11, <1>12, <1>14, <1>15, <1>16,
     <1>17, <1>18, <1>19 DEF Next, HostEvent, Gap, GattResult
-----------------------------------------------------------------------------
(* The steps of BleManager as steps of BleLink.                             *)

(* The queue of BleLink treats a report as event_queue_ treats an event.    *)
LEMMA ReportIsEnqueue ==
  \A queue, type : Link!Report(queue, type) = Enqueue(queue, type)
BY DEF Link!Report, Enqueue, Offer

\* The phase of each state, before and after a step.
LEMMA PhaseOf ==
  ASSUME TypeOK, TypeOK'
  PROVE  /\ LinkPhase = "off" <=> state \in {"Initializing", "Idle"}
         /\ LinkPhase = "searching" <=> state \in {"Scanning", "Backoff"}
         /\ LinkPhase = "ready" <=> state = "ReadyForProtocol"
         /\ LinkPhase = "linking" <=>
              state \in {"Connecting", "Connected", "DiscoveringServices"}
         /\ LinkPhase' = "off" <=> state' \in {"Initializing", "Idle"}
         /\ LinkPhase' = "searching" <=> state' \in {"Scanning", "Backoff"}
         /\ LinkPhase' = "ready" <=> state' = "ReadyForProtocol"
         /\ LinkPhase' = "linking" <=>
              state' \in {"Connecting", "Connected", "DiscoveringServices"}
<1>1. state \in States /\ state' \in States
  BY DEF TypeOK, MachineType
<1> QED BY <1>1 DEF LinkPhase, States

\* A step that leaves the states, the subscription and the queue alone.
LEMMA StutterStep ==
  ASSUME LinkPhase' = LinkPhase, events' = events, LinkSubscribed' <=> LinkSubscribed
  PROVE  UNCHANGED Link!vars
<1>1. LinkSubscribed' = LinkSubscribed
  BY DEF LinkSubscribed
<1> QED BY <1>1 DEF Link!vars

\* The whole of FailConnection is one step of BleLink.
LEMMA FailedStep ==
  ASSUME TypeOK, TypeOK', state \notin {"Initializing", "Idle"},
         state' = "Backoff", conn' = None, events' = Enqueue(events, "ConnectionFailed")
  PROVE  Link!Failed
<1>1. LinkSubscribed' = FALSE
  BY DEF LinkSubscribed
<1> QED BY <1>1, PhaseOf, ReportIsEnqueue DEF Link!Failed

\* Every step of BleManager is a step of BleLink, or changes nothing of it.
LEMMA LinkRefinementStep ==
  ASSUME "dscs" \notin FaultKinds, TypeOK, TypeOK', LinkInv, LinkInv', GattInv, Awaited,
         OnceInv, Next
  PROVE  [Link!Next]_(Link!vars)
<1> DEFINE Off == {"Initializing", "Idle"}
<1> USE BleAssumption
<1>1. CASE /\ UNCHANGED <<state, conn, pendingSubscribe, subscribeStarted, events>>
           /\ conn # None => (<<"cccd", conn>> \in procs' <=> <<"cccd", conn>> \in procs)
  <2>1. LinkPhase' = LinkPhase
    BY <1>1 DEF LinkPhase
  <2>2. LinkSubscribed' <=> LinkSubscribed
    BY <1>1 DEF LinkSubscribed
  <2> QED BY <1>1, <2>1, <2>2, StutterStep
<1>2. ASSUME FailConnection(events), state \notin Off PROVE Link!Failed
  BY <1>2, FailLink, FailedStep DEF FailConnection, EndConnection
<1>3. conn # None => state \in Linked /\ state \notin Off
  BY DEF LinkInv, ConnHandleValid, Linked
<1>4. connectPending => state \notin Off /\ state # "ReadyForProtocol"
  BY DEF OnceInv, OffIdle, ReattemptsDead, Awaited
<1>5. CASE OnHostSync
  <2>1. state \in Off /\ conn = None /\ conn' = None
    BY <1>5 DEF OnHostSync, LinkInv, SyncIdle
  <2>2. ~LinkSubscribed /\ ~LinkSubscribed' /\ LinkSubscribed' = LinkSubscribed
    BY <2>1 DEF LinkSubscribed
  <2>3. CASE UNCHANGED <<state, events>>
    BY <2>2, <2>3, StutterStep DEF LinkPhase
  <2>4. CASE ~UNCHANGED <<state, events>>
    <3>1. events' = Enqueue(events, "HostSynced") /\ state' \in Off \cup {"Scanning"}
      BY <1>5, <2>1, <2>4 DEF OnHostSync, StartScan
    <3> QED BY <2>1, <2>2, <3>1, PhaseOf, ReportIsEnqueue DEF Link!Synced, Link!Next
  <2> QED BY <2>3, <2>4
<1>6. CASE OnHostReset
  <2>1. LinkSubscribed' = FALSE /\ LinkPhase' = "off"
    <3>1. conn' = None \/ (conn = None /\ conn' = conn)
      BY <1>6 DEF OnHostReset
    <3> QED BY <1>6, <3>1, PhaseOf DEF OnHostReset, LinkSubscribed
  <2>2. CASE conn = None /\ ~connectPending
    <3>1. state \notin Linked \cup {"Connecting"}
      BY <2>2 DEF LinkInv, ConnHandleValid, Awaited
    <3>2. events' = Enqueue(events, "HostReset")
      BY <1>6, <2>2 DEF OnHostReset
    <3> QED BY <2>1, <3>1, <3>2, PhaseOf, ReportIsEnqueue DEF Link!Reset, Link!Next, Linked
  <2>3. CASE conn # None \/ connectPending
    <3>1. \/ events' = Enqueue(Enqueue(events, "ConnectionFailed"), "HostReset")
          \/ events' = Enqueue(Enqueue(Enqueue(events, "ConnectionFailed"),
                                       "ConnectionFailed"), "HostReset")
      BY <1>6, <2>3 DEF OnHostReset
    <3> QED BY <2>1, <3>1, ReportIsEnqueue DEF Link!Reset, Link!Next
  <2> QED BY <2>2, <2>3
<1>7. CASE OnBackoffTimer \/ Reattempt
  BY <1>1, <1>7 DEF OnBackoffTimer, Reattempt, table
<1>8. CASE HandleReconnectEvent
  <2>1. CASE state # "Backoff"
    BY <1>1, <1>8, <2>1 DEF HandleReconnectEvent, StartScan, StartScanRefused, table
  <2>2. CASE state = "Backoff" /\ FailConnection(events)
    BY <1>2, <2>2 DEF Link!Next
  <2>3. CASE state = "Backoff" /\ ~FailConnection(events)
    <3>1. state' = "Scanning" /\ UNCHANGED <<conn, events>> /\ conn = None
      BY <1>3, <1>8, <2>3 DEF HandleReconnectEvent, StartScan, Linked
    <3>2. LinkSubscribed' <=> LinkSubscribed
      BY <3>1 DEF LinkSubscribed
    <3> QED BY <2>3, <3>1, <3>2, StutterStep, PhaseOf
  <2> QED BY <1>8, <2>1, <2>2, <2>3
<1>9. CASE HandleCommandEvent
  <2>1. CASE conn # None /\ FailConnection(events)
    BY <1>2, <1>3, <2>1 DEF Link!Next
  <2>2. CASE ~(conn # None /\ FailConnection(events))
    BY <1>1, <1>9, <2>2 DEF HandleCommandEvent, table
  <2> QED BY <2>1, <2>2
<1>10. CASE HandleFilterCommandEvent
  BY <1>1, <1>10 DEF HandleFilterCommandEvent, table
<1>11. ASSUME NEW a \in Addresses, HandleDiscReport(a) PROVE Link!Next
  <2>1. state = "Scanning" /\ conn = None /\ conn' = None
    BY <1>3, <1>11 DEF HandleDiscReport, FailConnection, EndConnection, Linked
  <2>2. LinkSubscribed' = LinkSubscribed
    BY <2>1 DEF LinkSubscribed
  <2>3. CASE state' = "Connecting" /\ events' = Enqueue(events, "DeviceFound")
    BY <2>1, <2>2, <2>3, PhaseOf, ReportIsEnqueue DEF Link!Found, Link!Next
  <2>4. CASE FailConnection(Enqueue(events, "DeviceFound"))
    <3>1. /\ state' = "Backoff"
          /\ events' = Enqueue(Enqueue(events, "DeviceFound"), "ConnectionFailed")
      BY <2>4 DEF FailConnection, EndConnection, ScheduleReconnect
    <3>2. LinkPhase = "searching" /\ LinkPhase' = "searching"
      BY <2>1, <3>1, PhaseOf
    <3> QED BY <2>2, <3>1, <3>2, ReportIsEnqueue DEF Link!FoundInVain, Link!Next
  <2> QED BY <1>11, <2>3, <2>4 DEF HandleDiscReport
<1>12. ASSUME NEW h \in Handles, HandleConnect(h) PROVE Link!Next
  <2>1. state \notin Off \cup {"ReadyForProtocol"} /\ state \in States
    BY <1>4, <1>12 DEF HandleConnect, TypeOK, MachineType
  <2>2. CASE conn' = h
    <3>1. /\ state' \in {"Connected", "DiscoveringServices"}
          /\ subscribeStarted' = FALSE /\ events' = events
      BY <1>12, <2>2 DEF HandleConnect, ResetTable
    <3>2. LinkSubscribed' = FALSE
      BY <3>1 DEF LinkSubscribed
    <3>3. LinkPhase \in {"searching", "linking"}
      BY <2>1, PhaseOf DEF States
    <3> QED BY <3>1, <3>2, <3>3, PhaseOf DEF Link!Relinked, Link!Next
  <2>3. CASE conn' # h
    <3>1. conn' = None /\ state' = "Backoff" /\ events' = Enqueue(events, "ConnectionFailed")
      BY <1>12, <2>3 DEF HandleConnect, ScheduleReconnect
    <3> QED BY <2>1, <3>1, FailedStep DEF Link!Next
  <2> QED BY <2>2, <2>3
<1>13. CASE HandleConnectFailed
  BY <1>2, <1>4, <1>13 DEF HandleConnectFailed, Link!Next
<1>14. ASSUME NEW h \in Handles, HandleDisconnect(h) PROVE [Link!Next]_(Link!vars)
  <2>1. CASE h = conn
    <3>1. conn' = None /\ state' = "Backoff" /\ events' = Enqueue(events, "ConnectionFailed")
      BY <1>14, <2>1 DEF HandleDisconnect, ScheduleReconnect
    <3> QED BY <1>3, <2>1, <3>1, FailedStep DEF Link!Next
  <2>2. CASE h # conn
    BY <1>1, <1>14, <2>2 DEF HandleDisconnect, table
  <2> QED BY <2>1, <2>2
<1>15. ASSUME NEW h \in Handles, NEW kind \in GattKinds,
              IgnoreStale(kind, h) \/ GattError(kind, h)
       PROVE  [Link!Next]_(Link!vars)
  <2>1. CASE IgnoreStale(kind, h)
    BY <1>1, <2>1 DEF IgnoreStale, Without, table
  <2>2. CASE GattError(kind, h)
    BY <1>2, <1>3, <2>2 DEF GattError, Outstanding, Link!Next
  <2> QED BY <1>15, <2>1, <2>2
<1>16. ASSUME NEW h \in Handles, OnMtuResult(h) PROVE [Link!Next]_(Link!vars)
  <2>1. conn = h /\ state \in {"Connected", "DiscoveringServices"}
    BY <1>3, <1>16 DEF OnMtuResult, Outstanding, GattInv, DiscoverySequential, Discovery, Linked
  <2>2. CASE FailConnection(events)
    BY <1>2, <1>3, <2>1, <2>2 DEF Link!Next
  <2>3. CASE ~FailConnection(events)
    <3>1. /\ state' = "DiscoveringServices"
          /\ UNCHANGED <<conn, pendingSubscribe, subscribeStarted, events>>
          /\ <<"cccd", conn>> \in procs' <=> <<"cccd", conn>> \in procs
      BY <1>16, <2>1, <2>3 DEF OnMtuResult, Without, table
    <3>2. LinkSubscribed' <=> LinkSubscribed
      BY <3>1 DEF LinkSubscribed
    <3> QED BY <2>1, <3>1, <3>2, StutterStep, PhaseOf
  <2> QED BY <2>2, <2>3
<1>17. ASSUME NEW next \in Nat, NEW searching, NEW ps, NEW kind \in Discovery, conn # None,
              <<kind, conn>> \in procs,
              <<"cccd", conn>> \in ps <=> <<"cccd", conn>> \in procs,
              DiscoverNextServiceChrs(next, searching, ps)
       PROVE  [Link!Next]_(Link!vars)
  <2>1. state \in {"Connected", "DiscoveringServices"} /\ numServices \in Nat
    BY <1>3, <1>17 DEF GattInv, DiscoverySequential, Linked, TypeOK, MachineType
  <2>2. CASE FailConnection(events)
    BY <1>2, <1>3, <1>17, <2>2 DEF Link!Next
  <2>3. CASE next < numServices /\ ~FailConnection(events)
    BY <1>1, <1>17, <2>1, <2>3 DEF DiscoverNextServiceChrs
  <2>4. CASE ~(next < numServices) /\ ~FailConnection(events)
    <3>1. /\ state' = "ReadyForProtocol" /\ events' = Enqueue(events, "ReadyForProtocol")
          /\ UNCHANGED <<conn, pendingSubscribe, subscribeStarted>> /\ procs' = ps
      BY <1>17, <2>1, <2>4 DEF DiscoverNextServiceChrs
    <3>2. LinkSubscribed' = LinkSubscribed
      BY <1>17, <3>1 DEF LinkSubscribed
    <3> QED BY <2>1, <3>1, <3>2, PhaseOf, ReportIsEnqueue DEF Link!Ready, Link!Next
  <2> QED BY <2>2, <2>3, <2>4
<1>18. ASSUME NEW h \in Handles, HandleServicesDone(h) \/ HandleCharacteristicsDone(h)
       PROVE  [Link!Next]_(Link!vars)
  <2>1. nextService \in Nat /\ nextService + 1 \in Nat /\ h # None
    BY DEF TypeOK, MachineType
  <2> QED
    BY <1>17, <1>18, <2>1 DEF HandleServicesDone, HandleCharacteristicsDone, Answers,
       Outstanding, Without, Fault, Discovery
<1>19. ASSUME NEW h \in Handles, NEW isReadChar \in BOOLEAN,
              HandleCharacteristic(h, isReadChar)
       PROVE  [Link!Next]_(Link!vars)
  <2>1. /\ UNCHANGED <<state, conn, events>>
        /\ conn # None => (<<"cccd", conn>> \in procs' <=> <<"cccd", conn>> \in procs)
    BY <1>19 DEF HandleCharacteristic, Fault
  <2>2. CASE isReadChar /\ ~subscribeStarted
    <3>1. pendingSubscribe' /\ ~subscribeStarted
      BY <1>19, <2>2 DEF HandleCharacteristic, Fault
    <3>2. LinkSubscribed' <=> LinkSubscribed
      BY <3>1 DEF LinkSubscribed
    <3> QED BY <2>1, <3>2, StutterStep DEF LinkPhase
  <2>3. CASE ~(isReadChar /\ ~subscribeStarted)
    <3>1. (pendingSubscribe' <=> pendingSubscribe) /\ (subscribeStarted' <=> subscribeStarted)
      BY <1>19, <2>3 DEF HandleCharacteristic, Fault
    <3>2. LinkSubscribed' <=> LinkSubscribed
      BY <2>1, <3>1 DEF LinkSubscribed
    <3> QED BY <2>1, <3>2, StutterStep DEF LinkPhase
  <2> QED BY <2>2, <2>3
<1>20. ASSUME NEW h \in Handles, HandleCccd(h) PROVE [Link!Next]_(Link!vars)
  <2>1. conn = h /\ pendingSubscribe
    BY <1>20 DEF HandleCccd, Answers, Outstanding
  <2>2. CASE FailConnection(events)
    BY <1>2, <1>3, <2>1, <2>2 DEF Link!Next
  <2>3. CASE ~FailConnection(events)
    <3>1. UNCHANGED <<state, conn, events>> /\ <<"cccd", conn'>> \in procs'
      BY <1>20, <2>1, <2>3 DEF HandleCccd
    <3>2. LinkSubscribed' <=> LinkSubscribed
      BY <2>1, <3>1 DEF LinkSubscribed
    <3> QED BY <3>1, <3>2, StutterStep DEF LinkPhase
  <2> QED BY <2>2, <2>3
<1>21. ASSUME NEW h \in Handles, HandleSubscribeWrite(h) PROVE Link!Next
  <2>1. /\ conn = h /\ <<"cccd", conn>> \in procs /\ subscribeStarted /\ ~pendingSubscribe
        /\ UNCHANGED <<state, conn, subscribeStarted, pendingSubscribe>>
        /\ events' = Enqueue(events, "Subscribed") /\ <<"cccd", conn'>> \notin procs'
    BY <1>21 DEF HandleSubscribeWrite, Answers, Outstanding, Without, table, OnceInv,
       SubscribedOnce
  <2>2. LinkSubscribed' = TRUE /\ ~LinkSubscribed
    BY <2>1 DEF LinkSubscribed
  <2>3. LinkPhase \in {"linking", "ready"} /\ LinkPhase' = LinkPhase
    BY <1>3, <2>1, PhaseOf DEF LinkPhase, Linked
  <2> QED BY <2>1, <2>2, <2>3, ReportIsEnqueue DEF Link!Subscribe, Link!Next
<1>22. ASSUME NEW h \in Handles,
              HandleService(h) \/ HandleDescriptorsDone(h) \/ HandleWriteResult(h)
                \/ HandleNotifyRx(h)
       PROVE  [Link!Next]_(Link!vars)
  BY <1>1, <1>22 DEF HandleService, HandleDescriptorsDone, HandleWriteResult,
     HandleNotifyRx, Without, table
<1>23. CASE AppTask
  <2>1. CASE PollEvents
    <3>1. events' = <<>> /\ UNCHANGED <<state, conn, table, procs>>
      BY <2>1 DEF PollEvents, AppFrame
    <3>2. LinkPhase' = LinkPhase
      BY <3>1 DEF LinkPhase
    <3>3. LinkSubscribed' = LinkSubscribed
      BY <3>1 DEF LinkSubscribed, table
    <3> QED BY <3>1, <3>2, <3>3 DEF Link!Read, Link!Next
  <2>2. CASE ~PollEvents
    BY <1>1, <1>23, <2>2 DEF AppTask, WriteCharacteristic, PutEvent,
       PollCharacteristicEvents, QueueFilterCommand, AppFrame, table
  <2> QED BY <2>1, <2>2
<1> QED
  BY <1>5, <1>6, <1>7, <1>8, <1>9, <1>10, <1>11, <1>12, <1>13, <1>14, <1>15, <1>16, <1>18,
     <1>19, <1>20, <1>21, <1>22, <1>23
  DEF Next, HostEvent, Gap, GattResult

\* The initial state is the link of BleLink, off.
LEMMA LinkRefinementInit ==
  ASSUME Init PROVE Link!Init /\ OnceInv
<1>1. LinkSubscribed = FALSE /\ LinkPhase = "off"
  BY DEF Init, LinkSubscribed, LinkPhase
<1> QED BY <1>1 DEF Init, Link!Init, OnceInv, OffIdle, ReattemptsDead, SubscribedOnce

(* Behind its queue, BleManager is the link of BleLink: whatever handles,   *)
(* stale results, lost links and repeated attempts do, the app task sees a  *)
(* link searched for, linked, ready and subscribed at most once, and is     *)
(* told of its end.  A refused descriptor search (FailThenReady) is assumed *)
(* away: after it the manager reports ready a link that it has given up.    *)
THEOREM ImplementsLink ==
  ASSUME "dscs" \notin FaultKinds
  PROVE  Spec => LinkSpec
<1> DEFINE Inv == LinkInv /\ GattInv /\ Awaited /\ OnceInv
<1>1. Init => Link!Init /\ Inv
  BY LinkRefinementInit DEF Init, GattInv, DiscoverySequential, SubscribeAwaited, LinkInv,
     SyncIdle, ConnHandleValid, ScanOnlyWhenUnconnected, Linked, Awaited
<1>2. ASSUME TypeOK, TypeOK', Inv, [Next]_vars PROVE Inv' /\ [Link!Next]_(Link!vars)
  <2>1. CASE Next
    BY <1>2, <2>1, LinkStep, GattInvStep, AwaitedStep, OnceStep, LinkRefinementStep
  <2>2. CASE UNCHANGED vars
    <3>1. Inv'
      BY <1>2, <2>2 DEF vars, gap, table, retry, GattInv, DiscoverySequential,
         SubscribeAwaited, LinkInv, SyncIdle, ConnHandleValid, ScanOnlyWhenUnconnected,
         Awaited, OnceInv, OffIdle, ReattemptsDead, SubscribedOnce
    <3>2. LinkPhase' = LinkPhase /\ (LinkSubscribed' <=> LinkSubscribed)
      BY <2>2 DEF vars, table, LinkPhase, LinkSubscribed
    <3> QED BY <2>2, <3>1, <3>2, StutterStep DEF vars
  <2> QED BY <1>2, <2>1, <2>2
<1> QED
  BY <1>1, <1>2, TypeCorrect, PTL DEF Spec, LinkSpec, Link!Spec

-----------------------------------------------------------------------------
(* What the link reports.                                                    *)

(* ReportsTellLink of a queue, in front of a link that is ready or not.     *)
Tells(queue, ready) ==
  \A i \in 1 .. Len(queue) :
    (Len(queue) < EventDepth /\ queue[i] \in Link!LinkReports /\
     \A j \in i + 1 .. Len(queue) : queue[j] \notin Link!LinkReports)
      => (queue[i] = "ReadyForProtocol" <=> ready)

Alternates(queue) ==
  \A i \in 1 .. Len(queue) : \A j \in i + 1 .. Len(queue) :
    (queue[i] = "ReadyForProtocol" /\ queue[j] = "ReadyForProtocol")
      => \E k \in i + 1 .. j - 1 : queue[k] = "ConnectionFailed"

\* What the link being ready once more relies on.
Ended(queue, ready) ==
  (Len(queue) < EventDepth /\ ~ready) =>
    \A i \in 1 .. Len(queue) :
      queue[i] = "ReadyForProtocol" =>
        \E k \in i + 1 .. Len(queue) : queue[k] = "ConnectionFailed"

Honest(queue, ready) == Tells(queue, ready) /\ Alternates(queue) /\ Ended(queue, ready)

Fits(queue) == queue \in Seq(Link!Reports) /\ Len(queue) <= EventDepth

\* What a report adds to a queue with room, and to a full one.
LEMMA ReportIs ==
  ASSUME EventDepth \in Nat, NEW queue, Fits(queue), NEW type \in Link!Reports, NEW q,
         q = Link!Report(queue, type)
  PROVE  /\ Fits(q) /\ Len(queue) \in Nat
         /\ \/ q = queue /\ Len(q) = EventDepth
            \/ /\ Len(q) = Len(queue) + 1 /\ Len(queue) < EventDepth
               /\ q[Len(q)] = type
               /\ \A i \in 1 .. Len(queue) : q[i] = queue[i]
BY DEF Link!Report, Fits

\* A full queue promises nothing of the link.
LEMMA FullQueue ==
  ASSUME EventDepth \in Nat, NEW queue, Len(queue) = EventDepth, NEW ready, Alternates(queue)
  PROVE  Honest(queue, ready)
BY DEF Honest, Tells, Ended

\* A report that is not about the link changes nothing of what it is told.
LEMMA OtherReport ==
  ASSUME EventDepth \in Nat, NEW queue, Fits(queue), NEW type \in Link!Reports \ Link!LinkReports,
         NEW ready \in BOOLEAN, Honest(queue, ready), NEW q, q = Link!Report(queue, type)
  PROVE  Fits(q) /\ Honest(q, ready)
<1>1. CASE q = queue
  BY <1>1
<1>2. CASE q # queue
  <2>1. /\ Len(q) = Len(queue) + 1 /\ Len(queue) < EventDepth /\ q[Len(q)] = type
        /\ \A i \in 1 .. Len(queue) : q[i] = queue[i]
        /\ Len(queue) \in Nat /\ Fits(q)
    BY <1>2, ReportIs
  <2>2. type \notin {"ReadyForProtocol", "ConnectionFailed"}
    BY DEF Link!LinkReports
  <2>3. Tells(q, ready)
    BY <2>1 DEF Honest, Tells
  <2>4. Alternates(q)
    BY <2>1, <2>2 DEF Honest, Alternates
  <2>5. Ended(q, ready)
    BY <2>1, <2>2 DEF Honest, Ended
  <2> QED BY <2>1, <2>3, <2>4, <2>5 DEF Honest
<1> QED BY <1>1, <1>2

\* After the report of a lost link no earlier report counts.
LEMMA FailedReport ==
  ASSUME EventDepth \in Nat, NEW queue, Fits(queue), Alternates(queue), NEW q,
         q = Link!Report(queue, "ConnectionFailed")
  PROVE  Fits(q) /\ Honest(q, FALSE)
<1>1. "ConnectionFailed" \in Link!Reports
  BY DEF Link!Reports
<1>2. CASE q = queue
  <2>1. Fits(q) /\ Len(q) = EventDepth
    BY <1>1, <1>2, ReportIs
  <2> QED BY <1>2, <2>1, FullQueue
<1>3. CASE q # queue
  <2>1. /\ Len(q) = Len(queue) + 1 /\ q[Len(q)] = "ConnectionFailed"
        /\ \A i \in 1 .. Len(queue) : q[i] = queue[i]
        /\ Len(queue) \in Nat /\ Fits(q)
    BY <1>1, <1>3, ReportIs
  <2>2. Tells(q, FALSE)
    BY <2>1 DEF Tells, Link!LinkReports
  <2>3. Alternates(q)
    BY <2>1 DEF Alternates
  <2>4. Ended(q, FALSE)
    BY <2>1 DEF Ended
  <2> QED BY <2>1, <2>2, <2>3, <2>4 DEF Honest
<1> QED BY <1>2, <1>3

\* A link is reported ready only where the last report said that it was not.
LEMMA ReadyReport ==
  ASSUME EventDepth \in Nat, NEW queue, Fits(queue), Honest(queue, FALSE), NEW q,
         q = Link!Report(queue, "ReadyForProtocol")
  PROVE  Fits(q) /\ Honest(q, TRUE)
<1>1. "ReadyForProtocol" \in Link!Reports
  BY DEF Link!Reports
<1>2. CASE q = queue
  <2>1. Fits(q) /\ Len(q) = EventDepth
    BY <1>1, <1>2, ReportIs
  <2> QED BY <1>2, <2>1, FullQueue DEF Honest
<1>3. CASE q # queue
  <2>1. /\ Len(q) = Len(queue) + 1 /\ q[Len(q)] = "ReadyForProtocol"
        /\ \A i \in 1 .. Len(queue) : q[i] = queue[i]
        /\ Len(queue) \in Nat /\ Fits(q) /\ Len(queue) < EventDepth
    BY <1>1, <1>3, ReportIs
  <2>2. Tells(q, TRUE)
    BY <2>1 DEF Tells, Link!LinkReports
  <2>3. Alternates(q)
    <3>1. ASSUME NEW i \in 1 .. Len(queue), NEW j \in i + 1 .. Len(queue),
                 q[i] = "ReadyForProtocol" /\ q[j] = "ReadyForProtocol"
          PROVE  \E k \in i + 1 .. j - 1 : q[k] = "ConnectionFailed"
      <4>1. j \in 1 .. Len(queue) /\ queue[i] = q[i] /\ queue[j] = q[j]
        BY <2>1
      <4>2. PICK k \in i + 1 .. j - 1 : queue[k] = "ConnectionFailed"
        BY <3>1, <4>1 DEF Honest, Alternates
      <4>3. k \in 1 .. Len(queue)
        BY <2>1, <4>1
      <4> QED BY <2>1, <4>2, <4>3
    <3>2. ASSUME NEW i \in 1 .. Len(queue), q[i] = "ReadyForProtocol"
          PROVE  \E k \in i + 1 .. Len(q) - 1 : q[k] = "ConnectionFailed"
      BY <2>1, <3>2 DEF Honest, Ended
    <3> QED BY <2>1, <3>1, <3>2 DEF Alternates
  <2>4. Ended(q, TRUE)
    BY DEF Ended
  <2> QED BY <2>1, <2>2, <2>3, <2>4 DEF Honest
<1> QED BY <1>2, <1>3

-----------------------------------------------------------------------------
\* What is told, and the types, in one invariant.
Told == LinkPhase \in Link!Phases /\ Fits(events) /\ Honest(events, LinkPhase = "ready")

\* Every step keeps what is told true.
LEMMA ToldStep ==
  ASSUME EventDepth \in Nat, Told, Link!Next
  PROVE  Told'
<1> USE DEF Told
<1>1. {"HostSynced", "HostReset", "DeviceFound", "Subscribed"}
        \subseteq Link!Reports \ Link!LinkReports
  BY DEF Link!Reports, Link!LinkReports
<1>2. CASE Link!Synced \/ Link!Found
  BY <1>1, <1>2, OtherReport DEF Link!Synced, Link!Found, Link!Phases
<1>3. CASE Link!FoundInVain
  <2> DEFINE found == Link!Report(events, "DeviceFound")
  <2>1. Fits(found) /\ Honest(found, LinkPhase = "ready")
    BY <1>1, OtherReport
  <2>2. Fits(events') /\ Honest(events', FALSE)
    BY <1>3, <2>1, FailedReport DEF Link!FoundInVain, Honest
  <2> QED BY <1>3, <2>2 DEF Link!FoundInVain
<1>4. CASE Link!Relinked
  BY <1>4 DEF Link!Relinked, Link!Phases
<1>5. CASE Link!Ready
  BY <1>5, ReadyReport DEF Link!Ready, Link!Phases
<1>6. CASE Link!Subscribe
  BY <1>1, <1>6, OtherReport DEF Link!Subscribe
<1>7. CASE Link!Failed
  BY <1>7, FailedReport DEF Link!Failed, Honest, Link!Phases
<1>8. CASE Link!Reset
  <2> DEFINE one == Link!Report(events, "ConnectionFailed")
             two == Link!Report(one, "ConnectionFailed")
  <2>1. Fits(one) /\ Honest(one, FALSE)
    BY FailedReport DEF Honest
  <2>2. Fits(two) /\ Honest(two, FALSE)
    BY <2>1, FailedReport DEF Honest
  <2>3. LinkPhase' = "off"
    BY <1>8 DEF Link!Reset
  <2>4. CASE LinkPhase # "ready" /\ events' = Link!Report(events, "HostReset")
    BY <1>1, <2>3, <2>4, OtherReport DEF Link!Phases
  <2>5. CASE events' = Link!Report(one, "HostReset")
    BY <1>1, <2>1, <2>3, <2>5, OtherReport DEF Link!Phases
  <2>6. CASE events' = Link!Report(two, "HostReset")
    BY <1>1, <2>2, <2>3, <2>6, OtherReport DEF Link!Phases
  <2> QED BY <1>8, <2>4, <2>5, <2>6 DEF Link!Reset
<1>9. CASE Link!Read
  BY <1>9 DEF Link!Read, Fits, Honest, Tells, Alternates, Ended
<1> QED BY <1>2, <1>3, <1>4, <1>5, <1>6, <1>7, <1>8, <1>9 DEF Link!Next

(* What the app task reads tells it whether the link is usable: as long as  *)
(* nothing was dropped, the last word on it is true of the link now, and    *)
(* between two reports of a ready link there is that of its end.  It        *)
(* follows from BleLink alone, whatever the manager behind it does.         *)
THEOREM ReportsAreTrue == LinkSpec => []Link!ReportsTellLink
<1>1. EventDepth \in Nat
  BY BleAssumption
<1>2. Link!Init => Told
  BY <1>1 DEF Link!Init, Told, Link!Phases, Fits, Honest, Tells, Alternates, Ended
<1>3. Told /\ [Link!Next]_(Link!vars) => Told'
  <2>1. ASSUME Told, UNCHANGED Link!vars PROVE Told'
    BY <2>1 DEF Told, Link!vars
  <2> QED BY <1>1, <2>1, ToldStep
<1>4. Told => Link!ReportsTellLink
  BY DEF Told, Honest, Tells, Alternates, Link!ReportsTellLink
<1> QED BY <1>2, <1>3, <1>4, PTL DEF LinkSpec, Link!Spec

(* So the last report of the two that GroheClient acts on is true of the    *)
(* manager when the app task reads it, as long as event_queue_ dropped none *)
(* (ReportsTellLink).                                                       *)
THEOREM ReportsOfManagerAreTrue ==
  ASSUME "dscs" \notin FaultKinds
  PROVE  Spec => []Link!ReportsTellLink
  BY ImplementsLink, ReportsAreTrue, PTL
=============================================================================
