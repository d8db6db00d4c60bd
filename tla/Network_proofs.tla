----------------------------- MODULE Network_proofs -----------------------------
(***************************************************************************)
(* What holds of the Wi-Fi connection and its users for any number of      *)
(* retries and synchronisations: the reference count, that all users of a  *)
(* cycle hear one verdict, that the radio is on while it is needed and off *)
(* when nobody needs it.                                                   *)
(***************************************************************************)
EXTENDS Network, FiniteSetTheorems, TLAPS

--------------------------------------------------------------------------------
(* Queues                                                                  *)

\* What is in a queue after its head was taken, or an element was queued.
LEMMA TailRange ==
  ASSUME NEW S, NEW queue \in Seq(S), queue # <<>>
  PROVE  /\ Head(queue) \in S /\ Tail(queue) \in Seq(S)
         /\ Head(queue) \in Range(queue) /\ Range(Tail(queue)) \subseteq Range(queue)
<1>1. /\ Head(queue) = queue[1] /\ 1 \in DOMAIN queue
      /\ Head(queue) \in S /\ Tail(queue) \in Seq(S)
  OBVIOUS
<1>2. \A i \in DOMAIN Tail(queue) : i + 1 \in DOMAIN queue /\ Tail(queue)[i] = queue[i + 1]
  OBVIOUS
<1> QED BY <1>1, <1>2 DEF Range

LEMMA AppendRange ==
  ASSUME NEW S, NEW queue \in Seq(S), NEW x \in S
  PROVE  Append(queue, x) \in Seq(S) /\ Range(Append(queue, x)) = Range(queue) \cup {x}
<1>1. /\ Append(queue, x) \in Seq(S) /\ Len(queue) \in Nat
      /\ DOMAIN Append(queue, x) = 1 .. Len(queue) + 1 /\ DOMAIN queue = 1 .. Len(queue)
      /\ \A i \in DOMAIN queue : Append(queue, x)[i] = queue[i]
      /\ Append(queue, x)[Len(queue) + 1] = x
  OBVIOUS
<1>2. DOMAIN Append(queue, x) = DOMAIN queue \cup {Len(queue) + 1}
  BY <1>1
<1> QED BY <1>1, <1>2 DEF Range

LEMMA EmptyRange == Range(<<>>) = {}
  BY DEF Range

--------------------------------------------------------------------------------
(* Types                                                                   *)

Events == WifiEvents \cup SntpEvents
AppPcs == {"call", "reset", "start", "check", "sntp", "arm"} \cup Verdicts
AppType == [at : 1 .. 4, pc : AppPcs]
LoopType == [pc : {"idle", "resolve", "callbacks", "sntp", "arm"}, verdict : Verdicts,
             todo : Seq(Users)]

\* TypeOK without the reference count, which is counted below.
NetType ==
  /\ enabled \subseteq Servers
  /\ app \in AppType /\ loop \in LoopType /\ events \in Seq(Events)
  /\ ref_count \in Int /\ bits \subseteq {"connected", "failed"}
  /\ retry_count \in 0 .. MaxWifiRetries /\ sta_connected \in BOOLEAN
  /\ pending_waiters \in Seq(Users)
  /\ told \in [Users -> Verdicts \cup {"nothing"}] /\ serving \subseteq Servers
  /\ torn_down \in BOOLEAN /\ valid \in BOOLEAN
  /\ timer \in {"none", "created", "armed"}
  /\ sntp_on \in BOOLEAN /\ syncs \in 0 .. MaxSyncs
  /\ driver \in DriverStates /\ ap \in BOOLEAN

\* The app task acquires for a user it may acquire for.
AppBusy ==
  /\ app.pc # "call" => app.at < 4 /\ User \in enabled \cup {"sntp"}
  /\ app.pc \in {"sntp", "arm"} => app.at = 3

\* The users, in the order in which the app task boots them.
LEMMA UserAt ==
  /\ Len(BootOrder) = 3
  /\ app.at = 1 => User = "ota"
  /\ app.at = 2 => User = "provisioning"
  /\ app.at = 3 => User = "sntp"
  BY DEF User, BootOrder

\* Tearing down keeps the types.
LEMMA TearDownType ==
  ASSUME NetType, NEW queue \in Seq(Events), TearDown(queue)
  PROVE  /\ torn_down' = TRUE /\ timer' \in {"none", "created", "armed"}
         /\ sntp_on' \in BOOLEAN /\ ref_count' \in Int /\ driver' \in DriverStates
         /\ events' \in Seq(Events)
         /\ events' = queue \/ events' = Append(queue, "disconnected")
<1>1. Append(queue, "disconnected") \in Seq(Events)
  BY AppendRange DEF Events, WifiEvents
<1>2. CASE torn_down
  BY <1>2 DEF TearDown, NetType
<1>3. CASE ~torn_down
  <2>1. torn_down' = TRUE /\ timer' = "none" /\ sntp_on' = FALSE /\ ref_count' = ref_count - 1
    BY <1>3 DEF TearDown
  <2>2. driver' \in {"off", driver}
    BY <1>3 DEF TearDown
  <2>3. events' = queue \/ events' = Append(queue, "disconnected")
    BY <1>3 DEF TearDown
  <2>4. driver \in DriverStates /\ ref_count \in Int
    BY DEF NetType
  <2>5. ref_count' \in Int
    BY <2>1, <2>4
  <2>6. driver' \in DriverStates
    BY <2>2, <2>4 DEF DriverStates
  <2>7. sntp_on' \in BOOLEAN
    BY <2>1
  <2> QED BY <1>1, <2>1, <2>3, <2>5, <2>6, <2>7
<1> QED BY <1>2, <1>3

\* Where a callback leaves the task it runs on.
CallbackMoves(task) ==
  /\ task = "app" =>
       /\ loop' = loop /\ app.pc # "call"
       /\ \/ app' = [at |-> app.at + 1, pc |-> "call"]
          \/ User = "sntp" /\ \E pc \in {"sntp", "arm"} : app' = [app EXCEPT !.pc = pc]
  /\ task = "loop" =>
       /\ app' = app /\ loop.pc \in {"callbacks", "sntp", "arm"}
       /\ loop' \in LoopType /\ loop'.verdict = loop.verdict
       /\ Range(loop'.todo) \subseteq Range(loop.todo)
       /\ \/ loop'.pc = "callbacks"
          \/ loop'.pc \in {"sntp", "arm"} /\ (loop.pc = "sntp" \/ "sntp" \in Range(loop.todo))

LEMMA CallbackMove ==
  ASSUME NetType, AppBusy, NEW task \in {"app", "loop"}, Callbacks(task)
  PROVE  CallbackMoves(task)
<1>1. CASE task = "app"
  <2>1. app.pc # "call" /\ loop' = loop
    BY <1>1 DEF Callbacks, ServerReady, ServerFailed, SntpReady, SntpFailed, CreateTimer,
         TimerRefused, ArmTimer, Calling, At, Return, Finish, GoTo, Verdicts
  <2>2. \/ Finish(task)
        \/ app' = [app EXCEPT !.pc = "sntp"] /\ User = "sntp"
        \/ app' = [app EXCEPT !.pc = "arm"] /\ app.pc = "sntp"
    BY <1>1 DEF Callbacks, ServerReady, ServerFailed, SntpReady, SntpFailed, CreateTimer,
         TimerRefused, ArmTimer, Calling, At, Return, GoTo
  <2>3. app.pc = "sntp" => User = "sntp"
    BY UserAt DEF AppBusy
  <2> QED BY <1>1, <2>1, <2>2, <2>3 DEF Finish, CallbackMoves
<1>2. CASE task = "loop"
  <2>1. app' = app
    BY <1>2 DEF Callbacks, ServerReady, ServerFailed, SntpReady, SntpFailed, CreateTimer,
         TimerRefused, ArmTimer, Return, Finish, GoTo
  <2>2. \/ /\ loop.pc = "callbacks" /\ loop.todo # <<>>
           /\ loop' = [loop EXCEPT !.todo = Tail(@)]
        \/ /\ loop.pc = "callbacks" /\ loop.todo # <<>> /\ Head(loop.todo) = "sntp"
           /\ loop' = [loop EXCEPT !.pc = "sntp", !.todo = Tail(@)]
        \/ loop.pc = "sntp" /\ loop' = [loop EXCEPT !.pc = "arm"]
        \/ loop.pc \in {"sntp", "arm"} /\ loop' = [loop EXCEPT !.pc = "callbacks"]
    BY <1>2 DEF Callbacks, ServerReady, ServerFailed, SntpReady, SntpFailed, CreateTimer,
         TimerRefused, ArmTimer, Calling, At, Return, Finish, GoTo
  <2>3. loop \in LoopType /\ loop.todo \in Seq(Users)
    BY DEF NetType, LoopType
  <2>4. loop.todo # <<>> =>
          /\ Tail(loop.todo) \in Seq(Users) /\ Head(loop.todo) \in Range(loop.todo)
          /\ Range(Tail(loop.todo)) \subseteq Range(loop.todo)
    BY <2>3, TailRange
  <2> QED BY <1>2, <2>1, <2>2, <2>3, <2>4 DEF CallbackMoves, LoopType
<1> QED BY <1>1, <1>2

\* A callback keeps the types.
LEMMA CallbackType ==
  ASSUME NetType, AppBusy, NEW task \in {"app", "loop"}, Callbacks(task)
  PROVE  NetType' /\ AppBusy'
<1>1. CallbackMoves(task)
  BY CallbackMove
<1>2. app' \in AppType /\ loop' \in LoopType /\ AppBusy'
  <2>1. UNCHANGED enabled
    BY DEF Callbacks, ServerReady, ServerFailed, SntpReady, SntpFailed, CreateTimer,
         TimerRefused, ArmTimer, CallbackFrame
  <2>2. CASE task = "loop"
    BY <1>1, <2>1, <2>2 DEF CallbackMoves, NetType, AppBusy, User
  <2>3. CASE task = "app" /\ app' = [at |-> app.at + 1, pc |-> "call"]
    BY <1>1, <2>1, <2>3 DEF CallbackMoves, NetType, AppBusy, AppType, AppPcs
  <2>4. CASE task = "app" /\ \E pc \in {"sntp", "arm"} : app' = [app EXCEPT !.pc = pc]
    <3>1. loop' = loop /\ app.at < 4 /\ app.at \in 1 .. 4 /\ User = "sntp"
      BY <1>1, <2>4 DEF CallbackMoves, AppBusy, NetType, AppType
    <3>2. app.at = 3
      BY <3>1, UserAt
    <3>3. app'.at = app.at /\ app'.pc \in {"sntp", "arm"} /\ app' \in AppType
      BY <2>4 DEF NetType, AppType, AppPcs
    <3> QED BY <3>1, <3>2, <3>3 DEF AppBusy, User, NetType
  <2> QED BY <1>1, <2>2, <2>3, <2>4 DEF CallbackMoves
<1>3. /\ UNCHANGED <<enabled, bits, retry_count, sta_connected, pending_waiters, valid,
                     syncs, ap>>
      /\ \/ TearDown(events)
         \/ /\ UNCHANGED <<events, ref_count, torn_down, driver>>
            /\ sntp_on' \in {TRUE, sntp_on} /\ timer' \in {timer, "created", "armed"}
  BY DEF Callbacks, ServerReady, ServerFailed, SntpReady, SntpFailed, CreateTimer,
       TimerRefused, ArmTimer, CallbackFrame
<1>4. told' \in [Users -> Verdicts \cup {"nothing"}] /\ serving' \subseteq Servers
  <2>1. \/ UNCHANGED userVars
        \/ /\ \E u \in Users, verdict \in Verdicts :
                Calling(task, u, verdict) /\ told' = [told EXCEPT ![u] = verdict]
           /\ UNCHANGED serving
        \/ \E u \in Servers :
             /\ Calling(task, u, "ready") /\ told' = [told EXCEPT ![u] = "ready"]
             /\ serving' \in {serving, serving \cup {u}}
    BY DEF Callbacks, ServerReady, ServerFailed, SntpReady, SntpFailed, CreateTimer,
         TimerRefused, ArmTimer, userVars, Users, Verdicts
  <2>2. Servers \subseteq Users
    BY DEF Users
  <2>3. \A u \in Users, verdict \in Verdicts :
          [told EXCEPT ![u] = verdict] \in [Users -> Verdicts \cup {"nothing"}]
    BY DEF NetType
  <2>4. told' \in [Users -> Verdicts \cup {"nothing"}]
    BY <2>1, <2>2, <2>3 DEF NetType, userVars, Verdicts
  <2>5. serving' \subseteq Servers
    BY <2>1 DEF NetType, userVars
  <2> QED BY <2>4, <2>5
<1>5. events \in Seq(Events)
  BY DEF NetType
<1> QED BY <1>2, <1>3, <1>4, <1>5, TearDownType DEF NetType

\* The app task's own steps keep the types.
LEMMA AppStepType ==
  ASSUME NetType, AppBusy,
         SkipUser \/ AddReference \/ ResetCycle \/ StartConnecting
           \/ StartConnectingFails \/ CheckOrQueue
  PROVE  NetType' /\ AppBusy'
<1>1. app \in AppType /\ app.at \in 1 .. 4
  BY DEF NetType, AppType
<1>2. CASE SkipUser
  <2>1. app.at < 4 /\ app' = [at |-> app.at + 1, pc |-> "call"] /\ loop' = loop
    BY <1>1, <1>2, UserAt DEF SkipUser, Finish, Booted
  <2>2. app' \in AppType /\ AppBusy'
    BY <1>1, <2>1 DEF AppType, AppPcs, AppBusy
  <2> QED BY <1>2, <2>1, <2>2 DEF SkipUser, NetType, cycleVars, userVars, sntpVars
<1>3. CASE AddReference
  <2>1. app.at < 4 /\ app'.at = app.at /\ app'.pc \in {"reset", "check"} /\ app' \in AppType
    BY <1>1, <1>3, UserAt DEF AddReference, Booted, AppType, AppPcs
  <2>2. AppBusy'
    BY <1>3, <2>1 DEF AddReference, AppBusy, User, AppFrame
  <2> QED BY <1>3, <2>1, <2>2 DEF AddReference, AppFrame, NetType, userVars, sntpVars
<1>4. CASE ResetCycle \/ StartConnecting \/ StartConnectingFails
  <2>1. app'.at = app.at /\ app'.pc \in {"start", "check", "failed"} /\ app' \in AppType
        /\ app.pc # "call" /\ UNCHANGED enabled
    BY <1>1, <1>4 DEF ResetCycle, StartConnecting, StartConnectingFails, AppType, AppPcs,
         AppFrame, Verdicts
  <2>2. AppBusy'
    BY <2>1 DEF AppBusy, User
  <2>3. Append(events, "start") \in Seq(Events)
    BY AppendRange DEF NetType, Events, WifiEvents
  <2>4. /\ UNCHANGED <<enabled, loop, ref_count, pending_waiters, userVars, sntpVars, ap>>
        /\ retry_count' \in {0, retry_count} /\ sta_connected' \in {FALSE, sta_connected}
        /\ bits' \in {{}, bits, bits \cup {"failed"}} /\ driver' \in {driver, "started"}
        /\ events' \in {events, Append(events, "start")}
    BY <1>4 DEF ResetCycle, StartConnecting, StartConnectingFails, AppFrame, cycleVars
  <2>5. retry_count' \in 0 .. MaxWifiRetries /\ bits' \subseteq {"connected", "failed"}
        /\ driver' \in DriverStates /\ sta_connected' \in BOOLEAN
    <3>1. /\ retry_count \in 0 .. MaxWifiRetries /\ bits \subseteq {"connected", "failed"}
          /\ driver \in DriverStates /\ sta_connected \in BOOLEAN
      BY DEF NetType
    <3>2. retry_count' \in 0 .. MaxWifiRetries
      BY <2>4, <3>1, NetworkAssumption
    <3>3. bits' \subseteq {"connected", "failed"}
      BY <2>4, <3>1
    <3>4. driver' \in DriverStates
      BY <2>4, <3>1 DEF DriverStates
    <3>5. sta_connected' \in BOOLEAN
      BY <2>4, <3>1
    <3> QED BY <3>2, <3>3, <3>4, <3>5
  <2> QED BY <2>1, <2>2, <2>3, <2>4, <2>5 DEF NetType, userVars, sntpVars
<1>5. CASE CheckOrQueue
  <2>1. app.at < 4 /\ app.pc # "call" /\ UNCHANGED enabled
    BY <1>5 DEF CheckOrQueue, AppBusy, AppFrame
  <2>2. User \in Users
    BY <2>1 DEF AppBusy, NetType, Users
  <2>3. Append(pending_waiters, User) \in Seq(Users)
    BY <2>2, AppendRange DEF NetType
  <2>4. /\ pending_waiters' \in Seq(Users)
        /\ \/ app' = [app EXCEPT !.pc = "ready"] \/ app' = [app EXCEPT !.pc = "failed"]
           \/ app' = [at |-> app.at + 1, pc |-> "call"]
    BY <1>5, <2>3 DEF CheckOrQueue, NetType
  <2>6. /\ app' \in AppType
        /\ \/ app'.at = app.at /\ app'.pc \in {"ready", "failed"}
           \/ app'.pc = "call"
    BY <1>1, <2>1, <2>4 DEF AppType, AppPcs, Verdicts
  <2>5. AppBusy'
    BY <2>1, <2>6 DEF AppBusy, User
  <2> QED BY <1>5, <2>4, <2>5, <2>6 DEF CheckOrQueue, AppFrame, NetType, userVars, sntpVars
<1> QED BY <1>2, <1>3, <1>4, <1>5

\* A step of the event loop that is no callback, as the loop's position sees it.
LoopStep ==
  \/ DropWifiEvent \/ OnStaStart \/ OnStaConnected \/ OnStaDisconnected \/ OnGotIp
  \/ Resolve \/ CallbacksDone \/ HandleSynced \/ HandleSntpTimeout

\* The event that is handled was queued.
LEMMA Handled ==
  ASSUME NetType, NEW event, Handling(event)
  PROVE  /\ loop.pc = "idle" /\ event \in Range(events)
         /\ Tail(events) \in Seq(Events) /\ Range(Tail(events)) \subseteq Range(events)
  BY TailRange DEF NetType, Handling

\* The event loop keeps the types.
LEMMA LoopStepType ==
  ASSUME NetType, AppBusy, LoopStep PROVE NetType' /\ AppBusy'
<1>1. app' = app /\ UNCHANGED enabled
  BY DEF LoopStep, DropWifiEvent, OnStaStart, OnStaConnected, OnStaDisconnected, OnGotIp,
       WifiEventFrame, Resolve, CallbacksDone, HandleSynced, HandleSntpTimeout, SntpEventFrame
<1>2. AppBusy'
  BY <1>1 DEF AppBusy, User
<1>3. CASE DropWifiEvent \/ OnStaStart \/ OnStaConnected \/ OnStaDisconnected \/ OnGotIp
  <2>1. events' \in Seq(Events)
    BY <1>3, Handled DEF DropWifiEvent, OnStaStart, OnStaConnected, OnStaDisconnected, OnGotIp
  <2>2. loop' \in LoopType
    BY <1>3 DEF DropWifiEvent, OnStaStart, OnStaConnected, OnStaDisconnected, OnGotIp,
         TryConnect, NetType, LoopType, Verdicts
  <2>3. driver' \in DriverStates
    BY <1>3 DEF DropWifiEvent, OnStaStart, OnStaConnected, OnStaDisconnected, OnGotIp,
         TryConnect, NetType, DriverStates
  <2>4. retry_count' \in 0 .. MaxWifiRetries /\ sta_connected' \in BOOLEAN
    <3>1. retry_count' = retry_count
          \/ (retry_count < MaxWifiRetries /\ retry_count' = retry_count + 1)
      BY <1>3 DEF DropWifiEvent, OnStaStart, OnStaConnected, OnStaDisconnected, OnGotIp
    <3>2. sta_connected' \in {sta_connected, TRUE, FALSE}
      BY <1>3 DEF DropWifiEvent, OnStaStart, OnStaConnected, OnStaDisconnected, OnGotIp
    <3>3. retry_count \in 0 .. MaxWifiRetries /\ sta_connected \in BOOLEAN
      BY DEF NetType
    <3>4. retry_count' \in 0 .. MaxWifiRetries
      BY <3>1, <3>3, NetworkAssumption
    <3>5. sta_connected' \in BOOLEAN
      BY <3>2, <3>3
    <3> QED BY <3>4, <3>5
  <2>5. UNCHANGED <<ref_count, bits, pending_waiters, userVars, sntpVars, ap>>
    BY <1>3 DEF DropWifiEvent, OnStaStart, OnStaConnected, OnStaDisconnected, OnGotIp,
         WifiEventFrame
  <2> QED BY <1>1, <1>2, <2>1, <2>2, <2>3, <2>4, <2>5 DEF NetType, userVars, sntpVars
<1>4. CASE Resolve \/ CallbacksDone
  <2>1. loop' \in LoopType /\ pending_waiters' \in Seq(Users)
        /\ bits' \subseteq {"connected", "failed"}
    <3>1. bits' \in {bits, bits \cup {"connected"}, bits \cup {"failed"}}
      BY <1>4 DEF Resolve, CallbacksDone, cycleVars
    <3>2. pending_waiters' \in {pending_waiters, <<>>}
      BY <1>4 DEF Resolve, CallbacksDone, cycleVars
    <3>3. loop' \in LoopType
      BY <1>4 DEF Resolve, CallbacksDone, NetType, LoopType
    <3>4. bits \subseteq {"connected", "failed"} /\ pending_waiters \in Seq(Users)
          /\ <<>> \in Seq(Users)
      BY DEF NetType
    <3> QED BY <3>1, <3>2, <3>3, <3>4
  <2> QED BY <1>1, <1>2, <1>4, <2>1 DEF Resolve, CallbacksDone, NetType, cycleVars, userVars,
             sntpVars
<1>5. CASE HandleSynced \/ HandleSntpTimeout
  <2>1. TearDown(Tail(events)) /\ Tail(events) \in Seq(Events)
    BY <1>5, Handled DEF HandleSynced, HandleSntpTimeout
  <2>2. /\ torn_down' \in BOOLEAN /\ timer' \in {"none", "created", "armed"}
        /\ sntp_on' \in BOOLEAN /\ ref_count' \in Int /\ driver' \in DriverStates
        /\ events' \in Seq(Events)
    BY <2>1, TearDownType
  <2> QED BY <1>1, <1>2, <1>5, <2>2 DEF HandleSynced, HandleSntpTimeout, SntpEventFrame,
             NetType, userVars
<1> QED BY <1>3, <1>4, <1>5 DEF LoopStep

\* The environment keeps the types.
LEMMA EnvironmentType ==
  ASSUME NetType, AppBusy, Environment PROVE NetType' /\ AppBusy'
<1>1. EnvFrame
  BY DEF Environment, Associate, AttemptFails, Lease, LinkLost, Drive, ApChanges, TimeSync,
       TimerFires
<1>2. \A event \in Events : Append(events, event) \in Seq(Events)
  BY AppendRange DEF NetType
<1>3. /\ events' \in Seq(Events) /\ driver' \in DriverStates /\ ap' \in BOOLEAN
      /\ timer' \in {"none", "created", "armed"} /\ syncs' \in 0 .. MaxSyncs
  <2>1. events' = events \/ \E event \in Events : events' = Append(events, event)
    BY DEF Environment, Associate, AttemptFails, Lease, LinkLost, Drive, ApChanges, TimeSync,
         TimerFires, Events, WifiEvents, SntpEvents
  <2>2. driver' \in {driver, "associated", "started", "online"} /\ timer' \in {timer, "created"}
    BY DEF Environment, Associate, AttemptFails, Lease, LinkLost, Drive, ApChanges, TimeSync,
         TimerFires
  <2>3. syncs' = syncs \/ (syncs < MaxSyncs /\ syncs' = syncs + 1)
    BY DEF Environment, Associate, AttemptFails, Lease, LinkLost, Drive, ApChanges, TimeSync,
         TimerFires
  <2>4. ap' \in {ap, ~ap}
    BY DEF Environment, Associate, AttemptFails, Lease, LinkLost, Drive, ApChanges, TimeSync,
         TimerFires
  <2>5. /\ events \in Seq(Events) /\ driver \in DriverStates /\ ap \in BOOLEAN
        /\ timer \in {"none", "created", "armed"} /\ syncs \in 0 .. MaxSyncs
    BY DEF NetType
  <2>6. syncs' \in 0 .. MaxSyncs
    BY <2>3, <2>5, NetworkAssumption
  <2> QED BY <1>2, <2>1, <2>2, <2>4, <2>5, <2>6 DEF DriverStates
<1> QED BY <1>1, <1>3 DEF EnvFrame, NetType, AppBusy, User, cycleVars, userVars

\* Every step keeps the types.
LEMMA TypeStep == NetType /\ AppBusy /\ [Next]_vars => NetType' /\ AppBusy'
<1> SUFFICES ASSUME NetType, AppBusy, [Next]_vars PROVE NetType' /\ AppBusy'
  OBVIOUS
<1>1. CASE Callbacks("app") \/ Callbacks("loop")
  BY <1>1, CallbackType
<1>2. CASE AppTask /\ ~Callbacks("app")
  BY <1>2, AppStepType DEF AppTask
<1>3. CASE EventLoop /\ ~Callbacks("loop")
  BY <1>3, LoopStepType DEF EventLoop, LoopStep
<1>4. CASE Environment
  BY <1>4, EnvironmentType
<1>5. CASE UNCHANGED vars
  BY <1>5 DEF vars, cycleVars, userVars, sntpVars, NetType, AppBusy, User
<1> QED BY <1>1, <1>2, <1>3, <1>4, <1>5 DEF Next

--------------------------------------------------------------------------------
(* Who holds a reference                                                    *)

\* The place of a user in the boot order.
Place(u) == IF u = "ota" THEN 1 ELSE IF u = "provisioning" THEN 2 ELSE 3

\* The user has acquired: the app task is past it, or at work for it.
Has(u) ==
  /\ u \in enabled \cup {"sntp"}
  /\ app.at > Place(u) \/ (app.at = Place(u) /\ app.pc # "call")

\* What a user counts for: SNTP releases when it is torn down.
Held(u) == IF Has(u) /\ ~(u = "sntp" /\ torn_down) THEN 1 ELSE 0

RefCounted ==
  /\ ref_count = Held("ota") + Held("provisioning") + Held("sntp")
  /\ torn_down => Has("sntp")

\* Only who has acquired waits, is called back or serves.
WaitersHold ==
  /\ \A u \in Range(pending_waiters) \cup Range(loop.todo) : Has(u)
  /\ \A u \in Users : told[u] # "nothing" => Has(u)

\* SNTP runs for a user that has acquired.
SntpHolds ==
  sntp_on \/ timer # "none" \/ loop.pc \in {"sntp", "arm"} \/ Range(events) \cap SntpEvents # {}
    => Has("sntp")

HoldInv == RefCounted /\ WaitersHold /\ SntpHolds

\* How the app task moves when it acquires for nobody.
AppStays ==
  /\ UNCHANGED enabled
  /\ \/ app' = app
     \/ app.pc # "call" /\ app' = [at |-> app.at + 1, pc |-> "call"]
     \/ app.pc # "call" /\ \E pc \in AppPcs \ {"call"} : app' = [app EXCEPT !.pc = pc]
     \/ /\ app.pc = "call" /\ app.at < 4 /\ User \in Servers \ enabled
        /\ app' = [at |-> app.at + 1, pc |-> "call"]

\* Then those who have acquired stay the same.
LEMMA HasKept ==
  ASSUME NetType, AppBusy, AppStays PROVE \A u \in Users : Has(u)' <=> Has(u)
<1>1. app \in AppType /\ app.at \in 1 .. 4
  BY DEF NetType, AppType
<1>2. CASE app' = app
  BY <1>2 DEF AppStays, Has
<1>3. CASE app' = [at |-> app.at + 1, pc |-> "call"] /\ app.pc # "call"
  <2>1. app'.at = app.at + 1 /\ app'.pc = "call"
    BY <1>3
  <2>2. app.at \in 1 .. 3 /\ User \in enabled \cup {"sntp"}
    BY <1>1, <1>3 DEF AppBusy
  <2> QED BY <1>3, <2>1, <2>2, UserAt DEF AppStays, Has, Place, Users, Servers
<1>4. CASE app.pc # "call" /\ \E pc \in AppPcs \ {"call"} : app' = [app EXCEPT !.pc = pc]
  <2>1. app'.at = app.at /\ app'.pc # "call"
    BY <1>1, <1>4 DEF AppType
  <2> QED BY <1>4, <2>1 DEF AppStays, Has
<1>5. CASE /\ app.pc = "call" /\ app.at < 4 /\ User \in Servers \ enabled
           /\ app' = [at |-> app.at + 1, pc |-> "call"]
  <2>1. app'.at = app.at + 1 /\ app'.pc = "call" /\ app.at \in 1 .. 3
    BY <1>1, <1>5
  <2> QED BY <1>5, <2>1, UserAt DEF AppStays, Has, Place, Users, Servers
<1> QED BY <1>2, <1>3, <1>4, <1>5 DEF AppStays

\* The one who acquires is added to them, and nobody else.
LEMMA HasAdded ==
  ASSUME NetType, AddReference
  PROVE  /\ \E new \in Users :
              /\ ~Has(new) /\ Has(new)'
              /\ \A u \in Users \ {new} : Has(u)' <=> Has(u)
         /\ ~Has("sntp")
<1>1. app \in AppType /\ app.at \in 1 .. 3 /\ app.pc = "call" /\ User \in enabled \cup {"sntp"}
  BY UserAt DEF NetType, AppType, AddReference, Booted
<1>2. app'.at = app.at /\ app'.pc # "call" /\ UNCHANGED enabled
  BY <1>1 DEF AppType, AddReference, AppFrame
<1>3. User \in Users
  BY <1>1 DEF NetType, Users
<1>4. Place(User) = app.at
  BY <1>1, UserAt DEF Place
<1>5. \A u \in Users : Place(u) = app.at => u = User
  BY <1>1, UserAt DEF Place, Users, Servers
<1>6. \A u \in Users : Place(u) \in 1 .. 3
  BY DEF Place
<1>7. ASSUME NEW u \in Users, u = User PROVE ~Has(u) /\ Has(u)'
  BY <1>1, <1>2, <1>4, <1>7 DEF Has
<1>8. ASSUME NEW u \in Users \ {User} PROVE Has(u)' <=> Has(u)
  <2>1. Place(u) # app.at /\ Place(u) \in 1 .. 3
    BY <1>5, <1>6
  <2> QED BY <1>1, <1>2, <2>1 DEF Has
<1>9. ~Has("sntp")
  <2>1. Place("sntp") = 3
    BY DEF Place
  <2> QED BY <1>1, <2>1 DEF Has
<1> QED BY <1>3, <1>7, <1>8, <1>9

\* A step that neither acquires nor releases.
LEMMA CountUntouched ==
  ASSUME RefCounted, \A u \in Users : Has(u)' <=> Has(u), UNCHANGED <<ref_count, torn_down>>
  PROVE  RefCounted'
  BY DEF RefCounted, Held, Users, Servers

\* Tearing down gives SNTP's reference back, once.
LEMMA CountTornDown ==
  ASSUME NetType, RefCounted, Has("sntp"), \A u \in Users : Has(u)' <=> Has(u),
         NEW queue, TearDown(queue)
  PROVE  RefCounted'
<1>1. CASE torn_down
  BY <1>1, CountUntouched DEF TearDown
<1>2. CASE ~torn_down
  <2>1. ref_count' = ref_count - 1 /\ torn_down' = TRUE
    BY <1>2 DEF TearDown
  <2>2. Held("sntp") = 1 /\ Held("sntp")' = 0
    BY <1>2, <2>1 DEF Held
  <2>3. Held("ota")' = Held("ota") /\ Held("provisioning")' = Held("provisioning")
    BY DEF Held, Users, Servers
  <2>4. Held("ota") \in {0, 1} /\ Held("provisioning") \in {0, 1}
    BY DEF Held
  <2>5. Has("sntp")'
    BY DEF Users
  <2> QED BY <2>1, <2>2, <2>3, <2>4, <2>5 DEF RefCounted
<1> QED BY <1>1, <1>2

\* What a user that is called back has done.
LEMMA CalledHas ==
  ASSUME NetType, AppBusy, WaitersHold, NEW task \in {"app", "loop"}, NEW u \in Users,
         NEW verdict \in Verdicts, Calling(task, u, verdict)
  PROVE  Has(u)
<1>1. CASE task = "app"
  <2>1. app.pc # "call" /\ User = u /\ app.at \in 1 .. 3
    BY <1>1 DEF Calling, AppBusy, Verdicts, NetType, AppType
  <2>2. Place(u) = app.at
    BY <2>1, UserAt DEF Place
  <2> QED BY <2>1, <2>2 DEF Has, AppBusy
<1>2. CASE task = "loop"
  <2>1. loop.todo # <<>> /\ Head(loop.todo) = u /\ loop.todo \in Seq(Users)
    BY <1>2 DEF Calling, NetType, LoopType
  <2> QED BY <2>1, TailRange DEF WaitersHold
<1> QED BY <1>1, <1>2

\* A callback keeps the count, and who waits.
LEMMA CallbackHolds ==
  ASSUME NetType, AppBusy, HoldInv, NEW task \in {"app", "loop"}, Callbacks(task)
  PROVE  HoldInv'
<1>1. CallbackMoves(task)
  BY CallbackMove
<1>2. UNCHANGED <<enabled, pending_waiters>>
  BY DEF Callbacks, ServerReady, ServerFailed, SntpReady, SntpFailed, CreateTimer,
       TimerRefused, ArmTimer, CallbackFrame
<1>3. \A u \in Users : Has(u)' <=> Has(u)
  BY <1>1, <1>2, HasKept DEF CallbackMoves, AppStays, AppPcs
<1>4. \/ \E u \in Servers, verdict \in Verdicts :
           /\ Calling(task, u, verdict)
           /\ told' = [told EXCEPT ![u] = verdict]
           /\ serving' \in {serving, serving \cup IF verdict = "ready" THEN {u} ELSE {}}
           /\ UNCHANGED <<events, ref_count, torn_down, timer, sntp_on>>
      \/ \E verdict \in Verdicts :
           /\ Calling(task, "sntp", verdict)
           /\ told' = [told EXCEPT !["sntp"] = verdict] /\ UNCHANGED serving
           /\ \/ UNCHANGED <<events, ref_count, torn_down, timer>>
              \/ TearDown(events)
      \/ /\ At(task, "sntp") \/ At(task, "arm")
         /\ UNCHANGED userVars
         /\ \/ UNCHANGED <<events, ref_count, torn_down, sntp_on>>
            \/ TearDown(events)
  BY DEF Callbacks, ServerReady, ServerFailed, SntpReady, SntpFailed, CreateTimer,
       TimerRefused, ArmTimer, Verdicts, userVars
<1>5. ~Has("sntp") => \E u \in Servers, verdict \in Verdicts :
                        /\ Calling(task, u, verdict) /\ told' = [told EXCEPT ![u] = verdict]
                        /\ serving' \in {serving, serving \cup IF verdict = "ready" THEN {u} ELSE {}}
                        /\ UNCHANGED <<events, ref_count, torn_down, timer, sntp_on>>
  <2>1. "sntp" \in Users
    BY DEF Users
  <2>2. At(task, "sntp") \/ At(task, "arm") => Has("sntp")
    BY UserAt DEF At, HoldInv, SntpHolds, AppBusy, Has, Place
  <2> QED BY <1>4, <2>1, <2>2, CalledHas DEF HoldInv
<1>6. RefCounted'
  <2>1. UNCHANGED <<ref_count, torn_down>> \/ (Has("sntp") /\ TearDown(events))
    BY <1>4, <1>5
  <2> QED BY <1>3, <2>1, CountUntouched, CountTornDown DEF HoldInv
<1>7. WaitersHold'
  <2>1. \/ told' = told
        \/ \E u \in Users, verdict \in Verdicts :
             Has(u) /\ told' = [told EXCEPT ![u] = verdict]
    BY <1>4, CalledHas DEF HoldInv, Users, userVars
  <2>2. Range(pending_waiters') \cup Range(loop'.todo)
          \subseteq Range(pending_waiters) \cup Range(loop.todo)
    BY <1>1, <1>2 DEF CallbackMoves
  <2>3. \A u \in Users : told'[u] # "nothing" => told[u] # "nothing" \/ Has(u)
    BY <2>1 DEF NetType
  <2>4. Range(pending_waiters) \cup Range(loop.todo) \subseteq Users
    BY DEF NetType, LoopType, Range
  <2> QED BY <1>3, <2>2, <2>3, <2>4 DEF HoldInv, WaitersHold
<1>8. SntpHolds'
  <2>1. Has("sntp") => Has("sntp")'
    BY <1>3 DEF Users
  <2>2. CASE ~Has("sntp")
    BY <1>1, <1>5, <2>2 DEF HoldInv, SntpHolds, CallbackMoves, WaitersHold
  <2> QED BY <2>1, <2>2 DEF SntpHolds
<1> QED BY <1>6, <1>7, <1>8 DEF HoldInv

\* The app task's own steps keep them, too.
LEMMA AppHolds ==
  ASSUME NetType, AppBusy, HoldInv,
         SkipUser \/ AddReference \/ ResetCycle \/ StartConnecting
           \/ StartConnectingFails \/ CheckOrQueue
  PROVE  HoldInv'
<1>1. /\ UNCHANGED <<enabled, loop, userVars, sntpVars>>
      /\ events' = events \/ events' = Append(events, "start")
  BY DEF SkipUser, Finish, AddReference, ResetCycle, StartConnecting, StartConnectingFails,
       CheckOrQueue, AppFrame
<1>2. Range(events') \cap SntpEvents = Range(events) \cap SntpEvents
  <2>1. Range(Append(events, "start")) = Range(events) \cup {"start"}
    BY AppendRange DEF NetType, Events, WifiEvents
  <2> QED BY <1>1, <2>1 DEF SntpEvents
<1>3. CASE AddReference
  <2>1. ref_count' = ref_count + 1 /\ UNCHANGED pending_waiters
    BY <1>3 DEF AddReference
  <2>2. \A u \in Users : Has(u) => Has(u)'
    BY <1>3, HasAdded
  <2>3. RefCounted'
    <3>1. ~torn_down /\ ~torn_down'
      BY <1>1, <1>3, HasAdded DEF HoldInv, RefCounted, sntpVars
    <3>2. \A u \in Users : Held(u) = IF Has(u) THEN 1 ELSE 0
      BY <3>1 DEF Held
    <3>3. \A u \in Users : Held(u)' = IF Has(u)' THEN 1 ELSE 0
      BY <3>1 DEF Held
    <3>4. PICK new \in Users : /\ ~Has(new) /\ Has(new)'
                               /\ \A u \in Users \ {new} : Has(u)' <=> Has(u)
      BY <1>3, HasAdded
    <3>5. Held(new)' = 1 /\ Held(new) = 0 /\ \A u \in Users \ {new} : Held(u)' = Held(u)
      BY <3>2, <3>3, <3>4
    <3>6. new \in {"ota", "provisioning", "sntp"}
      BY DEF Users, Servers
    <3>7. \A u \in Users : Held(u) \in {0, 1}
      BY DEF Held
    <3> QED BY <2>1, <3>1, <3>5, <3>6, <3>7 DEF HoldInv, RefCounted, Users, Servers
  <2>4. Range(pending_waiters) \cup Range(loop.todo) \subseteq Users /\ "sntp" \in Users
    BY DEF NetType, LoopType, Range, Users
  <2> QED BY <1>1, <1>2, <2>1, <2>2, <2>3, <2>4
       DEF HoldInv, WaitersHold, SntpHolds, userVars, sntpVars
<1>4. CASE ~AddReference
  <2>1. UNCHANGED ref_count
    BY <1>4 DEF SkipUser, ResetCycle, StartConnecting, StartConnectingFails, CheckOrQueue,
         cycleVars
  <2>2. AppStays
    BY <1>1, <1>4, UserAt DEF SkipUser, Finish, Booted, ResetCycle, StartConnecting,
         StartConnectingFails, CheckOrQueue, AppStays, AppPcs, NetType, AppType, Verdicts
  <2>3. \A u \in Users : Has(u)' <=> Has(u)
    BY <2>2, HasKept
  <2>4. Range(pending_waiters') \subseteq Range(pending_waiters) \cup {u \in Users : Has(u)}
    <3>1. CASE UNCHANGED pending_waiters
      BY <3>1
    <3>2. CASE CheckOrQueue /\ pending_waiters' = Append(pending_waiters, User)
      <4>1. app.pc # "call" /\ app.at \in 1 .. 3 /\ User \in enabled \cup {"sntp"}
        BY <3>2 DEF CheckOrQueue, AppBusy, NetType, AppType
      <4>2. Has(User) /\ User \in Users
        BY <4>1, UserAt DEF Has, Place, NetType, Users
      <4> QED BY <3>2, <4>2, AppendRange DEF NetType
    <3> QED BY <1>4, <3>1, <3>2 DEF SkipUser, ResetCycle, StartConnecting,
               StartConnectingFails, CheckOrQueue, cycleVars
  <2>5. RefCounted'
    BY <1>1, <2>1, <2>3, CountUntouched DEF HoldInv, sntpVars
  <2>6. Range(pending_waiters) \cup Range(loop.todo) \subseteq Users /\ "sntp" \in Users
    BY DEF NetType, LoopType, Range, Users
  <2> QED BY <1>1, <1>2, <2>3, <2>4, <2>5, <2>6
       DEF HoldInv, WaitersHold, SntpHolds, userVars, sntpVars
<1> QED BY <1>3, <1>4

\* The event loop hands the waiters from the queue to its list.
LEMMA LoopHolds == ASSUME NetType, AppBusy, HoldInv, LoopStep PROVE HoldInv'
<1>1. app' = app /\ UNCHANGED <<enabled, userVars>>
  BY DEF LoopStep, DropWifiEvent, OnStaStart, OnStaConnected, OnStaDisconnected, OnGotIp,
       WifiEventFrame, Resolve, CallbacksDone, HandleSynced, HandleSntpTimeout, SntpEventFrame
<1>2. \A u \in Users : Has(u)' <=> Has(u)
  BY <1>1 DEF Has
<1>3. Range(pending_waiters) \cup Range(loop.todo) \subseteq Users /\ "sntp" \in Users
  BY DEF NetType, LoopType, Range, Users
<1>4. CASE DropWifiEvent \/ OnStaStart \/ OnStaConnected \/ OnStaDisconnected \/ OnGotIp
  <2>1. UNCHANGED <<ref_count, pending_waiters, sntpVars>> /\ loop'.todo = loop.todo
        /\ loop'.pc \in {loop.pc, "resolve"} /\ Range(events') \subseteq Range(events)
    BY <1>4, Handled DEF DropWifiEvent, OnStaStart, OnStaConnected, OnStaDisconnected, OnGotIp,
         WifiEventFrame, TryConnect, NetType, LoopType
  <2>2. RefCounted'
    BY <1>2, <2>1, CountUntouched DEF HoldInv, sntpVars
  <2> QED BY <1>1, <1>2, <1>3, <2>1, <2>2
       DEF HoldInv, WaitersHold, SntpHolds, userVars, sntpVars
<1>5. CASE Resolve \/ CallbacksDone
  <2>1. UNCHANGED <<ref_count, events, sntpVars>> /\ loop'.pc \in {"callbacks", "idle"}
        /\ Range(pending_waiters') \cup Range(loop'.todo)
             \subseteq Range(pending_waiters) \cup Range(loop.todo)
    BY <1>5, EmptyRange DEF Resolve, CallbacksDone, cycleVars, NetType, LoopType
  <2>2. RefCounted'
    BY <1>2, <2>1, CountUntouched DEF HoldInv, sntpVars
  <2> QED BY <1>1, <1>2, <1>3, <2>1, <2>2
       DEF HoldInv, WaitersHold, SntpHolds, userVars, sntpVars
<1>6. CASE HandleSynced \/ HandleSntpTimeout
  <2>1. UNCHANGED <<loop, pending_waiters>> /\ TearDown(Tail(events))
    BY <1>6 DEF HandleSynced, HandleSntpTimeout, SntpEventFrame
  <2>2. Has("sntp")
    BY <1>6, Handled DEF HandleSynced, HandleSntpTimeout, HoldInv, SntpHolds, SntpEvents
  <2>3. RefCounted'
    BY <1>2, <2>1, <2>2, CountTornDown DEF HoldInv
  <2> QED BY <1>1, <1>2, <1>3, <2>1, <2>2, <2>3 DEF HoldInv, WaitersHold, SntpHolds, userVars
<1> QED BY <1>4, <1>5, <1>6 DEF LoopStep

\* Nothing in the environment counts.
LEMMA EnvironmentHolds ==
  ASSUME NetType, AppBusy, HoldInv, Environment PROVE HoldInv'
<1>1. EnvFrame
  BY DEF Environment, Associate, AttemptFails, Lease, LinkLost, Drive, ApChanges, TimeSync,
       TimerFires
<1>2. \A u \in Users : Has(u)' <=> Has(u)
  BY <1>1 DEF EnvFrame, Has
<1>3. Range(pending_waiters) \cup Range(loop.todo) \subseteq Users /\ "sntp" \in Users
  BY DEF NetType, LoopType, Range, Users
<1>4. RefCounted' /\ WaitersHold'
  BY <1>1, <1>2, <1>3, CountUntouched DEF EnvFrame, cycleVars, userVars, HoldInv, WaitersHold
<1>5. \/ events' = events /\ timer' = timer
      \/ sntp_on
      \/ timer # "none"
      \/ timer' = timer /\ \E event \in WifiEvents : events' = Append(events, event)
  BY DEF Environment, Associate, AttemptFails, Lease, LinkLost, Drive, ApChanges, TimeSync,
       TimerFires, WifiEvents
<1>6. \A event \in WifiEvents :
        Range(Append(events, event)) \cap SntpEvents = Range(events) \cap SntpEvents
  <2>1. \A event \in WifiEvents : Range(Append(events, event)) = Range(events) \cup {event}
    BY AppendRange DEF NetType, Events
  <2> QED BY <2>1 DEF WifiEvents, SntpEvents
<1>7. SntpHolds'
  BY <1>1, <1>2, <1>3, <1>5, <1>6 DEF EnvFrame, HoldInv, SntpHolds
<1> QED BY <1>4, <1>7 DEF HoldInv

\* Every step keeps the count.
LEMMA HoldStep ==
  NetType /\ AppBusy /\ HoldInv /\ [Next]_vars => HoldInv'
<1> SUFFICES ASSUME NetType, AppBusy, HoldInv, [Next]_vars PROVE HoldInv'
  OBVIOUS
<1>1. CASE Callbacks("app") \/ Callbacks("loop")
  BY <1>1, CallbackHolds
<1>2. CASE AppTask /\ ~Callbacks("app")
  BY <1>2, AppHolds DEF AppTask
<1>3. CASE EventLoop /\ ~Callbacks("loop")
  BY <1>3, LoopHolds DEF EventLoop, LoopStep
<1>4. CASE Environment
  BY <1>4, EnvironmentHolds
<1>5. CASE UNCHANGED vars
  BY <1>5 DEF vars, cycleVars, userVars, sntpVars, HoldInv, RefCounted, Held, Has,
       WaitersHold, SntpHolds
<1> QED BY <1>1, <1>2, <1>3, <1>4, <1>5 DEF Next

--------------------------------------------------------------------------------
(* Before the first cycle                                                   *)

\* The first user has not acquired, or its cycle is being started.
NotBegun == (\A u \in Users : ~Has(u)) \/ app.pc \in {"reset", "start"}

Untouched ==
  /\ loop.pc = "idle" /\ events = <<>> /\ bits = {}
  /\ \A u \in Users : told[u] = "nothing"
  /\ ~torn_down /\ driver = "off" /\ timer = "none" /\ ~sntp_on

\* Until then nothing has happened that the reset of a cycle could undo.
Quiet == NotBegun => Untouched

\* Whom the app task is at work for has acquired.
LEMMA BusyHas ==
  ASSUME NetType, AppBusy, app.pc # "call" PROVE User \in Users /\ Has(User)
<1>1. app.at \in 1 .. 3 /\ User \in enabled \cup {"sntp"}
  BY DEF AppBusy, NetType, AppType
<1> QED BY <1>1, UserAt DEF Has, Place, NetType, Users

\* A step of the app task that does not start a cycle.
LEMMA BegunKept ==
  ASSUME NetType, AppBusy, AppStays, app.pc \notin {"reset", "start"},
         app'.pc \notin {"reset", "start"}
  PROVE  NotBegun' <=> NotBegun
  BY HasKept DEF NotBegun

\* Once a cycle has begun, callbacks are made; not before.
LEMMA CallbackBegun ==
  ASSUME NetType, AppBusy, Quiet, NEW task \in {"app", "loop"}, Callbacks(task)
  PROVE  ~NotBegun /\ ~NotBegun'
<1>1. CallbackMoves(task) /\ UNCHANGED enabled
  BY CallbackMove DEF Callbacks, ServerReady, ServerFailed, SntpReady, SntpFailed, CreateTimer,
       TimerRefused, ArmTimer, CallbackFrame
<1>2. CASE task = "loop"
  BY <1>1, <1>2 DEF CallbackMoves, Quiet, Untouched, NotBegun, Has
<1>3. CASE task = "app"
  <2>1. AppStays /\ app'.pc \in {"call", "sntp", "arm"}
    BY <1>1, <1>3 DEF CallbackMoves, AppStays, AppPcs, NetType, AppType
  <2>2. app.pc \notin {"call", "reset", "start"}
    BY <1>3 DEF Callbacks, ServerReady, ServerFailed, SntpReady, SntpFailed, CreateTimer,
         TimerRefused, ArmTimer, Calling, At
  <2>3. ~NotBegun
    BY <2>2, BusyHas DEF NotBegun
  <2> QED BY <2>1, <2>2, <2>3, BegunKept
<1> QED BY <1>2, <1>3

\* Without a user nobody is counted, and with one somebody is.
LEMMA NobodyCounted ==
  ASSUME NetType, HoldInv, ~Has("sntp"), ref_count = 0 PROVE \A u \in Users : ~Has(u)
<1>1. /\ Held("ota") = IF Has("ota") THEN 1 ELSE 0
      /\ Held("provisioning") = IF Has("provisioning") THEN 1 ELSE 0
      /\ Held("sntp") = 0
  BY DEF Held
<1>2. Held("ota") = 0 /\ Held("provisioning") = 0
  BY <1>1 DEF HoldInv, RefCounted
<1> QED BY <1>1, <1>2 DEF Users, Servers

\* The event loop does nothing before the first cycle.
LEMMA LoopBegun ==
  ASSUME NetType, Quiet, LoopStep PROVE ~NotBegun /\ ~NotBegun'
<1>1. UNCHANGED <<app, enabled>>
  BY DEF LoopStep, DropWifiEvent, OnStaStart, OnStaConnected, OnStaDisconnected, OnGotIp,
       WifiEventFrame, Resolve, CallbacksDone, HandleSynced, HandleSntpTimeout, SntpEventFrame
<1>2. loop.pc # "idle" \/ events # <<>>
  BY DEF LoopStep, DropWifiEvent, OnStaStart, OnStaConnected, OnStaDisconnected, OnGotIp,
       Resolve, CallbacksDone, HandleSynced, HandleSntpTimeout, Handling
<1> QED BY <1>1, <1>2 DEF Quiet, Untouched, NotBegun, Has

\* Every step keeps the quiet.
LEMMA QuietStep ==
  NetType /\ AppBusy /\ HoldInv /\ Quiet /\ [Next]_vars => Quiet'
<1> SUFFICES ASSUME NetType, AppBusy, HoldInv, Quiet, [Next]_vars PROVE Quiet'
  OBVIOUS
<1>1. CASE Callbacks("app") \/ Callbacks("loop")
  BY <1>1, CallbackBegun DEF Quiet
<1>2. CASE LoopStep
  BY <1>2, LoopBegun DEF Quiet
<1>3. CASE SkipUser
  <2>1. AppStays /\ app.pc = "call" /\ app'.pc = "call"
    BY <1>3, UserAt DEF SkipUser, Finish, Booted, AppStays, NetType, AppType
  <2>2. NotBegun' <=> NotBegun
    BY <2>1, BegunKept
  <2> QED BY <1>3, <2>2 DEF SkipUser, Finish, Quiet, Untouched, cycleVars, userVars, sntpVars
<1>4. CASE AddReference
  <2>1. \E u \in Users : Has(u)'
    BY <1>4, HasAdded
  <2>2. NotBegun' => ref_count = 0
    BY <1>4, <2>1 DEF AddReference, NotBegun, NetType, AppType
  <2>3. NotBegun' => NotBegun
    BY <1>4, <2>2, HasAdded, NobodyCounted DEF NotBegun
  <2> QED BY <1>4, <2>3 DEF AddReference, AppFrame, Quiet, Untouched, userVars, sntpVars
<1>5. CASE ResetCycle
  <2>1. Untouched
    BY <1>5 DEF ResetCycle, Quiet, NotBegun
  <2> QED BY <1>5, <2>1 DEF ResetCycle, AppFrame, Quiet, Untouched, userVars, sntpVars
<1>6. CASE StartConnecting \/ StartConnectingFails \/ CheckOrQueue
  <2>1. AppStays /\ app.pc # "call" /\ app'.pc \in {"call", "check", "ready", "failed"}
    BY <1>6 DEF StartConnecting, StartConnectingFails, CheckOrQueue, AppFrame, AppStays,
         AppPcs, NetType, AppType, Verdicts
  <2>2. \E u \in Users : Has(u)'
    BY <2>1, BusyHas, HasKept
  <2> QED BY <2>1, <2>2 DEF Quiet, NotBegun
<1>7. CASE Environment
  <2>1. EnvFrame /\ (NotBegun' <=> NotBegun)
    BY <1>7 DEF Environment, Associate, AttemptFails, Lease, LinkLost, Drive, ApChanges,
         TimeSync, TimerFires, EnvFrame, NotBegun, Has
  <2>2. Untouched => UNCHANGED <<events, timer, driver>>
    BY <1>7 DEF Environment, Associate, AttemptFails, Lease, LinkLost, Drive, ApChanges,
         TimeSync, TimerFires, Untouched
  <2> QED BY <2>1, <2>2 DEF EnvFrame, Quiet, Untouched, cycleVars, userVars
<1>8. CASE UNCHANGED vars
  BY <1>8 DEF vars, cycleVars, userVars, sntpVars, Quiet, NotBegun, Has, Untouched
<1> QED BY <1>1, <1>2, <1>3, <1>4, <1>5, <1>6, <1>7, <1>8 DEF Next, AppTask, EventLoop,
             LoopStep

--------------------------------------------------------------------------------
(* One verdict                                                              *)

Bit(verdict) == IF verdict = "ready" THEN "connected" ELSE "failed"

\* The cycle has one verdict at most: who is told, or about to be, is told that one.
Decided ==
  /\ bits \in {{}, {"connected"}, {"failed"}}
  /\ \A u \in Users : told[u] # "nothing" => bits = {Bit(told[u])}
  /\ app.pc \in Verdicts => bits = {Bit(app.pc)}
  /\ loop.pc = "resolve" => bits = {}
  /\ loop.pc \in {"callbacks", "sntp", "arm"} => bits = {Bit(loop.verdict)}
  /\ \A u \in serving : told[u] = "ready"

\* A callback tells the verdict of its cycle.
LEMMA CallbackDecided ==
  ASSUME NetType, AppBusy, Decided, NEW task \in {"app", "loop"}, Callbacks(task)
  PROVE  Decided'
<1>1. CallbackMoves(task) /\ UNCHANGED bits
  BY CallbackMove DEF Callbacks, ServerReady, ServerFailed, SntpReady, SntpFailed, CreateTimer,
       TimerRefused, ArmTimer, CallbackFrame
<1>2. /\ app'.pc \in Verdicts => app' = app
      /\ loop'.pc = "resolve" => loop' = loop
      /\ loop'.pc \in {"callbacks", "sntp", "arm"} =>
           loop.pc \in {"callbacks", "sntp", "arm"} /\ loop'.verdict = loop.verdict
  BY <1>1 DEF CallbackMoves, Verdicts, NetType, AppType
<1>3. \/ UNCHANGED userVars
      \/ \E u \in Users, verdict \in Verdicts :
           /\ Calling(task, u, verdict) /\ told' = [told EXCEPT ![u] = verdict]
           /\ serving' = serving \/ (verdict = "ready" /\ serving' = serving \cup {u})
  BY DEF Callbacks, ServerReady, ServerFailed, SntpReady, SntpFailed, CreateTimer,
       TimerRefused, ArmTimer, Verdicts, userVars, Users
<1>4. \A u \in Users, verdict \in Verdicts : Calling(task, u, verdict) => bits = {Bit(verdict)}
  BY DEF Calling, Decided
<1>5. /\ \A u \in Users : told'[u] # "nothing" => bits = {Bit(told'[u])}
      /\ \A u \in serving' : told'[u] = "ready"
  <2>1. CASE UNCHANGED userVars
    BY <2>1 DEF Decided, userVars
  <2>2. ASSUME NEW u \in Users, NEW verdict \in Verdicts, Calling(task, u, verdict),
               told' = [told EXCEPT ![u] = verdict],
               serving' = serving \/ (verdict = "ready" /\ serving' = serving \cup {u})
        PROVE  /\ \A w \in Users : told'[w] # "nothing" => bits = {Bit(told'[w])}
               /\ \A w \in serving' : told'[w] = "ready"
    <3>1. bits = {Bit(verdict)} /\ verdict \in {"ready", "failed"}
      BY <1>4, <2>2 DEF Verdicts
    <3>2. told'[u] = verdict /\ \A w \in Users \ {u} : told'[w] = told[w]
      BY <2>2 DEF NetType
    <3>3. serving \subseteq Users
      BY DEF NetType, Users
    <3>4. u \in serving => verdict = "ready"
      BY <3>1, <3>3 DEF Decided, Bit
    <3> QED BY <2>2, <3>1, <3>2, <3>3, <3>4 DEF Decided
  <2> QED BY <1>3, <2>1, <2>2
<1> QED BY <1>1, <1>2, <1>5 DEF Decided

\* The app task asks for the verdict under the lock, or hears that of its own start.
LEMMA AppDecided ==
  ASSUME NetType, AppBusy, Quiet, Decided,
         SkipUser \/ AddReference \/ ResetCycle \/ StartConnecting
           \/ StartConnectingFails \/ CheckOrQueue
  PROVE  Decided'
<1>1. UNCHANGED <<loop, told, serving>> /\ app \in AppType
  BY DEF SkipUser, Finish, AddReference, ResetCycle, StartConnecting, StartConnectingFails,
       CheckOrQueue, AppFrame, userVars, NetType
<1>2. CASE SkipUser \/ AddReference \/ StartConnecting
  BY <1>1, <1>2 DEF SkipUser, Finish, AddReference, StartConnecting, cycleVars, AppType, Decided,
       Verdicts
<1>3. CASE ResetCycle
  <2>1. Untouched /\ bits' = {} /\ app'.pc = "start"
    BY <1>1, <1>3 DEF ResetCycle, Quiet, NotBegun, AppType
  <2> QED BY <1>1, <2>1 DEF Untouched, Decided, Verdicts
<1>4. CASE StartConnectingFails
  <2>1. Untouched /\ bits' = {"failed"} /\ app'.pc = "failed"
    BY <1>1, <1>4 DEF StartConnectingFails, Quiet, NotBegun, AppType, Untouched
  <2>2. serving = {}
    BY <2>1 DEF Untouched, Decided, NetType, Users
  <2> QED BY <1>1, <2>1, <2>2 DEF Untouched, Decided, Verdicts, Bit
<1>5. CASE CheckOrQueue
  <2>1. UNCHANGED bits
    BY <1>5 DEF CheckOrQueue
  <2>2. app'.pc \in Verdicts => bits = {Bit(app'.pc)}
    BY <1>1, <1>5 DEF CheckOrQueue, AppType, Decided, Bit, Verdicts
  <2> QED BY <1>1, <2>1, <2>2 DEF Decided
<1> QED BY <1>2, <1>3, <1>4, <1>5

\* The event loop decides only what is undecided.
LEMMA LoopDecided ==
  ASSUME NetType, Quiet, Decided, LoopStep PROVE Decided'
<1>1. UNCHANGED <<app, told, serving>> /\ loop \in LoopType
  BY DEF LoopStep, DropWifiEvent, OnStaStart, OnStaConnected, OnStaDisconnected, OnGotIp,
       WifiEventFrame, Resolve, CallbacksDone, HandleSynced, HandleSntpTimeout, SntpEventFrame,
       userVars, NetType
<1>2. CASE DropWifiEvent \/ OnStaStart \/ OnStaConnected \/ OnStaDisconnected \/ OnGotIp
  <2>1. UNCHANGED bits /\ (loop' = loop \/ (bits = {} /\ loop'.pc = "resolve"))
    BY <1>1, <1>2 DEF DropWifiEvent, OnStaStart, OnStaConnected, OnStaDisconnected, OnGotIp,
         WifiEventFrame, TryConnect, Live, LoopType
  <2> QED BY <1>1, <2>1 DEF Decided
<1>3. CASE Resolve
  <2>1. bits = {} /\ bits' = {Bit(loop.verdict)} /\ loop'.pc = "callbacks"
        /\ loop'.verdict = loop.verdict
    BY <1>1, <1>3 DEF Resolve, Decided, LoopType, Bit
  <2>2. app.pc \notin Verdicts /\ \A u \in Users : told[u] = "nothing"
    BY <2>1 DEF Decided
  <2>3. bits' \in {{"connected"}, {"failed"}}
    BY <2>1 DEF Bit
  <2> QED BY <1>1, <2>1, <2>2, <2>3 DEF Decided
<1>4. CASE CallbacksDone
  <2>1. UNCHANGED bits /\ loop'.pc = "idle"
    BY <1>1, <1>4 DEF CallbacksDone, cycleVars, LoopType
  <2> QED BY <1>1, <2>1 DEF Decided
<1>5. CASE HandleSynced \/ HandleSntpTimeout
  BY <1>1, <1>5 DEF HandleSynced, HandleSntpTimeout, SntpEventFrame, Decided
<1> QED BY <1>2, <1>3, <1>4, <1>5 DEF LoopStep

\* Every step keeps the verdict.
LEMMA DecidedStep ==
  NetType /\ AppBusy /\ Quiet /\ Decided /\ [Next]_vars => Decided'
<1> SUFFICES ASSUME NetType, AppBusy, Quiet, Decided, [Next]_vars PROVE Decided'
  OBVIOUS
<1>1. CASE Callbacks("app") \/ Callbacks("loop")
  BY <1>1, CallbackDecided
<1>2. CASE AppTask /\ ~Callbacks("app")
  BY <1>2, AppDecided DEF AppTask
<1>3. CASE EventLoop /\ ~Callbacks("loop")
  BY <1>3, LoopDecided DEF EventLoop, LoopStep
<1>4. CASE Environment
  <2>1. EnvFrame
    BY <1>4 DEF Environment, Associate, AttemptFails, Lease, LinkLost, Drive, ApChanges,
         TimeSync, TimerFires
  <2> QED BY <2>1 DEF EnvFrame, cycleVars, userVars, Decided
<1>5. CASE UNCHANGED vars
  BY <1>5 DEF vars, cycleVars, userVars, Decided
<1> QED BY <1>1, <1>2, <1>3, <1>4, <1>5 DEF Next

--------------------------------------------------------------------------------
(* The radio                                                                *)

\* Once a cycle has begun, the driver is off only if it could not be started, or
\* after the last release.
RadioHeld == driver = "off" => NotBegun \/ bits = {"failed"} \/ (torn_down /\ ref_count = 0)

\* After the last release it is off.
RadioReleased == torn_down /\ ref_count = 0 => driver = "off"

RadioInv == RadioHeld /\ RadioReleased

\* Only the last release switches the driver off.
LEMMA TearDownRadio ==
  ASSUME NetType, RadioInv, ~NotBegun, bits' = bits, NEW queue, TearDown(queue)
  PROVE  RadioInv'
<1>1. CASE torn_down
  BY <1>1 DEF TearDown, RadioInv, RadioHeld, RadioReleased
<1>2. CASE ~torn_down
  <2>1. /\ torn_down' = TRUE /\ ref_count' = ref_count - 1
        /\ driver' = IF ref_count = 1 THEN "off" ELSE driver
    BY <1>2 DEF TearDown
  <2>2. ref_count' = 0 <=> ref_count = 1
    BY <2>1 DEF NetType
  <2> QED BY <1>2, <2>1, <2>2 DEF RadioInv, RadioHeld, RadioReleased
<1> QED BY <1>1, <1>2

\* A step that touches neither count, verdict nor driver.
LEMMA RadioUntouched ==
  ASSUME RadioInv, NotBegun => NotBegun' \/ driver # "off",
         UNCHANGED <<bits, ref_count, torn_down>>,
         driver' = driver \/ (driver # "off" /\ driver' # "off")
  PROVE  RadioInv'
  BY DEF RadioInv, RadioHeld, RadioReleased

\* A callback.
LEMMA CallbackRadio ==
  ASSUME NetType, AppBusy, Quiet, RadioInv, NEW task \in {"app", "loop"}, Callbacks(task)
  PROVE  RadioInv'
<1>1. ~NotBegun
  BY CallbackBegun
<1>2. UNCHANGED bits /\ (TearDown(events) \/ UNCHANGED <<ref_count, torn_down, driver>>)
  BY DEF Callbacks, ServerReady, ServerFailed, SntpReady, SntpFailed, CreateTimer,
       TimerRefused, ArmTimer, CallbackFrame
<1> QED BY <1>1, <1>2, TearDownRadio, RadioUntouched

\* The app task's own steps: the first user starts the driver.
LEMMA AppRadio ==
  ASSUME NetType, AppBusy, HoldInv, Quiet, RadioInv,
         SkipUser \/ AddReference \/ ResetCycle \/ StartConnecting
           \/ StartConnectingFails \/ CheckOrQueue
  PROVE  RadioInv'
<1>1. UNCHANGED torn_down /\ app \in AppType
  BY DEF SkipUser, AddReference, ResetCycle, StartConnecting, StartConnectingFails,
       CheckOrQueue, AppFrame, sntpVars, NetType
<1>2. CASE SkipUser
  <2>1. AppStays /\ app.pc = "call" /\ app'.pc = "call"
    BY <1>2, UserAt DEF SkipUser, Finish, Booted, AppStays, NetType, AppType
  <2> QED BY <1>1, <1>2, <2>1, BegunKept, RadioUntouched DEF SkipUser, cycleVars
<1>3. CASE AddReference
  <2>1. ~torn_down
    BY <1>3, HasAdded DEF HoldInv, RefCounted
  <2>2. NotBegun => NotBegun'
    <3>1. NotBegun => \A u \in Users : ~Has(u)
      BY <1>3 DEF AddReference, NotBegun
    <3>2. (\A u \in Users : ~Has(u)) => ref_count = 0
      BY DEF HoldInv, RefCounted, Held, Users, Servers
    <3>3. ref_count = 0 => app'.pc = "reset"
      BY <1>1, <1>3 DEF AddReference, AppType
    <3> QED BY <3>1, <3>2, <3>3 DEF NotBegun
  <2> QED BY <1>1, <1>3, <2>1, <2>2 DEF AddReference, RadioInv, RadioHeld, RadioReleased
<1>4. CASE ResetCycle \/ StartConnecting \/ StartConnectingFails
  <2>1. Untouched
    BY <1>4 DEF ResetCycle, StartConnecting, StartConnectingFails, Quiet, NotBegun
  <2>2. \/ app'.pc = "start"
        \/ driver' = "started"
        \/ bits' = {"failed"}
    BY <1>1, <1>4, <2>1 DEF ResetCycle, StartConnecting, StartConnectingFails, AppType, Untouched
  <2> QED BY <1>1, <2>1, <2>2 DEF Untouched, NotBegun, RadioInv, RadioHeld, RadioReleased
<1>5. CASE CheckOrQueue
  <2>1. ~NotBegun
    BY <1>5, BusyHas DEF CheckOrQueue, NotBegun
  <2> QED BY <1>1, <1>5, <2>1, RadioUntouched DEF CheckOrQueue
<1> QED BY <1>2, <1>3, <1>4, <1>5

\* The event loop connects for a user who still waits, and decides the undecided.
LEMMA LoopRadio ==
  ASSUME NetType, Quiet, Decided, RadioInv, LoopStep PROVE RadioInv'
<1>1. ~NotBegun
  BY LoopBegun
<1>2. CASE DropWifiEvent \/ OnStaStart \/ OnStaConnected \/ OnStaDisconnected \/ OnGotIp
  <2>1. /\ UNCHANGED <<bits, ref_count, torn_down>>
        /\ driver' = driver \/ (driver' = "connecting" /\ ref_count # 0)
    BY <1>2 DEF DropWifiEvent, OnStaStart, OnStaConnected, OnStaDisconnected, OnGotIp,
         WifiEventFrame, TryConnect, Live, sntpVars
  <2> QED BY <1>1, <2>1 DEF RadioInv, RadioHeld, RadioReleased
<1>3. CASE Resolve
  <2>1. bits = {} /\ UNCHANGED <<ref_count, torn_down, driver>>
    BY <1>3 DEF Resolve, Decided, sntpVars
  <2> QED BY <1>1, <2>1 DEF RadioInv, RadioHeld, RadioReleased
<1>4. CASE CallbacksDone
  BY <1>1, <1>4, RadioUntouched DEF CallbacksDone, cycleVars, sntpVars
<1>5. CASE HandleSynced \/ HandleSntpTimeout
  BY <1>1, <1>5, TearDownRadio DEF HandleSynced, HandleSntpTimeout, SntpEventFrame
<1> QED BY <1>2, <1>3, <1>4, <1>5 DEF LoopStep

\* Every step keeps the radio to its users.
LEMMA RadioStep ==
  NetType /\ AppBusy /\ HoldInv /\ Quiet /\ Decided /\ RadioInv /\ [Next]_vars => RadioInv'
<1> SUFFICES ASSUME NetType, AppBusy, HoldInv, Quiet, Decided, RadioInv, [Next]_vars
             PROVE  RadioInv'
  OBVIOUS
<1>1. CASE Callbacks("app") \/ Callbacks("loop")
  BY <1>1, CallbackRadio
<1>2. CASE AppTask /\ ~Callbacks("app")
  BY <1>2, AppRadio DEF AppTask
<1>3. CASE EventLoop /\ ~Callbacks("loop")
  BY <1>3, LoopRadio DEF EventLoop, LoopStep
<1>4. CASE Environment
  <2>1. EnvFrame /\ (driver' = driver \/ (driver # "off" /\ driver' # "off"))
    BY <1>4 DEF Environment, Associate, AttemptFails, Lease, LinkLost, Drive, ApChanges,
         TimeSync, TimerFires
  <2>2. NotBegun => NotBegun'
    BY <2>1 DEF EnvFrame, NotBegun, Has
  <2> QED BY <2>1, <2>2, RadioUntouched DEF EnvFrame, cycleVars
<1>5. CASE UNCHANGED vars
  BY <1>5 DEF vars, cycleVars, sntpVars, RadioInv, RadioHeld, RadioReleased, NotBegun, Has
<1> QED BY <1>1, <1>2, <1>3, <1>4, <1>5 DEF Next

--------------------------------------------------------------------------------
(* The theorems                                                             *)

NetworkInv == NetType /\ AppBusy /\ HoldInv /\ Quiet /\ Decided /\ RadioInv

LEMMA NetworkInvInit == Init => NetworkInv
<1> SUFFICES ASSUME Init PROVE NetworkInv
  OBVIOUS
<1>1. NetType /\ AppBusy
  <2>1. <<>> \in Seq(Users) /\ <<>> \in Seq(Events)
    OBVIOUS
  <2>2. retry_count \in 0 .. MaxWifiRetries /\ syncs \in 0 .. MaxSyncs /\ ref_count \in Int
    BY NetworkAssumption DEF Init
  <2>3. app \in AppType /\ loop \in LoopType
    BY <2>1 DEF Init, AppType, AppPcs, LoopType, Verdicts
  <2>4. told \in [Users -> Verdicts \cup {"nothing"}] /\ driver \in DriverStates
    BY DEF Init, DriverStates
  <2> QED BY <2>1, <2>2, <2>3, <2>4 DEF Init, NetType, AppBusy
<1>2. \A u \in Users : ~Has(u)
  BY DEF Init, Has, Place
<1>3. ~Has("ota") /\ ~Has("provisioning") /\ ~Has("sntp")
  BY <1>2 DEF Users, Servers
<1>4. HoldInv
  <2>1. RefCounted
    BY <1>3 DEF Init, RefCounted, Held
  <2>2. WaitersHold /\ SntpHolds
    BY EmptyRange DEF Init, WaitersHold, SntpHolds
  <2> QED BY <2>1, <2>2 DEF HoldInv
<1>5. Quiet /\ Decided
  BY DEF Init, Quiet, Untouched, Decided, Verdicts
<1>6. RadioInv
  BY <1>2 DEF Init, RadioInv, RadioHeld, RadioReleased, NotBegun
<1> QED BY <1>1, <1>4, <1>5, <1>6 DEF NetworkInv

LEMMA NetworkInvStep == NetworkInv /\ [Next]_vars => NetworkInv'
  BY TypeStep, HoldStep, QuietStep, DecidedStep, RadioStep DEF NetworkInv

\* The inductive invariant.
LEMMA NetworkInvariant == Spec => []NetworkInv
  BY NetworkInvInit, NetworkInvStep, PTL DEF Spec

\* The users of a cycle never hear different verdicts, in whatever order they
\* ask, wait and are called back.  (Resolve against AcquireAsync.)
THEOREM OneVerdictTold == Spec => []OneVerdict
<1>1. NetworkInv => OneVerdict
  BY DEF NetworkInv, Decided, OneVerdict, Bit
<1> QED BY <1>1, NetworkInvariant, PTL

\* The driver is on while a server serves and off after the last release, for any
\* number of retries and synchronisations.  (Release and TearDown.)
THEOREM RadioFollows == Spec => []RadioFollowsUsers
<1>1. NetworkInv => RadioFollowsUsers
  <2> SUFFICES ASSUME NetworkInv PROVE RadioFollowsUsers
    OBVIOUS
  <2>1. NetType /\ HoldInv /\ Quiet /\ Decided /\ RadioInv /\ RefCounted /\ WaitersHold
    BY DEF NetworkInv, HoldInv
  <2>2. Booted /\ ref_count = 0 => driver = "off"
    <3> SUFFICES ASSUME Booted, ref_count = 0 PROVE driver = "off"
      OBVIOUS
    <3>1. Has("sntp")
      BY <2>1, UserAt DEF Booted, Has, Place, NetType, AppType
    <3>2. Held("ota") \in {0, 1} /\ Held("provisioning") \in {0, 1} /\ Held("sntp") \in {0, 1}
      BY DEF Held
    <3>3. Held("sntp") = 0
      BY <2>1, <3>2 DEF RefCounted
    <3>4. torn_down
      BY <3>1, <3>3 DEF Held
    <3> QED BY <2>1, <3>4 DEF RadioInv, RadioReleased
  <2>3. ASSUME NEW u \in serving PROVE driver # "off"
    <3>1. u \in Servers /\ u \in Users /\ told[u] = "ready"
      BY <2>1 DEF NetType, Users, Decided
    <3>2. bits = {"connected"} /\ Has(u)
      BY <2>1, <3>1 DEF Decided, Bit, WaitersHold
    <3>3. Held(u) = 1
      BY <3>1, <3>2 DEF Held, Servers
    <3>4. ref_count # 0
      <4>1. Held("ota") \in {0, 1} /\ Held("provisioning") \in {0, 1} /\ Held("sntp") \in {0, 1}
        BY DEF Held
      <4> QED BY <2>1, <3>1, <3>3, <4>1 DEF RefCounted, Servers
    <3>5. ~NotBegun
      BY <2>1, <3>2 DEF Quiet, Untouched
    <3> QED BY <2>1, <3>2, <3>4, <3>5 DEF RadioInv, RadioHeld
  <2> QED BY <2>2, <2>3 DEF RadioFollowsUsers
<1> QED BY <1>1, NetworkInvariant, PTL

\* Whether there is a time is settled when SNTP is torn down: a synchronisation
\* that was already queued does not change it.  (HandleSynced.)
THEOREM TimeDecidedOnce == Spec => TimeVerdictIsFinal
<1>1. NetworkInv /\ [Next]_vars => [torn_down => valid' = valid]_vars
  <2> SUFFICES ASSUME NetworkInv, Next PROVE torn_down => valid' = valid
    OBVIOUS
  <2>1. CASE Callbacks("app") \/ Callbacks("loop") \/ Environment
    BY <2>1 DEF Callbacks, ServerReady, ServerFailed, SntpReady, SntpFailed, CreateTimer,
         TimerRefused, ArmTimer, CallbackFrame, Environment, Associate, AttemptFails, Lease,
         LinkLost, Drive, ApChanges, TimeSync, TimerFires, EnvFrame
  <2>2. CASE AppTask /\ ~Callbacks("app")
    BY <2>2 DEF AppTask, SkipUser, AddReference, ResetCycle, StartConnecting,
         StartConnectingFails, CheckOrQueue, AppFrame, sntpVars
  <2>3. CASE HandleSynced
    <3>1. valid \in BOOLEAN /\ valid' = (valid \/ ~torn_down)
      BY <2>3 DEF HandleSynced, NetworkInv, NetType
    <3> QED BY <3>1
  <2>4. CASE LoopStep /\ ~HandleSynced
    BY <2>4 DEF LoopStep, DropWifiEvent, OnStaStart, OnStaConnected, OnStaDisconnected,
         OnGotIp, WifiEventFrame, Resolve, CallbacksDone, HandleSntpTimeout, sntpVars
  <2> QED BY <2>1, <2>2, <2>3, <2>4 DEF Next, EventLoop, LoopStep
<1> QED BY <1>1, NetworkInvariant, PTL DEF Spec, TimeVerdictIsFinal

\* Every variable has its type, and ref_count counts those who have acquired and
\* not released.  (AcquireAsync against Release.)
THEOREM TypeCorrect == Spec => []TypeOK
<1>1. NetworkInv => TypeOK
  <2> SUFFICES ASSUME NetworkInv PROVE TypeOK
    OBVIOUS
  <2>1. NetType /\ HoldInv /\ Decided /\ RefCounted /\ WaitersHold
    BY DEF NetworkInv, HoldInv
  <2>2. Acquired = {u \in Users : Has(u)}
    <3>1. app.at \in 1 .. 4 /\ enabled \subseteq Servers
      BY <2>1 DEF NetType, AppType
    <3>2. /\ DOMAIN BootOrder = {1, 2, 3}
          /\ BootOrder[1] = "ota" /\ BootOrder[2] = "provisioning" /\ BootOrder[3] = "sntp"
      BY DEF BootOrder
    <3>3. \A u \in Users : /\ Place(u) \in {1, 2, 3} /\ BootOrder[Place(u)] = u
                           /\ \A j \in {1, 2, 3} : BootOrder[j] = u => j = Place(u)
      BY <3>2 DEF Place, Users, Servers
    <3>4. \A j \in {1, 2, 3} : BootOrder[j] \in Users
      BY <3>2 DEF Users, Servers
    <3>5. app.pc # "call" => app.at \in {1, 2, 3} /\ BootOrder[app.at] \in enabled \cup {"sntp"}
      BY <3>1 DEF NetworkInv, AppBusy, User
    <3>6. ASSUME NEW u \in Acquired PROVE u \in Users /\ Has(u)
      <4>1. PICK j \in {1, 2, 3} :
              /\ u = BootOrder[j]
              /\ \/ j < app.at /\ BootOrder[j] \in enabled \cup {"sntp"}
                 \/ j = app.at /\ app.pc # "call"
        BY <3>2 DEF Acquired
      <4>2. u \in Users /\ j = Place(u)
        BY <3>3, <3>4, <4>1
      <4>3. u \in enabled \cup {"sntp"}
        BY <3>5, <4>1
      <4> QED BY <3>1, <4>1, <4>2, <4>3 DEF Has
    <3>7. ASSUME NEW u \in Users, Has(u) PROVE u \in Acquired
      <4>1. Place(u) \in DOMAIN BootOrder /\ BootOrder[Place(u)] = u
        BY <3>2, <3>3
      <4>2. \/ Place(u) < app.at /\ u \in enabled \cup {"sntp"}
            \/ Place(u) = app.at /\ app.pc # "call"
        BY <3>1, <3>3, <3>7 DEF Has
      <4> QED BY <4>1, <4>2 DEF Acquired
    <3> QED BY <3>6, <3>7
  <2>3. ref_count = Cardinality(Acquired \ (IF torn_down THEN {"sntp"} ELSE {}))
    <3> DEFINE Ota == IF Has("ota") THEN {"ota"} ELSE {}
               Prov == Ota \cup IF Has("provisioning") THEN {"provisioning"} ELSE {}
               All == Prov \cup IF Has("sntp") /\ ~torn_down THEN {"sntp"} ELSE {}
    <3>1. Acquired \ (IF torn_down THEN {"sntp"} ELSE {}) = All
      BY <2>2 DEF Users, Servers
    <3>2. IsFiniteSet(Ota) /\ Cardinality(Ota) = Held("ota")
      BY FS_EmptySet, FS_Singleton DEF Held
    <3>3. IsFiniteSet(Prov) /\ Cardinality(Prov) = Held("ota") + Held("provisioning")
      <4>1. "provisioning" \notin Ota
        OBVIOUS
      <4>2. CASE Has("provisioning")
        <5>1. Prov = Ota \cup {"provisioning"} /\ Held("provisioning") = 1
          BY <4>2 DEF Held
        <5> HIDE DEF Ota, Prov
        <5> QED BY <3>2, <4>1, <5>1, FS_AddElement
      <4>3. CASE ~Has("provisioning")
        <5>1. Prov = Ota /\ Held("provisioning") = 0 /\ Held("ota") \in {0, 1}
          BY <4>3 DEF Held
        <5> HIDE DEF Ota, Prov
        <5> QED BY <3>2, <5>1
      <4> QED BY <4>2, <4>3
    <3>4. Cardinality(All) = Held("ota") + Held("provisioning") + Held("sntp")
      <4>1. "sntp" \notin Prov
        OBVIOUS
      <4>2. CASE Has("sntp") /\ ~torn_down
        <5>1. All = Prov \cup {"sntp"} /\ Held("sntp") = 1
          BY <4>2 DEF Held
        <5> HIDE DEF Ota, Prov, All
        <5> QED BY <3>3, <4>1, <5>1, FS_AddElement
      <4>3. CASE ~(Has("sntp") /\ ~torn_down)
        <5>1. All = Prov /\ Held("sntp") = 0 /\ Held("ota") \in {0, 1}
              /\ Held("provisioning") \in {0, 1}
          BY <4>3 DEF Held
        <5> HIDE DEF Ota, Prov, All
        <5> QED BY <3>3, <5>1
      <4> QED BY <4>2, <4>3
    <3> HIDE DEF All
    <3> QED BY <2>1, <3>1, <3>4 DEF RefCounted
  <2>4. serving \subseteq enabled
    <3>1. \A u \in serving : u \in Users /\ u # "sntp" /\ told[u] = "ready"
      BY <2>1 DEF NetType, Decided, Users, Servers
    <3> QED BY <2>1, <3>1 DEF WaitersHold, Has
  <2>5. Len(BootOrder) = 3
    BY UserAt
  <2> QED BY <2>1, <2>3, <2>4, <2>5 DEF NetType, AppType, AppPcs, LoopType, Events, TypeOK
<1> QED BY <1>1, NetworkInvariant, PTL
=============================================================================
