-------------------------------- MODULE Network --------------------------------
(***************************************************************************)
(* WifiConnection and its three users: OtaServer and ProvisioningServer,   *)
(* which keep the connection for good, and SntpTimeProvider, which gives   *)
(* it back once it has the time.  Two tasks run the code: the app task,    *)
(* which acquires for one user after the other while it boots, and the     *)
(* event loop, which handles the driver's events and the two that SNTP     *)
(* posts.  A callback runs on whichever task resolves the acquisition.     *)
(* Wi-Fi driver, access point, lwIP and esp_timer are the environment.     *)
(* The blocking Acquire is left out: nothing calls it.                     *)
(***************************************************************************)
EXTENDS Integers, FiniteSets, Sequences, Functions

CONSTANTS
  MaxWifiRetries,  \* kMaxWifiRetries
  MaxSyncs         \* how often lwIP reports a synchronisation

ASSUME NetworkAssumption == MaxWifiRetries \in Nat /\ MaxSyncs \in Nat

Servers == {"ota", "provisioning"}
Users == Servers \cup {"sntp"}
BootOrder == <<"ota", "provisioning", "sntp">>
Verdicts == {"ready", "failed"}
DriverStates == {"off", "started", "connecting", "associated", "online"}
WifiEvents == {"start", "connected", "disconnected", "got_ip"}
SntpEvents == {"synced", "timeout"}

VARIABLES
  enabled,        \* the servers that have a secret configured
  app,            \* the app task: whose acquisition it makes, and how far it is
  loop,           \* the event loop task: its position, and a verdict to hand out
  events,         \* the default event loop's queue
  ref_count,
  bits,           \* events_: kConnectedBit and kFailedBit
  retry_count,
  sta_connected,
  pending_waiters,
  told,           \* which callback each user got
  serving,        \* the servers whose httpd_start succeeded
  torn_down,      \* SntpTimeProvider's torn_down_
  valid,          \* SntpTimeProvider's valid_
  timer,          \* sntp_timeout_timer_
  sntp_on,        \* SNTP polls between esp_sntp_init and esp_sntp_stop
  syncs,          \* how often lwIP has reported a synchronisation
  driver,         \* the Wi-Fi driver
  ap              \* the access point is in reach

cycleVars == <<ref_count, bits, retry_count, sta_connected, pending_waiters>>
sntpVars == <<torn_down, valid, timer, sntp_on, syncs>>
userVars == <<told, serving>>
vars == <<enabled, app, loop, events, cycleVars, userVars, sntpVars, driver, ap>>

Booted == app.at > Len(BootOrder)
User == BootOrder[app.at]

\* Who has called AcquireAsync.
Acquired ==
  {BootOrder[i] : i \in {j \in DOMAIN BootOrder :
     \/ j < app.at /\ BootOrder[j] \in enabled \cup {"sntp"}
     \/ j = app.at /\ app.pc # "call"}}

\* Every variable has its type, and ref_count counts those who acquired and did
\* not release.
TypeOK ==
  /\ enabled \subseteq Servers
  /\ app \in [at : 1 .. Len(BootOrder) + 1,
              pc : {"call", "reset", "start", "check", "sntp", "arm"} \cup Verdicts]
  /\ loop \in [pc : {"idle", "resolve", "callbacks", "sntp", "arm"}, verdict : Verdicts,
               todo : Seq(Users)]
  /\ events \in Seq(WifiEvents \cup SntpEvents)
  /\ ref_count = Cardinality(Acquired \ (IF torn_down THEN {"sntp"} ELSE {}))
  /\ bits \subseteq {"connected", "failed"}
  /\ retry_count \in 0 .. MaxWifiRetries /\ sta_connected \in BOOLEAN
  /\ pending_waiters \in Seq(Users)
  /\ told \in [Users -> Verdicts \cup {"nothing"}] /\ serving \subseteq enabled
  /\ torn_down \in BOOLEAN /\ valid \in BOOLEAN
  /\ timer \in {"none", "created", "armed"}
  /\ sntp_on \in BOOLEAN /\ syncs \in 0 .. MaxSyncs
  /\ driver \in DriverStates /\ ap \in BOOLEAN

Init ==
  /\ enabled \in SUBSET Servers
  /\ app = [at |-> 1, pc |-> "call"]
  /\ loop = [pc |-> "idle", verdict |-> "failed", todo |-> <<>>]
  /\ events = <<>> /\ ref_count = 0 /\ bits = {}
  /\ retry_count = 0 /\ sta_connected = FALSE /\ pending_waiters = <<>>
  /\ told = [u \in Users |-> "nothing"] /\ serving = {}
  /\ torn_down = FALSE /\ valid = FALSE /\ timer = "none"
  /\ sntp_on = FALSE /\ syncs = 0
  /\ driver = "off" /\ ap \in BOOLEAN

--------------------------------------------------------------------------------
(* Releasing                                                               *)

\* Seeded bug: a second caller tears SNTP down again.
TearDownAgain(queue) ==
  /\ torn_down' = TRUE /\ timer' = "none" /\ sntp_on' = FALSE
  /\ ref_count' = IF ref_count > 0 THEN ref_count - 1 ELSE 0
  /\ driver' = IF ref_count = 1 THEN "off" ELSE driver
  /\ events' = IF ref_count = 1 /\ driver \in {"associated", "online"}
               THEN Append(queue, "disconnected") ELSE queue

\* SntpTimeProvider::TearDown with Release in it: the last user switches the
\* driver off, which reports the disconnection if there was a connection.
\* queue is the event queue as the caller leaves it.
TearDown(queue) ==
  IF torn_down
  THEN /\ events' = queue
       /\ UNCHANGED <<torn_down, timer, sntp_on, ref_count, driver>>
  ELSE /\ torn_down' = TRUE /\ timer' = "none" /\ sntp_on' = FALSE
       /\ ref_count' = ref_count - 1
       /\ driver' = IF ref_count = 1 THEN "off" ELSE driver
       /\ events' = IF ref_count = 1 /\ driver \in {"associated", "online"}
                    THEN Append(queue, "disconnected") ELSE queue

--------------------------------------------------------------------------------
(* The users' callbacks, on the app task or on the event loop               *)

At(task, pc) == IF task = "app" THEN app.pc = pc /\ ~Booted ELSE loop.pc = pc

GoTo(task, pc) ==
  IF task = "app"
  THEN app' = [app EXCEPT !.pc = pc] /\ UNCHANGED loop
  ELSE loop' = [loop EXCEPT !.pc = pc] /\ UNCHANGED app

\* The app task goes on to the next user; the loop to the next waiter.
Finish(task) ==
  IF task = "app"
  THEN app' = [at |-> app.at + 1, pc |-> "call"] /\ UNCHANGED loop
  ELSE loop' = [loop EXCEPT !.pc = "callbacks"] /\ UNCHANGED app

\* A callback of u is next on this task, with this verdict.
Calling(task, u, verdict) ==
  IF task = "app"
  THEN ~Booted /\ app.pc = verdict /\ User = u
  ELSE loop.pc = "callbacks" /\ loop.verdict = verdict /\ loop.todo # <<>>
       /\ Head(loop.todo) = u

\* The callback of u returns.
Return(task) ==
  IF task = "app" THEN Finish(task)
  ELSE loop' = [loop EXCEPT !.todo = Tail(@)] /\ UNCHANGED app

CallbackFrame == UNCHANGED <<enabled, bits, retry_count, sta_connected, pending_waiters, valid,
                             syncs, ap>>

\* StartServer: httpd_start may fail, and then nothing serves this boot.
ServerReady(task, u) ==
  /\ Calling(task, u, "ready") /\ u \in Servers
  /\ told' = [told EXCEPT ![u] = "ready"]
  /\ serving' \in {serving, serving \cup {u}}
  /\ Return(task)
  /\ CallbackFrame
  /\ UNCHANGED <<events, ref_count, torn_down, timer, sntp_on, driver>>

\* The servers only log that there is no network.
ServerFailed(task, u) ==
  /\ Calling(task, u, "failed") /\ u \in Servers
  /\ told' = [told EXCEPT ![u] = "failed"]
  /\ Return(task)
  /\ CallbackFrame
  /\ UNCHANGED <<serving, events, ref_count, torn_down, timer, sntp_on, driver>>

\* HandleWifiReady, and StartSntp as far as esp_sntp_init.
SntpReady(task) ==
  /\ Calling(task, "sntp", "ready") /\ ~torn_down
  /\ told' = [told EXCEPT !["sntp"] = "ready"]
  /\ sntp_on' = TRUE
  /\ IF task = "app"
     THEN app' = [app EXCEPT !.pc = "sntp"] /\ UNCHANGED loop
     ELSE loop' = [loop EXCEPT !.pc = "sntp", !.todo = Tail(@)] /\ UNCHANGED app
  /\ CallbackFrame
  /\ UNCHANGED <<serving, events, ref_count, torn_down, timer, driver>>

\* HandleWifiFailed.
SntpFailed(task) ==
  /\ Calling(task, "sntp", "failed")
  /\ told' = [told EXCEPT !["sntp"] = "failed"]
  /\ TearDown(events)
  /\ Return(task)
  /\ CallbackFrame
  /\ UNCHANGED serving

\* esp_timer_create in StartSntp succeeds.  SNTP already polls, so that the time
\* may have come, and the event loop torn SNTP down, if this is the app task.
CreateTimer(task) ==
  /\ At(task, "sntp")
  /\ timer' = "created"
  /\ GoTo(task, "arm")
  /\ CallbackFrame
  /\ UNCHANGED <<userVars, events, ref_count, torn_down, sntp_on, driver>>

\* Seeded bug: SNTP goes on without a time-out and keeps the connection.
TimerRefusedIgnored(task) ==
  /\ At(task, "sntp")
  /\ Finish(task)
  /\ CallbackFrame
  /\ UNCHANGED <<userVars, events, ref_count, torn_down, timer, sntp_on, driver>>

\* esp_timer_create fails: SNTP gives up.
TimerRefused(task) ==
  /\ At(task, "sntp")
  /\ TearDown(events)
  /\ Finish(task)
  /\ CallbackFrame
  /\ UNCHANGED userVars

\* esp_timer_start_once, which refuses a timer that has been deleted meanwhile.
ArmTimer(task) ==
  /\ At(task, "arm")
  /\ timer' = IF timer = "created" THEN "armed" ELSE timer
  /\ Finish(task)
  /\ CallbackFrame
  /\ UNCHANGED <<userVars, events, ref_count, torn_down, sntp_on, driver>>

Callbacks(task) ==
  \/ \E u \in Servers : ServerReady(task, u) \/ ServerFailed(task, u)
  \/ SntpReady(task) \/ SntpFailed(task)
  \/ CreateTimer(task) \/ TimerRefused(task) \/ ArmTimer(task)

--------------------------------------------------------------------------------
(* AcquireAsync, on the app task                                           *)

AppFrame == UNCHANGED <<enabled, loop, userVars, sntpVars, ap>>

\* A server without a secret does not acquire.
SkipUser ==
  /\ ~Booted /\ app.pc = "call" /\ User \in Servers \ enabled
  /\ Finish("app")
  /\ UNCHANGED <<enabled, events, cycleVars, userVars, sntpVars, driver, ap>>

\* Seeded bug: every user starts a cycle of its own.
AddReferenceAlwaysFirst ==
  /\ ~Booted /\ app.pc = "call" /\ User \in enabled \cup {"sntp"}
  /\ ref_count' = ref_count + 1
  /\ app' = [app EXCEPT !.pc = "reset"]
  /\ AppFrame
  /\ UNCHANGED <<events, bits, retry_count, sta_connected, pending_waiters, driver>>

\* ref_count_.fetch_add: the first user starts a cycle.
AddReference ==
  /\ ~Booted /\ app.pc = "call" /\ User \in enabled \cup {"sntp"}
  /\ ref_count' = ref_count + 1
  /\ app' = [app EXCEPT !.pc = IF ref_count = 0 THEN "reset" ELSE "check"]
  /\ AppFrame
  /\ UNCHANGED <<events, bits, retry_count, sta_connected, pending_waiters, driver>>

ResetCycle ==
  /\ app.pc = "reset"
  /\ retry_count' = 0 /\ sta_connected' = FALSE /\ bits' = {}
  /\ app' = [app EXCEPT !.pc = "start"]
  /\ AppFrame
  /\ UNCHANGED <<events, ref_count, pending_waiters, driver>>

\* StartConnecting as far as esp_wifi_start, which reports STA_START.
StartConnecting ==
  /\ app.pc = "start"
  /\ driver' = "started" /\ events' = Append(events, "start")
  /\ app' = [app EXCEPT !.pc = "check"]
  /\ AppFrame
  /\ UNCHANGED cycleVars

\* One of the driver's functions fails: the callback runs here and now.
StartConnectingFails ==
  /\ app.pc = "start"
  /\ bits' = bits \cup {"failed"}
  /\ app' = [app EXCEPT !.pc = "failed"]
  /\ AppFrame
  /\ UNCHANGED <<events, ref_count, retry_count, sta_connected, pending_waiters, driver>>

\* Under waiters_mutex_: resolved already, or queued.
CheckOrQueue ==
  /\ app.pc = "check"
  /\ IF bits = {}
     THEN /\ pending_waiters' = Append(pending_waiters, User)
          /\ app' = [at |-> app.at + 1, pc |-> "call"]
     ELSE /\ app' = [app EXCEPT !.pc = IF "connected" \in bits THEN "ready" ELSE "failed"]
          /\ UNCHANGED pending_waiters
  /\ AppFrame
  /\ UNCHANGED <<events, ref_count, bits, retry_count, sta_connected, driver>>

AppTask ==
  \/ SkipUser \/ AddReference \/ ResetCycle
  \/ StartConnecting \/ StartConnectingFails \/ CheckOrQueue
  \/ Callbacks("app")

--------------------------------------------------------------------------------
(* HandleWifiOrIpEvent and OnInternalEvent, on the event loop               *)

Handling(event) == loop.pc = "idle" /\ events # <<>> /\ Head(events) = event

\* A Wi-Fi event counts only while somebody waits for the verdict.
Live == ref_count # 0 /\ bits = {}

WifiEventFrame == UNCHANGED <<enabled, app, ref_count, bits, pending_waiters, userVars,
                              sntpVars, ap>>

DropWifiEvent ==
  /\ \E e \in WifiEvents : Handling(e)
  /\ ~Live
  /\ events' = Tail(events)
  /\ WifiEventFrame
  /\ UNCHANGED <<loop, retry_count, sta_connected, driver>>

\* esp_wifi_connect starts an attempt, or refuses (no SSID): that is the verdict.
TryConnect ==
  \/ driver' = "connecting" /\ UNCHANGED loop
  \/ loop' = [loop EXCEPT !.pc = "resolve", !.verdict = "failed"] /\ UNCHANGED driver

OnStaStart ==
  /\ Handling("start") /\ Live
  /\ events' = Tail(events)
  /\ TryConnect
  /\ WifiEventFrame
  /\ UNCHANGED <<retry_count, sta_connected>>

OnStaConnected ==
  /\ Handling("connected") /\ Live
  /\ events' = Tail(events)
  /\ sta_connected' = TRUE
  /\ WifiEventFrame
  /\ UNCHANGED <<loop, retry_count, driver>>

OnStaDisconnected ==
  /\ Handling("disconnected") /\ Live
  /\ events' = Tail(events)
  /\ sta_connected' = FALSE
  /\ IF retry_count < MaxWifiRetries
     THEN retry_count' = retry_count + 1 /\ TryConnect
     ELSE /\ loop' = [loop EXCEPT !.pc = "resolve", !.verdict = "failed"]
          /\ UNCHANGED <<retry_count, driver>>
  /\ WifiEventFrame

\* An address without an association would be ignored.
OnGotIp ==
  /\ Handling("got_ip") /\ Live
  /\ events' = Tail(events)
  /\ IF sta_connected
     THEN loop' = [loop EXCEPT !.pc = "resolve", !.verdict = "ready"]
     ELSE UNCHANGED loop
  /\ WifiEventFrame
  /\ UNCHANGED <<retry_count, sta_connected, driver>>

\* Seeded bug: room for one waiter only, the last one.
ResolveLast ==
  /\ loop.pc = "resolve"
  /\ bits' = bits \cup {IF loop.verdict = "ready" THEN "connected" ELSE "failed"}
  /\ loop' = [loop EXCEPT !.pc = "callbacks",
                          !.todo = IF pending_waiters = <<>> THEN <<>>
                                   ELSE <<pending_waiters[Len(pending_waiters)]>>]
  /\ pending_waiters' = <<>>
  /\ UNCHANGED <<enabled, app, events, ref_count, retry_count, sta_connected, userVars,
                 sntpVars, driver, ap>>

\* Under waiters_mutex_: the bit is set and the waiters are taken together.
Resolve ==
  /\ loop.pc = "resolve"
  /\ bits' = bits \cup {IF loop.verdict = "ready" THEN "connected" ELSE "failed"}
  /\ loop' = [loop EXCEPT !.pc = "callbacks", !.todo = pending_waiters]
  /\ pending_waiters' = <<>>
  /\ UNCHANGED <<enabled, app, events, ref_count, retry_count, sta_connected, userVars,
                 sntpVars, driver, ap>>

CallbacksDone ==
  /\ loop.pc = "callbacks" /\ loop.todo = <<>>
  /\ loop' = [loop EXCEPT !.pc = "idle"]
  /\ UNCHANGED <<enabled, app, events, cycleVars, userVars, sntpVars, driver, ap>>

SntpEventFrame == UNCHANGED <<enabled, app, loop, bits, retry_count, sta_connected,
                              pending_waiters, userVars, syncs, ap>>

\* Seeded bug: a synchronisation counts even after SNTP gave up.
HandleSyncedAlways ==
  /\ Handling("synced")
  /\ valid' = TRUE
  /\ TearDown(Tail(events))
  /\ SntpEventFrame

HandleSynced ==
  /\ Handling("synced")
  /\ valid' = (valid \/ ~torn_down)
  /\ TearDown(Tail(events))
  /\ SntpEventFrame

HandleSntpTimeout ==
  /\ Handling("timeout")
  /\ TearDown(Tail(events))
  /\ SntpEventFrame
  /\ UNCHANGED valid

EventLoop ==
  \/ DropWifiEvent
  \/ OnStaStart \/ OnStaConnected \/ OnStaDisconnected \/ OnGotIp
  \/ Resolve \/ CallbacksDone
  \/ HandleSynced \/ HandleSntpTimeout
  \/ Callbacks("loop")

--------------------------------------------------------------------------------
(* Driver, access point, lwIP and esp_timer                                 *)

EnvFrame == UNCHANGED <<enabled, app, loop, cycleVars, userVars, torn_down, valid, sntp_on>>

\* The driver gets from one state to another and reports it.
Drive(from, to, event) ==
  /\ driver \in from
  /\ driver' = to /\ events' = Append(events, event)
  /\ EnvFrame
  /\ UNCHANGED <<timer, syncs, ap>>

Associate == ap /\ Drive({"connecting"}, "associated", "connected")
AttemptFails == Drive({"connecting"}, "started", "disconnected")
Lease == ap /\ Drive({"associated"}, "online", "got_ip")
LinkLost == ~ap /\ Drive({"associated", "online"}, "started", "disconnected")

ApChanges ==
  /\ ap' = ~ap
  /\ EnvFrame
  /\ UNCHANGED <<events, timer, syncs, driver>>

\* OnTimeSyncNotification, on lwIP's task.
TimeSync ==
  /\ sntp_on /\ driver = "online" /\ syncs < MaxSyncs
  /\ syncs' = syncs + 1 /\ events' = Append(events, "synced")
  /\ EnvFrame
  /\ UNCHANGED <<timer, driver, ap>>

\* OnSntpTimeoutTimer, on the timer service's task: a one-shot timer.
TimerFires ==
  /\ timer = "armed"
  /\ timer' = "created" /\ events' = Append(events, "timeout")
  /\ EnvFrame
  /\ UNCHANGED <<syncs, driver, ap>>

Environment ==
  \/ Associate \/ AttemptFails \/ Lease \/ LinkLost \/ ApChanges
  \/ TimeSync \/ TimerFires

Next == AppTask \/ EventLoop \/ Environment

Spec == Init /\ [][Next]_vars

\* The scheduler runs both tasks and the timer.  Of the environment: an attempt
\* to associate ends, and an association gets an address or is lost.
Fairness ==
  /\ WF_vars(AppTask) /\ WF_vars(EventLoop) /\ WF_vars(TimerFires)
  /\ WF_vars(Associate \/ AttemptFails) /\ WF_vars(Lease \/ LinkLost)

FairSpec == Spec /\ Fairness

--------------------------------------------------------------------------------
(* Properties                                                              *)

\* The driver is off once nobody holds a reference any more, and never while a
\* server serves: SNTP releases once, whatever order its synchronisation, its
\* time-out and its failures come in.  (Release and TearDown.)
RadioFollowsUsers ==
  /\ Booted /\ ref_count = 0 => driver = "off"
  /\ serving # {} => driver # "off"

\* All users of a cycle hear the same verdict, no matter when they asked and
\* what the link does meanwhile.  (Resolve against AcquireAsync.)
OneVerdict == ~ \E u, v \in Users : told[u] = "ready" /\ told[v] = "failed"

\* Whether the time is available is decided once: when SNTP is torn down.
\* (HandleSynced against HandleSntpTimeout.)
TimeVerdictIsFinal == [][torn_down => valid' = valid]_vars

\* Whoever acquires is told a verdict: no waiter is forgotten between the check
\* and the resolution.  (AcquireAsync and Resolve under waiters_mutex_.)
WaitersAnswered == \A u \in Users : (u \in Acquired) ~> (told[u] # "nothing")

\* SNTP always ends and gives its reference back: with the time, without it, or
\* without a network.  (StartSntp's failures, the time-out, HandleWifiFailed.)
SntpSettles == <>torn_down

\* What docs/ARCHITECTURE.md says of an outage: only one that exceeds the retry
\* budget leaves the servers out of reach.  (HandleWifiOrIpEvent.)
LostLinkIsRetried ==
  (serving # {} /\ driver = "started" /\ retry_count < MaxWifiRetries)
    ~> (driver # "started" \/ retry_count = MaxWifiRetries)
================================================================================
